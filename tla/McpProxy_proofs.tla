--------------------------- MODULE McpProxy_proofs ---------------------------
(***************************************************************************)
(* Proofs about McpProxy, for any number of calls, requests of any length, *)
(* pipes of any capacity, and whatever the server says of its own: the two *)
(* pipes and the mutex implement the promise of ToolCalls.                 *)
(***************************************************************************)
EXTENDS McpProxy, SequenceTheorems, TLAPS

(* What the types need to be inductive, and the refinement to hold. *)

\* The request has an id of its own.
Has(r) == stage[r] \notin {"new", "locking"} /\ r # "initialized"

\* It has been written to its end, as request number i, and not executed.
Unanswered(r, i) ==
    /\ Has(r) /\ stage[r] # "writing"
    /\ id[r] = i
    /\ r \notin executed

\* Ids tell requests apart.
IdsDiffer ==
    \A r \in Requests : Has(r) =>
        /\ id[r] \in 1 .. nextID
        /\ \A s \in Requests : Has(s) /\ id[s] = id[r] => s = r

\* Where a request stands, and what was done for it.
StagesFit ==
    /\ \A r \in Requests : stage[r] = "writing" => left[r] > 0
    /\ \A r \in executed : Has(r) /\ stage[r] # "writing"
    /\ \A c \in Calls : stage[c] = "ok" => c \in executed

\* The last part of a request that is under way is there once, and not yet
\* asked.
PartsFit ==
    \A i \in 1 .. Len(stdin) : stdin[i].last /\ stdin[i].of # "initialized" =>
        /\ Unanswered(stdin[i].of, stdin[i].id)
        /\ \A q \in asked : q.of # stdin[i].of
        /\ \A j \in 1 .. Len(stdin) : stdin[j].last /\ stdin[j].of = stdin[i].of => j = i

AskedFit == \A q \in asked : Unanswered(q.of, q.id)

\* An answer bears the id of the request it is the answer to.
Fits(msg) == msg.kind = "answer" => \E r \in executed : msg.of = {r} /\ msg.id = id[r]

AnswersFit ==
    /\ \A i \in 1 .. Len(stdout) : Fits(stdout[i])
    /\ \A i \in 1 .. Len(saying) : Fits(saying[i])

IInv ==
    /\ TypeOK
    /\ IdsDiffer
    /\ StagesFit
    /\ PartsFit
    /\ AskedFit
    /\ AnswersFit

-----------------------------------------------------------------------------
(* What the types say of a message. *)
LEMMA MessageFields ==
    ASSUME NEW m \in Message
    PROVE  /\ m.kind \in {"answer", "request", "notification"}
           /\ m.kind = "answer" => m.of \in SUBSET Requests /\ m.id \in Ids
           /\ m.kind = "request" => m.of = {}
BY DEF Message

LEMMA SameTypes ==
    ASSUME nextID' = nextID
    PROVE  Ids' = Ids /\ Message' = Message
BY DEF Ids, Message

(* As ids are given out, what was a message remains one. *)
LEMMA MessagesRemain ==
    ASSUME nextID \in Nat, nextID' \in Nat, nextID <= nextID'
    PROVE  /\ \A s \in Seq(Message) : s \in Seq(Message')
           /\ Ids \subseteq Ids'
           /\ \A s \in Seq([of : Requests, id : Ids, last : BOOLEAN]) :
                 s \in Seq([of : Requests, id : Ids', last : BOOLEAN])
<1>1. Ids \subseteq Ids'
  BY DEF Ids
<1>2. Message \subseteq Message'
  BY <1>1 DEF Message
<1>3. [of : Requests, id : Ids, last : BOOLEAN] \subseteq [of : Requests, id : Ids', last : BOOLEAN]
  BY <1>1
<1>. QED  BY <1>1, <1>2, <1>3, SeqMonotonic

(* A queue of which the head is taken. *)
LEMMA TakeHead ==
    ASSUME NEW S, NEW s \in Seq(S), s # <<>>
    PROVE  /\ Head(s) \in S /\ Head(s) = s[1] /\ 1 \in 1 .. Len(s) /\ Len(s) \in Nat
           /\ Tail(s) \in Seq(S)
           /\ Len(Tail(s)) = Len(s) - 1
           /\ \A i \in 1 .. Len(Tail(s)) : i + 1 \in 1 .. Len(s) /\ Tail(s)[i] = s[i + 1]
OBVIOUS

(* A queue to which an element is added. *)
LEMMA AddLast ==
    ASSUME NEW S, NEW s \in Seq(S), NEW e \in S
    PROVE  /\ Append(s, e) \in Seq(S)
           /\ Len(Append(s, e)) = Len(s) + 1 /\ Len(s) \in Nat
           /\ Append(s, e)[Len(s) + 1] = e
           /\ \A i \in 1 .. Len(s) : Append(s, e)[i] = s[i]
OBVIOUS

(* A part of a request in the pipe. *)
LEMMA PartFields ==
    ASSUME TypeOK, NEW i \in 1 .. Len(stdin)
    PROVE  stdin[i].of \in Requests /\ stdin[i].id \in Ids /\ stdin[i].last \in BOOLEAN
<1>1. stdin[i] \in [of : Requests, id : Ids, last : BOOLEAN]
  BY ElementOfSeq DEF TypeOK
<1>. QED  BY <1>1

LEMMA InitIInv == Init => IInv
<1>. SUFFICES ASSUME Init PROVE IInv
  OBVIOUS
<1>1. TypeOK
  BY BoundsAssumption DEF Init, TypeOK, Ids
<1>2. IdsDiffer /\ StagesFit /\ PartsFit /\ AskedFit /\ AnswersFit
  BY DEF Init, IdsDiffer, StagesFit, PartsFit, AskedFit, AnswersFit, Has, Requests
<1>. QED  BY <1>1, <1>2 DEF IInv

-----------------------------------------------------------------------------
(* One lemma per action: each preserves the invariant. *)

(* While the queues and what the server knows stay, a change of stage is    *)
(* harmless that takes no request back and adds no request with an id.      *)
LEMMA StagesChange ==
    ASSUME IInv, NEW r \in Requests, NEW st,
           stage' = [stage EXCEPT ![r] = st],
           \/ stage[r] = "new" /\ st = "locking"
           \/ stage[r] \in {"writing", "reading"} /\ st \in {"ok", "error"},
           id' = id, nextID' = nextID, stdin' = stdin, asked' = asked, executed' = executed
    PROVE  IdsDiffer' /\ PartsFit' /\ AskedFit'
<1>. USE DEF IInv
<1>1. \A s \in Requests : Has(s)' <=> Has(s)
  BY DEF Has, TypeOK
<1>2. \A s \in Requests : \A i : Unanswered(s, i) => Unanswered(s, i)'
  BY <1>1 DEF Unanswered, TypeOK
<1>3. IdsDiffer'
  BY <1>1 DEF IdsDiffer
<1>4. PartsFit'
  <2>1. \A i \in 1 .. Len(stdin) : stdin[i].of \in Requests
    BY PartFields
  <2>. QED  BY <1>2, <2>1 DEF PartsFit
<1>5. AskedFit'
  BY <1>2 DEF AskedFit, TypeOK
<1>. QED  BY <1>3, <1>4, <1>5

LEMMA BeginIInv ==
    ASSUME IInv, NEW r \in Requests, Begin(r)
    PROVE  IInv'
<1>. USE DEF IInv
<1>1. /\ stage' = [stage EXCEPT ![r] = "locking"] /\ stage[r] = "new"
      /\ id' = id /\ left' = left /\ mu' = mu /\ nextID' = nextID /\ stdin' = stdin
      /\ stdout' = stdout /\ got' = got /\ close' = close /\ alive' = alive /\ asked' = asked
      /\ saying' = saying /\ chatter' = chatter /\ executed' = executed
  BY DEF Begin, server
<1>2. TypeOK'
  BY <1>1, SameTypes DEF TypeOK
<1>3. IdsDiffer' /\ PartsFit' /\ AskedFit'
  BY <1>1, StagesChange
<1>4. StagesFit'
  BY <1>1 DEF StagesFit, Has, TypeOK, Requests
<1>5. AnswersFit'
  BY <1>1 DEF AnswersFit, Fits
<1>. QED  BY <1>2, <1>3, <1>4, <1>5

LEMMA CloseIInv ==
    ASSUME IInv, GiveUp \/ CloseReturns
    PROVE  IInv'
<1>1. /\ stage' = stage /\ id' = id /\ left' = left /\ mu' = mu /\ nextID' = nextID
      /\ stdin' = stdin /\ stdout' = stdout /\ got' = got /\ alive' = alive /\ asked' = asked
      /\ saying' = saying /\ chatter' = chatter /\ executed' = executed
      /\ close' \in {"no", "waiting", "returned"}
  BY DEF GiveUp, CloseReturns, server
<1>2. TypeOK'
  BY <1>1, SameTypes DEF IInv, TypeOK
<1>3. IdsDiffer' /\ StagesFit' /\ PartsFit' /\ AskedFit' /\ AnswersFit'
  BY <1>1 DEF IInv, IdsDiffer, StagesFit, PartsFit, AskedFit, AnswersFit, Has, Unanswered, Fits
<1>. QED  BY <1>2, <1>3 DEF IInv

LEMMA LockIInv ==
    ASSUME IInv, NEW r \in Requests, Lock(r)
    PROVE  IInv'
<1>. USE DEF IInv
<1>1. /\ nextID \in Nat /\ nextID' \in Nat /\ nextID <= nextID'
      /\ stage' = [stage EXCEPT ![r] = "writing"] /\ stage[r] = "locking"
      /\ left' = [left EXCEPT ![r] = Size[r]]
      /\ mu = {} /\ mu' = {r}
      /\ stdin' = stdin /\ stdout' = stdout /\ got' = got /\ close' = close /\ alive' = alive
      /\ asked' = asked /\ saying' = saying /\ chatter' = chatter /\ executed' = executed
  BY DEF Lock, TypeOK, server
<1>2. Size[r] \in Nat /\ Size[r] > 0
  BY SizeAssumption
<1>3. TypeOK'
  <2>1. id' \in [Requests -> Ids']
    <3>1. Ids \subseteq Ids' /\ nextID' \in Ids' /\ id \in [Requests -> Ids]
      BY <1>1, MessagesRemain DEF Ids, TypeOK
    <3>2. id' = id \/ id' = [id EXCEPT ![r] = nextID']
      BY DEF Lock
    <3>. QED  BY <3>1, <3>2
  <2>2. mu' \in SUBSET Requests /\ stage' \in [Requests -> {"new", "locking", "writing",
                                                            "reading", "ok", "error"}]
    BY <1>1 DEF TypeOK
  <2>3. \A s \in Requests : mu' = {s} <=> stage'[s] \in {"writing", "reading"}
    <3>1. \A s \in Requests : stage[s] \notin {"writing", "reading"}
      BY <1>1 DEF TypeOK
    <3>. QED  BY <1>1, <3>1 DEF TypeOK
  <2>4. left' \in [Requests -> Nat]
    BY <1>1, <1>2 DEF TypeOK
  <2>5. stdin' \in Seq([of : Requests, id : Ids', last : BOOLEAN])
        /\ stdout' \in Seq(Message') /\ saying' \in Seq(Message')
    BY <1>1, MessagesRemain DEF TypeOK
  <2>6. asked' \subseteq [of : Requests, id : Ids']
    BY <1>1, MessagesRemain DEF TypeOK
  <2>. QED  BY <1>1, <2>1, <2>2, <2>3, <2>4, <2>5, <2>6 DEF TypeOK
<1>4. \A s \in Requests \ {r} : (Has(s)' <=> Has(s)) /\ id'[s] = id[s] /\ stage'[s] = stage[s]
  BY DEF Has, Lock, TypeOK
<1>5. ~Has(r) /\ (Has(r)' => id'[r] = nextID + 1 /\ nextID' = nextID + 1)
  BY DEF Has, Lock, TypeOK
<1>6. IdsDiffer'
  BY <1>1, <1>4, <1>5 DEF IdsDiffer
<1>7. StagesFit'
  <2>1. left'[r] > 0 /\ \A s \in Requests \ {r} : left'[s] = left[s]
    BY <1>1, <1>2 DEF TypeOK
  <2>. QED  BY <1>1, <1>4, <1>5, <2>1 DEF StagesFit, TypeOK, Requests
<1>8. \A s \in Requests : \A i : Unanswered(s, i) => Unanswered(s, i)'
  BY <1>1, <1>4, <1>5 DEF Unanswered
<1>9. PartsFit'
  <2>1. \A i \in 1 .. Len(stdin) : stdin[i].of \in Requests
    BY PartFields
  <2>. QED  BY <1>1, <1>8, <2>1 DEF PartsFit
<1>10. AskedFit'
  BY <1>1, <1>8 DEF AskedFit, TypeOK
<1>11. AnswersFit'
  <2>1. \A s \in executed : s \in Requests /\ id'[s] = id[s]
    BY <1>4, <1>5 DEF StagesFit, TypeOK
  <2>. QED  BY <1>1, <2>1 DEF AnswersFit, Fits
<1>. QED  BY <1>3, <1>6, <1>7, <1>9, <1>10, <1>11

LEMMA WriteIInv ==
    ASSUME IInv, NEW r \in Requests, Write(r)
    PROVE  IInv'
<1>. USE DEF IInv
<1>1. /\ stage[r] = "writing" /\ left[r] \in Nat /\ left[r] > 0
      /\ Len(stdin) < Capacity
      /\ left' = [left EXCEPT ![r] = left[r] - 1]
      /\ id' = id /\ nextID' = nextID /\ stdout' = stdout /\ got' = got /\ close' = close
      /\ alive' = alive /\ asked' = asked /\ saying' = saying /\ chatter' = chatter
      /\ executed' = executed
  BY DEF Write, TypeOK, StagesFit, server
<1>2. \/ left[r] > 1 /\ mu' = mu /\ stage' = stage
      \/ left[r] = 1 /\ r = "initialized" /\ mu' = {} /\ stage' = [stage EXCEPT ![r] = "ok"]
      \/ left[r] = 1 /\ r # "initialized" /\ mu' = mu /\ stage' = [stage EXCEPT ![r] = "reading"]
  BY <1>1 DEF Write, Over
<1>3. PICK p \in [of : Requests, id : Ids, last : BOOLEAN] :
          /\ p.of = r /\ p.id = id[r] /\ (p.last <=> left[r] = 1)
          /\ stdin' = Append(stdin, p)
  <2>1. [of |-> r, id |-> id[r], last |-> left[r] = 1] \in [of : Requests, id : Ids, last : BOOLEAN]
    BY DEF TypeOK
  <2>. QED  BY <2>1 DEF Write
<1>4. /\ stdin' \in Seq([of : Requests, id : Ids, last : BOOLEAN])
      /\ Len(stdin') = Len(stdin) + 1 /\ Len(stdin) \in Nat
      /\ stdin'[Len(stdin) + 1] = p
      /\ \A i \in 1 .. Len(stdin) : stdin'[i] = stdin[i] /\ stdin[i].of \in Requests
  BY <1>3, AddLast, PartFields DEF TypeOK
<1>5. TypeOK'
  <2>1. left' \in [Requests -> Nat]
    BY <1>1 DEF TypeOK
  <2>2. stage' \in [Requests -> {"new", "locking", "writing", "reading", "ok", "error"}]
        /\ mu' \in SUBSET Requests
    BY <1>2 DEF TypeOK
  <2>3. \A s \in Requests : mu' = {s} <=> stage'[s] \in {"writing", "reading"}
    <3>1. mu = {r} /\ \A s \in Requests \ {r} : stage[s] \notin {"writing", "reading"}
      BY <1>1 DEF TypeOK
    <3>. QED  BY <1>1, <1>2, <3>1 DEF TypeOK
  <2>4. Len(stdin') <= Capacity
    BY <1>1, <1>4, BoundsAssumption
  <2>. QED  BY <1>1, <1>4, <2>1, <2>2, <2>3, <2>4, SameTypes DEF TypeOK
<1>6. /\ \A s \in Requests : Has(s)' <=> Has(s)
      /\ \A s \in Requests \ {r} : stage'[s] = stage[s] /\ left'[s] = left[s]
      /\ stage'[r] = "writing" => left[r] > 1 /\ left'[r] = left[r] - 1
      /\ left[r] = 1 => stage'[r] \in {"ok", "reading"}
      /\ stage'[r] = "ok" => r = "initialized"
  BY <1>1, <1>2 DEF Has, TypeOK
<1>7. IdsDiffer'
  BY <1>1, <1>6 DEF IdsDiffer
<1>8. r \notin executed
  BY <1>1 DEF StagesFit
<1>9. StagesFit'
  <2>1. \A s \in Requests : stage'[s] = "writing" => left'[s] > 0
    BY <1>1, <1>6 DEF StagesFit
  <2>2. \A s \in executed : Has(s)' /\ stage'[s] # "writing"
    BY <1>1, <1>6, <1>8 DEF StagesFit, TypeOK
  <2>3. \A c \in Calls : stage'[c] = "ok" => c \in executed
    BY <1>6, CallsAssumption DEF StagesFit, Requests, Startup
  <2>. QED  BY <1>1, <2>1, <2>2, <2>3 DEF StagesFit
<1>10. \A s \in Requests : \A i : Unanswered(s, i) => s # r /\ Unanswered(s, i)'
  BY <1>1, <1>6 DEF Unanswered
<1>11. left[r] = 1 /\ r # "initialized" => Unanswered(r, id[r])'
  BY <1>1, <1>6, <1>8 DEF Unanswered, Has, TypeOK
<1>12. PartsFit'
  <2>1. \A q \in asked : q.of # r
    BY <1>10 DEF AskedFit, TypeOK
  <2>2. \A i \in 1 .. Len(stdin') : stdin'[i].of \in Requests
    BY <1>3, <1>4
  <2>. SUFFICES ASSUME NEW i \in 1 .. Len(stdin'), NEW s \in Requests, NEW k,
                       stdin'[i].last, stdin'[i].of = s, stdin'[i].id = k, s # "initialized"
                PROVE  /\ Unanswered(s, k)'
                       /\ \A q \in asked : q.of # s
                       /\ \A j \in 1 .. Len(stdin') : stdin'[j].last /\ stdin'[j].of = s => j = i
    BY <1>1, <2>2 DEF PartsFit
  <2>3. \A j \in 1 .. Len(stdin) : ~(stdin[j].last /\ stdin[j].of = r /\ r # "initialized")
    BY <1>4, <1>10 DEF PartsFit
  <2>4. CASE i \in 1 .. Len(stdin)
    <3>1. stdin[i].last /\ stdin[i].of = s /\ stdin[i].id = k
      BY <1>4, <2>4
    <3>2. Unanswered(s, k) /\ s # r
      BY <1>10, <2>4, <3>1 DEF PartsFit
    <3>3. \A j \in 1 .. Len(stdin) : stdin[j].last /\ stdin[j].of = s => j = i
      BY <2>4, <3>1 DEF PartsFit
    <3>4. \A q \in asked : q.of # s
      BY <2>4, <3>1 DEF PartsFit
    <3>. QED  BY <1>3, <1>4, <1>10, <3>2, <3>3, <3>4
  <2>5. CASE i = Len(stdin) + 1
    <3>1. s = r /\ k = id[r] /\ left[r] = 1
      BY <1>3, <1>4, <2>5
    <3>2. \A j \in 1 .. Len(stdin') : stdin'[j].last /\ stdin'[j].of = s => j = i
      BY <1>4, <2>3, <2>5, <3>1
    <3>. QED  BY <1>1, <1>11, <2>1, <3>1, <3>2
  <2>. QED  BY <1>4, <2>4, <2>5
<1>13. AskedFit'
  BY <1>1, <1>10 DEF AskedFit, TypeOK
<1>14. AnswersFit'
  BY <1>1 DEF AnswersFit, Fits
<1>. QED  BY <1>5, <1>7, <1>9, <1>12, <1>13, <1>14

(* A request that is over frees the mutex. *)
LEMMA OverFits ==
    ASSUME IInv, NEW r \in Requests, NEW st \in {"ok", "error"},
           stage[r] \in {"writing", "reading"},
           Over(r, st), st = "ok" => r \in executed \cup Startup,
           id' = id, left' = left, nextID' = nextID, stdin' = stdin, close' = close,
           alive' = alive, asked' = asked, saying' = saying, chatter' = chatter,
           executed' = executed,
           got' \in [Requests -> SUBSET Requests],
           stdout' \in Seq(Message), Len(stdout') <= Capacity,
           \A i \in 1 .. Len(stdout') : Fits(stdout'[i])
    PROVE  IInv'
<1>. USE DEF IInv
<1>1. mu' = {} /\ stage' = [stage EXCEPT ![r] = st]
  BY DEF Over
<1>2. TypeOK'
  <2>1. stage' \in [Requests -> {"new", "locking", "writing", "reading", "ok", "error"}]
    BY <1>1 DEF TypeOK
  <2>2. \A s \in Requests : stage'[s] \notin {"writing", "reading"}
    BY <1>1 DEF TypeOK
  <2>. QED  BY <1>1, <2>1, <2>2, SameTypes DEF TypeOK
<1>3. IdsDiffer' /\ PartsFit' /\ AskedFit'
  BY <1>1, StagesChange
<1>4. StagesFit'
  <2>1. \A s \in Requests : stage'[s] = "writing" => stage[s] = "writing"
    BY <1>1 DEF TypeOK
  <2>2. \A s \in executed : Has(s)' /\ stage'[s] # "writing"
    BY <1>1 DEF StagesFit, TypeOK, Has
  <2>3. \A c \in Calls : stage'[c] = "ok" => c \in executed
    BY <1>1, CallsAssumption DEF StagesFit, TypeOK, Requests
  <2>. QED  BY <2>1, <2>2, <2>3 DEF StagesFit
<1>5. AnswersFit'
  BY DEF AnswersFit, Fits
<1>. QED  BY <1>2, <1>3, <1>4, <1>5

LEMMA FailsIInv ==
    ASSUME IInv, NEW r \in Requests, WriteFails(r) \/ ReadFails(r)
    PROVE  IInv'
<1>1. /\ stage[r] \in {"writing", "reading"} /\ Over(r, "error")
      /\ id' = id /\ left' = left /\ nextID' = nextID /\ stdin' = stdin /\ stdout' = stdout
      /\ got' = got /\ close' = close /\ alive' = alive /\ asked' = asked
      /\ saying' = saying /\ chatter' = chatter /\ executed' = executed
  BY DEF WriteFails, ReadFails, server
<1>2. /\ got' \in [Requests -> SUBSET Requests]
      /\ stdout' \in Seq(Message) /\ Len(stdout') <= Capacity
      /\ \A i \in 1 .. Len(stdout') : Fits(stdout'[i])
  BY <1>1 DEF IInv, TypeOK, AnswersFit
<1>. QED  BY <1>1, <1>2, OverFits

(* The line that is read, and what it means. *)
LEMMA ReadTakes ==
    ASSUME IInv, NEW r \in Requests, Read(r)
    PROVE  \E m \in Message :
        /\ stage[r] = "reading"
        /\ Fits(m)
        /\ stdout' \in Seq(Message) /\ Len(stdout') <= Capacity
        /\ \A i \in 1 .. Len(stdout') : Fits(stdout'[i])
        /\ id' = id /\ left' = left /\ nextID' = nextID /\ stdin' = stdin /\ close' = close
        /\ alive' = alive /\ asked' = asked /\ saying' = saying /\ chatter' = chatter
        /\ executed' = executed
        /\ \/ /\ m.kind # "notification" /\ m.id = id[r]
              /\ Over(r, Outcome(r, m))
              /\ got' = IF Outcome(r, m) = "ok" THEN [got EXCEPT ![r] = m.of] ELSE got
           \/ stage' = stage /\ mu' = mu /\ got' = got
<1>. DEFINE m == Head(stdout)
<1>1. stage[r] = "reading" /\ stdout # <<>> /\ stdout' = Tail(stdout)
  BY DEF Read
<1>2. /\ m \in Message /\ m = stdout[1] /\ 1 \in 1 .. Len(stdout) /\ Len(stdout) \in Nat
      /\ Tail(stdout) \in Seq(Message) /\ Len(Tail(stdout)) = Len(stdout) - 1
      /\ \A i \in 1 .. Len(Tail(stdout)) :
            i + 1 \in 1 .. Len(stdout) /\ Tail(stdout)[i] = stdout[i + 1]
  BY <1>1, TakeHead DEF IInv, TypeOK
<1>3. Fits(m)
  BY <1>2 DEF IInv, AnswersFit
<1>4. \A i \in 1 .. Len(stdout') : Fits(stdout'[i])
  BY <1>1, <1>2 DEF IInv, AnswersFit
<1>5. Len(stdout') <= Capacity
  BY <1>1, <1>2, BoundsAssumption DEF IInv, TypeOK
<1>6. /\ id' = id /\ left' = left /\ nextID' = nextID /\ stdin' = stdin /\ close' = close
      /\ alive' = alive /\ asked' = asked /\ saying' = saying /\ chatter' = chatter
      /\ executed' = executed
  BY DEF Read, server
<1>7. \/ /\ m.kind # "notification" /\ m.id = id[r]
         /\ Over(r, Outcome(r, m))
         /\ got' = IF Outcome(r, m) = "ok" THEN [got EXCEPT ![r] = m.of] ELSE got
      \/ stage' = stage /\ mu' = mu /\ got' = got
  BY DEF Read
<1>. QED  BY <1>1, <1>2, <1>3, <1>4, <1>5, <1>6, <1>7

(* A request other than initialize that ends well has read its own answer. *)
LEMMA OwnAnswer ==
    ASSUME IInv, NEW r \in Requests, stage[r] = "reading", NEW m \in Message,
           Fits(m), m.kind # "notification", m.id = id[r], Outcome(r, m) = "ok",
           r \notin {"initialize", "initialized"}
    PROVE  r \in executed /\ m.of = {r}
<1>1. m.kind = "answer"
  BY MessageFields DEF Outcome
<1>2. PICK s \in executed : m.of = {s} /\ m.id = id[s]
  BY <1>1 DEF Fits
<1>3. Has(r) /\ Has(s) /\ s \in Requests
  BY <1>2 DEF Has, IInv, StagesFit, TypeOK
<1>. QED  BY <1>2, <1>3 DEF IInv, IdsDiffer

LEMMA ReadIInv ==
    ASSUME IInv, NEW r \in Requests, Read(r)
    PROVE  IInv'
<1>1. PICK m \in Message :
        /\ stage[r] = "reading"
        /\ Fits(m)
        /\ stdout' \in Seq(Message) /\ Len(stdout') <= Capacity
        /\ \A i \in 1 .. Len(stdout') : Fits(stdout'[i])
        /\ id' = id /\ left' = left /\ nextID' = nextID /\ stdin' = stdin /\ close' = close
        /\ alive' = alive /\ asked' = asked /\ saying' = saying /\ chatter' = chatter
        /\ executed' = executed
        /\ \/ /\ m.kind # "notification" /\ m.id = id[r]
              /\ Over(r, Outcome(r, m))
              /\ got' = IF Outcome(r, m) = "ok" THEN [got EXCEPT ![r] = m.of] ELSE got
           \/ stage' = stage /\ mu' = mu /\ got' = got
  BY ReadTakes
<1>2. CASE m.kind # "notification" /\ m.id = id[r] /\ Over(r, Outcome(r, m))
           /\ got' = IF Outcome(r, m) = "ok" THEN [got EXCEPT ![r] = m.of] ELSE got
  <2>1. Outcome(r, m) \in {"ok", "error"}
    BY DEF Outcome
  <2>2. m.of \in SUBSET Requests
    BY <1>2, MessageFields
  <2>3. got' \in [Requests -> SUBSET Requests]
    BY <1>2, <2>2 DEF IInv, TypeOK
  <2>4. Outcome(r, m) = "ok" => r \in executed \cup Startup
    BY <1>1, <1>2, OwnAnswer DEF Startup
  <2>. QED  BY <1>1, <1>2, <2>1, <2>3, <2>4, OverFits
<1>3. CASE stage' = stage /\ mu' = mu /\ got' = got
  <2>1. TypeOK'
    BY <1>1, <1>3, SameTypes DEF IInv, TypeOK
  <2>2. IdsDiffer' /\ StagesFit' /\ PartsFit' /\ AskedFit'
    BY <1>1, <1>3 DEF IInv, IdsDiffer, StagesFit, PartsFit, AskedFit, Has, Unanswered
  <2>3. AnswersFit'
    BY <1>1 DEF IInv, AnswersFit, Fits
  <2>. QED  BY <2>1, <2>2, <2>3 DEF IInv
<1>. QED  BY <1>1, <1>2, <1>3

LEMMA ServerReadsIInv ==
    ASSUME IInv, ServerReads
    PROVE  IInv'
<1>1. /\ stdin # <<>> /\ stdin' = Tail(stdin)
      /\ stage' = stage /\ id' = id /\ left' = left /\ mu' = mu /\ nextID' = nextID
      /\ got' = got /\ close' = close /\ stdout' = stdout /\ alive' = alive
      /\ saying' = saying /\ chatter' = chatter /\ executed' = executed
  BY DEF ServerReads, proxy
<1>2. /\ Head(stdin) \in [of : Requests, id : Ids, last : BOOLEAN]
      /\ Head(stdin) = stdin[1] /\ 1 \in 1 .. Len(stdin) /\ Len(stdin) \in Nat
      /\ stdin' \in Seq([of : Requests, id : Ids, last : BOOLEAN])
      /\ Len(stdin') = Len(stdin) - 1
      /\ \A i \in 1 .. Len(stdin') : i + 1 \in 1 .. Len(stdin) /\ stdin'[i] = stdin[i + 1]
  <2>1. stdin \in Seq([of : Requests, id : Ids, last : BOOLEAN])
    BY DEF IInv, TypeOK
  <2>. QED  BY <1>1, <2>1, TakeHead
<1>3. \/ asked' = asked
      \/ \E q \in [of : Requests, id : Ids] :
            /\ stdin[1].last /\ stdin[1].of # "initialized"
            /\ q.of = stdin[1].of /\ q.id = stdin[1].id
            /\ asked' = asked \cup {q}
  <2>1. [of |-> Head(stdin).of, id |-> Head(stdin).id] \in [of : Requests, id : Ids]
    BY <1>2
  <2>. QED  BY <1>2, <2>1 DEF ServerReads
<1>4. TypeOK'
  <2>1. asked' \subseteq [of : Requests, id : Ids]
    BY <1>3 DEF IInv, TypeOK
  <2>2. Len(stdin') <= Capacity
    BY <1>2, BoundsAssumption DEF IInv, TypeOK
  <2>. QED  BY <1>1, <1>2, <2>1, <2>2, SameTypes DEF IInv, TypeOK
<1>5. IdsDiffer' /\ StagesFit' /\ AnswersFit'
  BY <1>1 DEF IInv, IdsDiffer, StagesFit, AnswersFit, Has, Fits
<1>6. \A s, i : Unanswered(s, i)' <=> Unanswered(s, i)
  BY <1>1 DEF Unanswered, Has
<1>7. PartsFit'
  <2>. SUFFICES ASSUME NEW i \in 1 .. Len(stdin'), NEW s, NEW k,
                       stdin'[i].last, stdin'[i].of = s, stdin'[i].id = k, s # "initialized"
                PROVE  /\ Unanswered(s, k)'
                       /\ \A q \in asked' : q.of # s
                       /\ \A j \in 1 .. Len(stdin') : stdin'[j].last /\ stdin'[j].of = s => j = i
    BY DEF PartsFit
  <2>1. i + 1 \in 1 .. Len(stdin) /\ stdin[i + 1] = stdin'[i]
    BY <1>2
  <2>2. /\ Unanswered(s, k)
        /\ \A q \in asked : q.of # s
        /\ \A j \in 1 .. Len(stdin) : stdin[j].last /\ stdin[j].of = s => j = i + 1
    BY <2>1 DEF IInv, PartsFit
  <2>3. ASSUME NEW j \in 1 .. Len(stdin'), stdin'[j].last, stdin'[j].of = s
        PROVE  j = i
    <3>1. j + 1 \in 1 .. Len(stdin) /\ stdin[j + 1] = stdin'[j]
      BY <1>2, <2>3
    <3>2. j + 1 = i + 1
      BY <2>2, <2>3, <3>1
    <3>. QED  BY <3>2
  <2>4. \A q \in asked' : q.of # s
    BY <1>2, <1>3, <2>2
  <2>. QED  BY <1>6, <2>2, <2>3, <2>4
<1>8. AskedFit'
  <2>1. stdin[1].last /\ stdin[1].of # "initialized" => Unanswered(stdin[1].of, stdin[1].id)
    BY <1>2 DEF IInv, PartsFit
  <2>. QED  BY <1>3, <1>6, <2>1 DEF IInv, AskedFit
<1>. QED  BY <1>4, <1>5, <1>7, <1>8 DEF IInv

(* An answer is to a request that was asked, and had no answer yet. *)
LEMMA AnswerTakes ==
    ASSUME IInv, NEW r \in Requests, Answer(r)
    PROVE  \E q \in asked, m \in Message :
        /\ q.of = r /\ Unanswered(r, q.id)
        /\ asked' = asked \ {q}
        /\ m.kind = "answer" /\ m.id = q.id /\ m.of = {r}
        /\ saying' = <<m>>
<1>1. PICK q \in asked, good \in BOOLEAN :
         /\ q.of = r
         /\ asked' = asked \ {q}
         /\ saying' = <<[kind |-> "answer", id |-> q.id, of |-> {r}, good |-> good]>>
  BY DEF Answer
<1>2. q.id \in Ids
  BY DEF IInv, TypeOK
<1>3. [kind |-> "answer", id |-> q.id, of |-> {r}, good |-> good] \in Message
  BY <1>2 DEF Message
<1>4. Unanswered(r, q.id)
  BY <1>1 DEF IInv, AskedFit
<1>. QED  BY <1>1, <1>3, <1>4

LEMMA AnswerIInv ==
    ASSUME IInv, NEW r \in Requests, Answer(r)
    PROVE  IInv'
<1>1. /\ stage' = stage /\ id' = id /\ left' = left /\ mu' = mu /\ nextID' = nextID
      /\ got' = got /\ close' = close /\ stdin' = stdin /\ stdout' = stdout
      /\ alive' = alive /\ chatter' = chatter /\ executed' = executed \cup {r}
  BY DEF Answer, proxy
<1>2. PICK q \in asked, m \in Message :
        /\ q.of = r /\ Unanswered(r, q.id)
        /\ asked' = asked \ {q}
        /\ m.kind = "answer" /\ m.id = q.id /\ m.of = {r}
        /\ saying' = <<m>>
  BY AnswerTakes
<1>3. TypeOK'
  <2>1. saying' \in Seq(Message) /\ Len(saying') <= 1
    BY <1>2
  <2>2. asked' \subseteq [of : Requests, id : Ids]
    BY <1>2 DEF IInv, TypeOK
  <2>. QED  BY <1>1, <2>1, <2>2, SameTypes DEF IInv, TypeOK
<1>4. IdsDiffer'
  BY <1>1 DEF IInv, IdsDiffer, Has
<1>5. StagesFit'
  BY <1>1, <1>2 DEF IInv, StagesFit, Has, Unanswered
<1>6. \A s, i : s # r /\ Unanswered(s, i) => Unanswered(s, i)'
  BY <1>1 DEF Unanswered, Has
<1>7. PartsFit'
  BY <1>1, <1>2, <1>6 DEF IInv, PartsFit
<1>8. AskedFit'
  <2>. SUFFICES ASSUME NEW p \in asked, p # q PROVE Unanswered(p.of, p.id)'
    BY <1>2 DEF AskedFit
  <2>1. Unanswered(p.of, p.id)
    BY DEF IInv, AskedFit
  <2>2. p \in [of : Requests, id : Ids] /\ q \in [of : Requests, id : Ids]
    BY DEF IInv, TypeOK
  <2>3. p.of # r
    BY <1>2, <2>1, <2>2 DEF Unanswered
  <2>. QED  BY <1>6, <2>1, <2>3
<1>9. AnswersFit'
  <2>1. \A msg : Fits(msg) => Fits(msg)'
    BY <1>1 DEF Fits
  <2>2. Fits(m)'
    BY <1>1, <1>2 DEF Fits, Unanswered
  <2>3. \A i \in 1 .. Len(stdout') : Fits(stdout[i])'
    BY <1>1, <2>1 DEF IInv, AnswersFit
  <2>4. \A i \in 1 .. Len(saying') : saying'[i] = m
    BY <1>2
  <2>. QED  BY <1>1, <2>1, <2>2, <2>4 DEF IInv, AnswersFit
<1>. QED  BY <1>3, <1>4, <1>5, <1>7, <1>8, <1>9 DEF IInv

LEMMA ChatIInv ==
    ASSUME IInv, Chat
    PROVE  IInv'
<1>1. /\ stage' = stage /\ id' = id /\ left' = left /\ mu' = mu /\ nextID' = nextID
      /\ got' = got /\ close' = close /\ stdin' = stdin /\ stdout' = stdout
      /\ alive' = alive /\ asked' = asked /\ executed' = executed
  BY DEF Chat, proxy
<1>2. PICK m \in Message : m.kind # "answer" /\ saying' = <<m>>
  <2>1. [kind |-> "notification"] \in Message
        /\ \A i \in ServerIds : [kind |-> "request", id |-> i, of |-> {}] \in Message
    BY DEF Message
  <2>. QED  BY <2>1 DEF Chat
<1>3. TypeOK'
  <2>1. saying' \in Seq(Message) /\ Len(saying') <= 1
    BY <1>2
  <2>2. chatter' \in 0 .. MaxChatter
    BY BoundsAssumption DEF Chat, IInv, TypeOK
  <2>. QED  BY <1>1, <2>1, <2>2, SameTypes DEF IInv, TypeOK
<1>4. IdsDiffer' /\ StagesFit' /\ PartsFit' /\ AskedFit'
  BY <1>1 DEF IInv, IdsDiffer, StagesFit, PartsFit, AskedFit, Has, Unanswered
<1>5. AnswersFit'
  <2>1. \A i \in 1 .. Len(saying') : saying'[i] = m
    BY <1>2
  <2>. QED  BY <1>1, <1>2, <2>1 DEF IInv, AnswersFit, Fits
<1>. QED  BY <1>3, <1>4, <1>5 DEF IInv

LEMMA ServerWritesIInv ==
    ASSUME IInv, ServerWrites
    PROVE  IInv'
<1>1. /\ stage' = stage /\ id' = id /\ left' = left /\ mu' = mu /\ nextID' = nextID
      /\ got' = got /\ close' = close /\ stdin' = stdin
      /\ alive' = alive /\ asked' = asked /\ chatter' = chatter /\ executed' = executed
      /\ saying # <<>> /\ saying' = <<>>
      /\ stdout' = Append(stdout, Head(saying)) /\ Len(stdout) < Capacity
  BY DEF ServerWrites, proxy
<1>2. Head(saying) \in Message /\ Fits(Head(saying))
  <2>1. saying \in Seq(Message)
    BY DEF IInv, TypeOK
  <2>2. Head(saying) \in Message /\ Head(saying) = saying[1] /\ 1 \in 1 .. Len(saying)
    BY <1>1, <2>1, TakeHead
  <2>. QED  BY <2>2 DEF IInv, AnswersFit
<1>3. /\ stdout' \in Seq(Message) /\ Len(stdout') = Len(stdout) + 1 /\ Len(stdout) \in Nat
      /\ \A i \in 1 .. Len(stdout') :
            \/ i \in 1 .. Len(stdout) /\ stdout'[i] = stdout[i]
            \/ stdout'[i] = Head(saying)
  <2>1. stdout \in Seq(Message)
    BY DEF IInv, TypeOK
  <2>2. /\ stdout' \in Seq(Message) /\ Len(stdout') = Len(stdout) + 1 /\ Len(stdout) \in Nat
        /\ stdout'[Len(stdout) + 1] = Head(saying)
        /\ \A i \in 1 .. Len(stdout) : stdout'[i] = stdout[i]
    BY <1>1, <1>2, <2>1, AddLast
  <2>. QED  BY <2>2
<1>4. TypeOK'
  <2>1. Len(stdout') <= Capacity
    BY <1>1, <1>3, BoundsAssumption
  <2>2. saying' \in Seq(Message) /\ Len(saying') <= 1
    BY <1>1
  <2>. QED  BY <1>1, <1>3, <2>1, <2>2, SameTypes DEF IInv, TypeOK
<1>5. IdsDiffer' /\ StagesFit' /\ PartsFit' /\ AskedFit'
  BY <1>1 DEF IInv, IdsDiffer, StagesFit, PartsFit, AskedFit, Has, Unanswered
<1>6. AnswersFit'
  <2>1. \A i \in 1 .. Len(stdout') : Fits(stdout'[i])
    BY <1>2, <1>3 DEF IInv, AnswersFit
  <2>2. \A m : Fits(m) <=> Fits(m)'
    BY <1>1 DEF Fits
  <2>3. Len(saying') = 0
    BY <1>1
  <2>. QED  BY <2>1, <2>2, <2>3 DEF AnswersFit, Fits
<1>. QED  BY <1>4, <1>5, <1>6 DEF IInv

LEMMA ServerGoneIInv ==
    ASSUME IInv, ServerGone
    PROVE  IInv'
<1>1. /\ stage' = stage /\ id' = id /\ left' = left /\ mu' = mu /\ nextID' = nextID
      /\ got' = got /\ close' = close /\ stdout' = stdout
      /\ chatter' = chatter /\ executed' = executed
      /\ alive' = FALSE /\ stdin' = <<>> /\ asked' = {} /\ saying' = <<>>
  BY DEF ServerGone, proxy
<1>2. TypeOK'
  <2>1. stdin' \in Seq([of : Requests, id : Ids, last : BOOLEAN]) /\ saying' \in Seq(Message)
    BY <1>1
  <2>2. Len(stdin') <= Capacity /\ Len(saying') <= 1
    BY <1>1, BoundsAssumption
  <2>. QED  BY <1>1, <2>1, <2>2, SameTypes DEF IInv, TypeOK
<1>3. IdsDiffer' /\ StagesFit'
  BY <1>1 DEF IInv, IdsDiffer, StagesFit, Has
<1>4. PartsFit' /\ AskedFit' /\ AnswersFit'
  BY <1>1 DEF IInv, PartsFit, AskedFit, AnswersFit, Fits
<1>. QED  BY <1>2, <1>3, <1>4 DEF IInv

LEMMA StutterIInv ==
    ASSUME IInv, UNCHANGED vars
    PROVE  IInv'
<1>1. TypeOK'
  BY SameTypes DEF IInv, TypeOK, vars
<1>2. IdsDiffer' /\ StagesFit' /\ PartsFit' /\ AskedFit' /\ AnswersFit'
  BY DEF IInv, vars, IdsDiffer, StagesFit, PartsFit, AskedFit, AnswersFit, Has, Unanswered, Fits
<1>. QED  BY <1>1, <1>2 DEF IInv

LEMMA NextIInv == IInv /\ [Next]_vars => IInv'
<1>. SUFFICES ASSUME IInv, [Next]_vars PROVE IInv'
  OBVIOUS
<1>1. ASSUME NEW r \in Requests, Begin(r) \/ Goroutine(r) \/ Answer(r) PROVE IInv'
  BY <1>1, BeginIInv, LockIInv, WriteIInv, FailsIInv, ReadIInv, AnswerIInv DEF Goroutine
<1>2. CASE GiveUp \/ CloseReturns
  BY <1>2, CloseIInv
<1>3. CASE ServerReads \/ Chat \/ ServerWrites \/ ServerGone
  BY <1>3, ServerReadsIInv, ChatIInv, ServerWritesIInv, ServerGoneIInv
<1>4. CASE UNCHANGED vars
  BY <1>4, StutterIInv
<1>. QED  BY <1>1, <1>2, <1>3, <1>4 DEF Next

LEMMA Invariant == Spec => []IInv
<1>. QED  BY InitIInv, NextIInv, PTL DEF Spec

(* Ids stay in what was given out, every queue within its pipe, and the     *)
(* mutex is held by exactly the request that is being written or answered   *)
(* (call, notify).                                                          *)
THEOREM TypeCorrect == Spec => []TypeOK
<1>1. IInv => TypeOK
  BY DEF IInv
<1>. QED  BY <1>1, Invariant, PTL

-----------------------------------------------------------------------------
(* The pipes and the mutex implement ToolCalls. *)

State    == [c \in Calls |-> Seen(c)]
Result   == [c \in Calls |-> got[c]]
Executed == executed \cap Calls

LEMMA InitPromise == Init => Promise!Init
BY DEF Init, Promise!Init, Seen, Requests

(* How a change of one request's stage is seen. *)
LEMMA StageSeen ==
    ASSUME TypeOK, NEW r \in Requests, NEW st, stage' = [stage EXCEPT ![r] = st]
    PROVE  /\ r \in Calls => State' = [State EXCEPT ![r] = Seen(r)']
           /\ r \notin Calls => State' = State
           /\ Seen(r)' = IF st \in {"locking", "writing", "reading"} THEN "waiting" ELSE st
<1>1. \A c \in Calls : c # r => Seen(c)' = Seen(c)
  BY DEF Seen, TypeOK, Requests
<1>2. Seen(r)' = IF st \in {"locking", "writing", "reading"} THEN "waiting" ELSE st
  BY DEF Seen, TypeOK
<1>. QED  BY <1>1, <1>2 DEF State

LEMMA BeginStep ==
    ASSUME IInv, NEW r \in Requests, Begin(r)
    PROVE  Promise!Next \/ UNCHANGED Promise!vars
<1>1. /\ stage' = [stage EXCEPT ![r] = "locking"] /\ stage[r] = "new"
      /\ got' = got /\ executed' = executed /\ alive' = alive
  BY DEF Begin, server
<1>2. Result' = Result /\ Executed' = Executed
  BY <1>1 DEF Result, Executed
<1>3. CASE r \in Calls
  <2>1. State[r] = "new" /\ State' = [State EXCEPT ![r] = "waiting"]
    <3>1. State[r] = "new"
      BY <1>1, <1>3 DEF State, Seen
    <3>2. State' = [State EXCEPT ![r] = Seen(r)'] /\ Seen(r)' = "waiting"
      BY <1>1, <1>3, StageSeen DEF IInv
    <3>. QED  BY <3>1, <3>2
  <2>2. Promise!Submit(r)
    BY <1>1, <1>2, <2>1 DEF Promise!Submit, State, Result, Executed
  <2>. QED  BY <1>3, <2>2 DEF Promise!Next
<1>4. CASE r \notin Calls
  <2>1. State' = State
    BY <1>1, <1>4, StageSeen DEF IInv
  <2>. QED  BY <1>1, <1>2, <2>1 DEF Promise!vars, State, Result, Executed
<1>. QED  BY <1>3, <1>4

(* Steps by which the stages of requests stay, as the sessions see them. *)
LEMMA UnseenStep ==
    ASSUME IInv, NEW r \in Requests, Lock(r) \/ Write(r)
    PROVE  UNCHANGED Promise!vars
<1>1. got' = got /\ executed' = executed /\ alive' = alive
  BY DEF Lock, Write, server
<1>2. \A c \in Calls : Seen(c)' = Seen(c)
  <2>1. \/ stage' = stage
        \/ /\ stage[r] \in {"locking", "writing"}
           /\ \E st \in {"writing", "reading"} : stage' = [stage EXCEPT ![r] = st]
        \/ r = "initialized" /\ stage' = [stage EXCEPT ![r] = "ok"]
    BY DEF Lock, Write, Over
  <2>. QED  BY <2>1, CallsAssumption DEF Seen, IInv, TypeOK, Requests, Startup
<1>. QED  BY <1>1, <1>2 DEF Promise!vars

(* A request that is over has failed, or returned its own answer. *)
LEMMA OverStep ==
    ASSUME IInv, NEW r \in Requests, NEW st \in {"ok", "error"},
           stage[r] \in {"writing", "reading"}, stage' = [stage EXCEPT ![r] = st],
           executed' = executed, alive' = alive,
           st = "error" => got' = got,
           st = "ok" /\ r \in Calls => r \in executed /\ got' = [got EXCEPT ![r] = {r}],
           r \notin Calls => \A c \in Calls : got'[c] = got[c]
    PROVE  Promise!Next \/ UNCHANGED Promise!vars
<1>1. Executed' = Executed
  BY DEF Executed
<1>2. CASE r \notin Calls
  <2>1. State' = State /\ Result' = Result
    BY <1>2, StageSeen DEF IInv, Result
  <2>. QED  BY <1>1, <2>1 DEF Promise!vars, State, Result, Executed
<1>3. CASE r \in Calls
  <2>1. State[r] = "waiting" /\ State' = [State EXCEPT ![r] = st]
    <3>1. Seen(r)' = st
      BY <1>3, StageSeen DEF IInv
    <3>2. State' = [State EXCEPT ![r] = st]
      BY <1>3, <3>1, StageSeen DEF IInv
    <3>. QED  BY <1>3, <3>2 DEF State, Seen
  <2>2. CASE st = "error"
    <3>1. Result' = Result
      BY <2>2 DEF Result
    <3>2. Promise!Fail(r)
      BY <1>1, <2>1, <2>2, <3>1 DEF Promise!Fail, State, Result, Executed
    <3>. QED  BY <1>3, <3>2 DEF Promise!Next
  <2>3. CASE st = "ok"
    <3>1. r \in Executed /\ Result' = [Result EXCEPT ![r] = {r}]
      BY <1>3, <2>3 DEF Result, Executed, IInv, TypeOK, Requests
    <3>2. Promise!Return(r)
      BY <1>1, <2>1, <2>3, <3>1 DEF Promise!Return, State, Result, Executed
    <3>. QED  BY <1>3, <3>2 DEF Promise!Next
  <2>. QED  BY <2>2, <2>3
<1>. QED  BY <1>2, <1>3

LEMMA FailsStep ==
    ASSUME IInv, NEW r \in Requests, WriteFails(r) \/ ReadFails(r)
    PROVE  Promise!Next \/ UNCHANGED Promise!vars
<1>1. /\ stage[r] \in {"writing", "reading"} /\ stage' = [stage EXCEPT ![r] = "error"]
      /\ got' = got /\ executed' = executed /\ alive' = alive
  BY DEF WriteFails, ReadFails, Over, server
<1>. QED  BY <1>1, OverStep

LEMMA ReadStep ==
    ASSUME IInv, NEW r \in Requests, Read(r)
    PROVE  Promise!Next \/ UNCHANGED Promise!vars
<1>1. PICK m \in Message :
        /\ stage[r] = "reading" /\ Fits(m)
        /\ executed' = executed /\ alive' = alive
        /\ \/ /\ m.kind # "notification" /\ m.id = id[r]
              /\ Over(r, Outcome(r, m))
              /\ got' = IF Outcome(r, m) = "ok" THEN [got EXCEPT ![r] = m.of] ELSE got
           \/ stage' = stage /\ mu' = mu /\ got' = got
  BY ReadTakes
<1>2. CASE stage' = stage /\ got' = got
  BY <1>1, <1>2 DEF Promise!vars, Seen
<1>3. CASE /\ m.kind # "notification" /\ m.id = id[r] /\ Over(r, Outcome(r, m))
           /\ got' = IF Outcome(r, m) = "ok" THEN [got EXCEPT ![r] = m.of] ELSE got
  <2>1. Outcome(r, m) \in {"ok", "error"}
    BY DEF Outcome
  <2>2. stage' = [stage EXCEPT ![r] = Outcome(r, m)]
    BY <1>3 DEF Over
  <2>3. Outcome(r, m) = "error" => got' = got
    BY <1>3
  <2>4. Outcome(r, m) = "ok" /\ r \in Calls => r \in executed /\ got' = [got EXCEPT ![r] = {r}]
    <3>. SUFFICES ASSUME Outcome(r, m) = "ok", r \in Calls
                  PROVE  r \in executed /\ got' = [got EXCEPT ![r] = {r}]
      OBVIOUS
    <3>1. r \notin {"initialize", "initialized"}
      BY CallsAssumption DEF Startup
    <3>2. r \in executed /\ m.of = {r}
      BY <1>1, <1>3, <3>1, OwnAnswer
    <3>. QED  BY <1>3, <3>2
  <2>5. r \notin Calls => \A c \in Calls : got'[c] = got[c]
    BY <1>3 DEF IInv, TypeOK, Requests
  <2>. QED  BY <1>1, <2>1, <2>2, <2>3, <2>4, <2>5, OverStep
<1>. QED  BY <1>1, <1>2, <1>3

(* The request that is executed is the only one that waits for an answer. *)
LEMMA AnswerStep ==
    ASSUME IInv, NEW r \in Requests, Answer(r)
    PROVE  Promise!Next \/ UNCHANGED Promise!vars
<1>1. /\ stage' = stage /\ got' = got /\ alive /\ alive' = alive
      /\ executed' = executed \cup {r}
  BY DEF Answer, proxy
<1>2. State' = State /\ Result' = Result
  BY <1>1 DEF State, Result, Seen
<1>3. CASE r \notin Calls
  <2>1. Executed' = Executed
    BY <1>1, <1>3 DEF Executed
  <2>. QED  BY <1>1, <1>2, <2>1 DEF Promise!vars, State, Result, Executed
<1>4. CASE r \in Calls
  <2>1. Executed' = Executed \cup {r}
    BY <1>1, <1>4 DEF Executed
  <2>2. Has(r) /\ stage[r] # "writing" /\ r \notin executed
    BY AnswerTakes DEF Unanswered
  <2>3. stage[r] \in {"reading", "error"}
    BY <1>4, <2>2 DEF Has, IInv, TypeOK, StagesFit
  <2>4. stage[r] = "reading" => \A d \in executed : stage[d] \notin {"locking", "writing", "reading"}
    <3>. SUFFICES ASSUME stage[r] = "reading", NEW d \in executed,
                         stage[d] \in {"locking", "writing", "reading"}
                  PROVE  FALSE
      OBVIOUS
    <3>1. d \in Requests /\ stage[d] = "reading"
      BY DEF IInv, TypeOK, StagesFit, Has
    <3>2. mu = {d} /\ mu = {r}
      BY <3>1 DEF IInv, TypeOK
    <3>. QED  BY <2>2, <3>2
  <2>5. \/ State[r] = "error"
        \/ State[r] = "waiting" /\ \A d \in Executed : State[d] # "waiting"
    BY <1>4, <2>3, <2>4 DEF State, Seen, Executed, IInv, TypeOK
  <2>6. r \notin Executed
    BY <2>2 DEF Executed
  <2>7. Promise!Execute(r)
    BY <1>1, <1>2, <2>1, <2>5, <2>6 DEF Promise!Execute, State, Result, Executed
  <2>. QED  BY <1>4, <2>7 DEF Promise!Next
<1>. QED  BY <1>3, <1>4

LEMMA OtherSteps ==
    ASSUME GiveUp \/ CloseReturns \/ ServerReads \/ Chat \/ ServerWrites \/ UNCHANGED vars
    PROVE  UNCHANGED Promise!vars
BY DEF GiveUp, CloseReturns, ServerReads, Chat, ServerWrites, vars, proxy, server,
       Promise!vars, Seen

LEMMA GoneStep ==
    ASSUME ServerGone
    PROVE  Promise!Next
<1>1. Promise!Crash
  BY DEF ServerGone, proxy, Promise!Crash, Seen
<1>. QED  BY <1>1 DEF Promise!Next

(* Every step of the proxy and its server is one of ToolCalls, or not seen. *)
LEMMA StepPromise == IInv /\ [Next]_vars => [Promise!Next]_Promise!vars
<1>. SUFFICES ASSUME IInv, [Next]_vars PROVE Promise!Next \/ UNCHANGED Promise!vars
  OBVIOUS
<1>1. ASSUME NEW r \in Requests, Begin(r) \/ Goroutine(r) \/ Answer(r)
      PROVE  Promise!Next \/ UNCHANGED Promise!vars
  BY <1>1, BeginStep, UnseenStep, FailsStep, ReadStep, AnswerStep DEF Goroutine
<1>2. CASE GiveUp \/ CloseReturns \/ ServerReads \/ Chat \/ ServerWrites \/ UNCHANGED vars
  BY <1>2, OtherSteps
<1>3. CASE ServerGone
  BY <1>3, GoneStep
<1>. QED  BY <1>1, <1>2, <1>3 DEF Next

(* A session gets an error or the result of its own call, executed once,    *)
(* however long the requests, and whatever the server says in between.      *)
THEOREM Implements == Spec => KeepsPromise
<1>. QED  BY InitPromise, StepPromise, Invariant, PTL DEF Spec, KeepsPromise, Promise!Spec

=============================================================================
