-------------------------- MODULE SshwebMcp_proofs --------------------------
(***************************************************************************)
(* Proofs about SshwebMcp, for any sites, tools and arguments and any      *)
(* number of messages, connects that fail and connections that break.      *)
(***************************************************************************)
EXTENDS SshwebMcp, SequenceTheorems, FiniteSetTheorems, TLAPS

Connection == [site : Sites, tools : SUBSET Tools]

(* What a client sends. *)
Message ==
    [kind : Others, id : {0}]
    \cup [kind : {"plain", "list", "disconnect"}, id : Nat]
    \cup [kind : {"connect"}, id : Nat, site : Sites]
    \cup [kind : {"tool"}, id : Nat, prefix : {NameOf[s] : s \in Sites}, tool : Tools,
          args : Arguments, site : Sites, notices : Nat]

TypeOK ==
    /\ inbox \in Seq(Message)
    /\ sent \in Nat /\ asked \in Nat /\ closed \in BOOLEAN
    /\ step \in {"idle", "dial", "handshake", "capabilities", "invoke", "ended"}
    /\ current \in Seq(Message) /\ Len(current) <= 1
    /\ conn \subseteq Connection /\ \A c, d \in conn : c = d
    /\ link \in BOOLEAN
    /\ replies \in Seq(Nat) /\ notices \in Nat
    /\ listed \subseteq [conn : SUBSET Connection, notices : Nat]
    /\ unnoticed \in BOOLEAN

\* The loop is in the middle of one message, or of none.
Handling ==
    /\ current = <<>> <=> step \in {"idle", "ended"}
    /\ step \in {"dial", "handshake", "capabilities"} => current[1].kind = "connect"
    /\ step = "invoke" =>
          /\ current[1].kind = "tool"
          /\ \E o \in Orders(current[1].args) : words = Command(o)

\* The messages without a reply, and the replies, are a queue in the order of
\* the ids, of which none is missing.
Waiting == current \o inbox

Numbered(waiting, answered, count) ==
    /\ \A i \in DOMAIN waiting : waiting[i].id <= count
    /\ \A i, j \in DOMAIN waiting :
          i < j /\ waiting[i].id # 0 /\ waiting[j].id # 0 => waiting[i].id < waiting[j].id
    /\ \A r \in DOMAIN answered : answered[r] <= count
    /\ \A r \in DOMAIN answered, i \in DOMAIN waiting :
          answered[r] # 0 /\ waiting[i].id # 0 => answered[r] < waiting[i].id
    /\ \A i, j \in DOMAIN answered :
          i < j /\ answered[i] # 0 /\ answered[j] # 0 => answered[i] < answered[j]
    /\ \A n \in 1 .. count : \/ \E r \in DOMAIN answered : answered[r] = n
                             \/ \E i \in DOMAIN waiting : waiting[i].id = n

\* Whoever has the list of the last change has the list of the connection,
\* unless there is none any more.
Listed ==
    /\ unnoticed => conn = {}
    /\ \A l \in listed : /\ l.notices <= notices
                         /\ l.notices = notices => unnoticed \/ conn = l.conn

\* A call was made from a list; that of the last change is that of the site.
Meant(waiting, connection, count) ==
    \A i \in DOMAIN waiting :
        waiting[i].kind = "tool" =>
            /\ waiting[i].notices <= count
            /\ waiting[i].notices = count => \A c \in connection : c.site = waiting[i].site

IInv ==
    /\ TypeOK
    /\ Handling
    /\ Numbered(Waiting, replies, asked)
    /\ Listed
    /\ Meant(Waiting, conn, notices)

-----------------------------------------------------------------------------
(* Facts about messages and queues of them. *)

LEMMA MessageFields ==
    ASSUME NEW m \in Message
    PROVE  /\ m.kind \in Requests \cup Others /\ m.id \in Nat
           /\ m.kind \in Others => m.id = 0
           /\ m.kind = "connect" => m.site \in Sites
           /\ m.kind = "tool" => /\ m.site \in Sites /\ m.notices \in Nat
                                 /\ m.args \in Arguments
BY DEF Message, Requests, Others

LEMMA QueueFields ==
    ASSUME NEW q \in Seq(Message)
    PROVE  /\ DOMAIN q = 1 .. Len(q) /\ Len(q) \in Nat
           /\ \A i \in DOMAIN q : q[i] \in Message /\ q[i].id \in Nat
<1>1. DOMAIN q = 1 .. Len(q) /\ Len(q) \in Nat /\ \A i \in 1 .. Len(q) : q[i] \in Message
  OBVIOUS
<1>. QED  BY <1>1, MessageFields

(* A queue of which the head is taken. *)
LEMMA TakeHead ==
    ASSUME NEW S, NEW q \in Seq(S), q # <<>>
    PROVE  /\ Head(q) \in S /\ Head(q) = q[1] /\ 1 \in 1 .. Len(q) /\ Len(q) \in Nat
           /\ DOMAIN q = 1 .. Len(q)
           /\ Tail(q) \in Seq(S)
           /\ DOMAIN Tail(q) = 1 .. Len(q) - 1
           /\ \A i \in 1 .. Len(q) - 1 : i + 1 \in 1 .. Len(q) /\ Tail(q)[i] = q[i + 1]
           /\ \A i \in 1 .. Len(q) : i = 1 \/ (i - 1 \in 1 .. Len(q) - 1 /\ Tail(q)[i - 1] = q[i])
OBVIOUS

(* A queue to which an element is added. *)
LEMMA AddLast ==
    ASSUME NEW S, NEW q \in Seq(S), NEW e \in S
    PROVE  /\ Append(q, e) \in Seq(S)
           /\ Len(q) \in Nat /\ DOMAIN q = 1 .. Len(q)
           /\ DOMAIN Append(q, e) = 1 .. Len(q) + 1
           /\ \A i \in 1 .. Len(q) : Append(q, e)[i] = q[i]
           /\ Append(q, e)[Len(q) + 1] = e
OBVIOUS

(* The message in progress is the head of what waits. *)
LEMMA CurrentIsHead ==
    ASSUME NEW c \in Seq(Message), Len(c) <= 1, NEW q \in Seq(Message)
    PROVE  /\ c \o q \in Seq(Message)
           /\ c = <<>> => c \o q = q
           /\ c # <<>> => /\ c \o q # <<>> /\ Head(c \o q) = c[1] /\ Tail(c \o q) = q
                          /\ c[1] \in Message
<1>1. c \o q \in Seq(Message)
  OBVIOUS
<1>2. CASE c = <<>>
  BY <1>1, <1>2
<1>3. CASE c # <<>>
  <2>1. Len(c) = 1 /\ c[1] \in Message
    <3>1. Len(c) \in Nat /\ Len(c) # 0 /\ Len(c) <= 1
      BY <1>3, EmptySeq
    <3>2. \A k \in Nat : k # 0 /\ k <= 1 => k = 1
      OBVIOUS
    <3>3. Len(c) = 1
      BY <3>1, <3>2, Zenon
    <3>4. c[1] \in Message
      <4>1. 1 \in 1 .. Len(c)
        BY <3>3
      <4>. QED  BY <4>1, ElementOfSeq, Zenon
    <3>. QED  BY <3>3, <3>4
  <2>. DEFINE w == c \o q
  <2>2. /\ Len(w) = Len(q) + 1 /\ Len(q) \in Nat
        /\ w[1] = c[1]
        /\ \A i \in 1 .. Len(q) : w[i + 1] = q[i]
    <3>1. /\ Len(w) = Len(c) + Len(q) /\ Len(q) \in Nat
          /\ \A i \in 1 .. Len(c) + Len(q) : w[i] = IF i <= Len(c) THEN c[i] ELSE q[i - Len(c)]
      BY ConcatProperties
    <3>. HIDE DEF w
    <3>. QED  BY <2>1, <3>1
  <2>3. w \in Seq(Message)
    BY <1>1
  <2>. HIDE DEF w
  <2>4. w # <<>> /\ Head(w) = w[1] /\ Tail(w) \in Seq(Message) /\ Len(Tail(w)) = Len(q)
        /\ \A i \in 1 .. Len(q) : Tail(w)[i] = w[i + 1]
    BY <2>2, <2>3
  <2>5. Tail(w) = q
    BY <2>2, <2>4, SeqEqual
  <2>. QED  BY <1>1, <1>3, <2>1, <2>2, <2>4, <2>5 DEF w
<1>. QED  BY <1>2, <1>3

LEMMA HeadAndTail ==
    ASSUME NEW q \in Seq(Message), q # <<>>
    PROVE  <<Head(q)>> \o Tail(q) = q
<1>. DEFINE w == <<Head(q)>> \o Tail(q)
<1>1. w \in Seq(Message) /\ Len(w) = Len(q) /\ \A i \in 1 .. Len(w) : w[i] = q[i]
  OBVIOUS
<1>. HIDE DEF w
<1>2. w = q
  BY <1>1, SeqEqual
<1>. QED  BY <1>2 DEF w

LEMMA AppendToBoth ==
    ASSUME NEW c \in Seq(Message), NEW q \in Seq(Message), NEW m \in Message
    PROVE  c \o Append(q, m) = Append(c \o q, m)
<1>. DEFINE v == c \o Append(q, m)
            w == Append(c \o q, m)
<1>1. v \in Seq(Message) /\ w \in Seq(Message) /\ Len(v) = Len(w)
      /\ \A i \in 1 .. Len(v) : v[i] = w[i]
  OBVIOUS
<1>. HIDE DEF v, w
<1>2. v = w
  BY <1>1, SeqEqual
<1>. QED  BY <1>2 DEF v, w

-----------------------------------------------------------------------------
(* What happens to the queue of messages keeps the order of ids. *)

LEMMA PostNumbered ==
    ASSUME NEW w \in Seq(Message), NEW r \in Seq(Nat), NEW n \in Nat, Numbered(w, r, n),
           NEW m \in Message
    PROVE  /\ m.id = 0 => Numbered(Append(w, m), r, n)
           /\ m.id = n + 1 => Numbered(Append(w, m), r, n + 1)
<1>. DEFINE v == Append(w, m)
<1>1. /\ Len(w) \in Nat /\ DOMAIN w = 1 .. Len(w) /\ DOMAIN v = 1 .. Len(w) + 1
      /\ \A i \in 1 .. Len(w) : v[i] = w[i] /\ w[i].id \in Nat
      /\ v[Len(w) + 1] = m
      /\ DOMAIN r = 1 .. Len(r) /\ \A i \in DOMAIN r : r[i] \in Nat
  BY AddLast, QueueFields
<1>. HIDE DEF v
<1>2. ASSUME m.id = 0 PROVE Numbered(v, r, n)
  <2>1. \A i \in DOMAIN v : v[i].id # 0 => i \in DOMAIN w /\ v[i] = w[i]
    BY <1>1, <1>2
  <2>2. \A i \in DOMAIN w : i \in DOMAIN v /\ v[i] = w[i]
    BY <1>1
  <2>3. \A i \in DOMAIN v : v[i].id <= n
    BY <1>1, <1>2 DEF Numbered
  <2>4. \A i, j \in DOMAIN v : i < j /\ v[i].id # 0 /\ v[j].id # 0 => v[i].id < v[j].id
    BY <2>1 DEF Numbered
  <2>5. \A k \in DOMAIN r, i \in DOMAIN v : r[k] # 0 /\ v[i].id # 0 => r[k] < v[i].id
    BY <2>1 DEF Numbered
  <2>6. \A k \in 1 .. n : (\E i \in DOMAIN r : r[i] = k) \/ (\E i \in DOMAIN v : v[i].id = k)
    BY <2>2 DEF Numbered
  <2>. QED  BY <2>3, <2>4, <2>5, <2>6 DEF Numbered
<1>3. ASSUME m.id = n + 1 PROVE Numbered(v, r, n + 1)
  <2>1. \A i \in DOMAIN v :
            \/ (i \in DOMAIN w /\ v[i] = w[i] /\ v[i].id <= n /\ v[i].id \in Nat)
            \/ (i = Len(w) + 1 /\ v[i].id = n + 1)
    <3>1. \A i \in DOMAIN w : w[i].id <= n
      BY DEF Numbered
    <3>2. \A i \in DOMAIN w : v[i] = w[i] /\ v[i].id <= n /\ v[i].id \in Nat
      BY <1>1, <3>1
    <3>3. \A i \in DOMAIN v : i \in DOMAIN w \/ i = Len(w) + 1
      BY <1>1
    <3>. QED  BY <1>1, <1>3, <3>2, <3>3
  <2>2. \A i \in DOMAIN w : i \in DOMAIN v /\ v[i] = w[i] /\ i < Len(w) + 1
    BY <1>1
  <2>3. \A i \in DOMAIN v : v[i].id <= n + 1
    <3>. SUFFICES ASSUME NEW i \in DOMAIN v PROVE v[i].id <= n + 1
      OBVIOUS
    <3>1. CASE i \in DOMAIN w /\ v[i].id <= n /\ v[i].id \in Nat
      BY <3>1
    <3>2. CASE i = Len(w) + 1 /\ v[i].id = n + 1
      BY <3>2
    <3>. QED  BY <2>1, <3>1, <3>2
  <2>4. \A i, j \in DOMAIN v : i < j /\ v[i].id # 0 /\ v[j].id # 0 => v[i].id < v[j].id
    <3>. SUFFICES ASSUME NEW i \in DOMAIN v, NEW j \in DOMAIN v, i < j, v[i].id # 0, v[j].id # 0
                  PROVE  v[i].id < v[j].id
      OBVIOUS
    <3>0. i \in DOMAIN w /\ v[i] = w[i] /\ v[i].id <= n /\ v[i].id \in Nat
      BY <1>1, <2>1
    <3>1. CASE j = Len(w) + 1
      BY <1>3, <1>1, <3>0, <3>1
    <3>2. CASE j # Len(w) + 1
      <4>1. j \in DOMAIN w /\ v[j] = w[j]
        BY <2>1, <3>2
      <4>. QED  BY <3>0, <4>1 DEF Numbered
    <3>. QED  BY <3>1, <3>2
  <2>5. \A k \in DOMAIN r, i \in DOMAIN v : r[k] # 0 /\ v[i].id # 0 => r[k] < v[i].id
    <3>. SUFFICES ASSUME NEW k \in DOMAIN r, NEW i \in DOMAIN v, r[k] # 0, v[i].id # 0
                  PROVE  r[k] < v[i].id
      OBVIOUS
    <3>1. r[k] <= n /\ r[k] \in Nat
      BY <1>1 DEF Numbered
    <3>2. CASE i = Len(w) + 1
      BY <1>1, <1>3, <3>1, <3>2
    <3>3. CASE i # Len(w) + 1
      <4>1. i \in DOMAIN w /\ v[i] = w[i]
        BY <2>1, <3>3
      <4>. QED  BY <4>1 DEF Numbered
    <3>. QED  BY <3>2, <3>3
  <2>6. \A k \in 1 .. n + 1 : (\E i \in DOMAIN r : r[i] = k) \/ (\E i \in DOMAIN v : v[i].id = k)
    <3>. SUFFICES ASSUME NEW k \in 1 .. n + 1
                  PROVE  (\E i \in DOMAIN r : r[i] = k) \/ (\E i \in DOMAIN v : v[i].id = k)
      OBVIOUS
    <3>1. CASE k = n + 1
      <4>1. Len(w) + 1 \in DOMAIN v /\ v[Len(w) + 1].id = k
        BY <1>1, <1>3, <3>1
      <4>. QED  BY <4>1
    <3>2. CASE k # n + 1
      <4>1. k \in 1 .. n
        BY <3>2
      <4>. QED  BY <2>2, <4>1 DEF Numbered
    <3>. QED  BY <3>1, <3>2
  <2>7. \A k \in DOMAIN r : r[k] <= n + 1
    BY <1>1 DEF Numbered
  <2>. QED  BY <2>3, <2>4, <2>5, <2>6, <2>7 DEF Numbered
<1>. QED  BY <1>2, <1>3 DEF v

LEMMA AnswerNumbered ==
    ASSUME NEW w \in Seq(Message), w # <<>>, NEW r \in Seq(Nat), NEW n \in Nat, Numbered(w, r, n)
    PROVE  /\ Numbered(Tail(w), Append(r, Head(w).id), n)
           /\ Head(w).id = 0 => Numbered(Tail(w), r, n)
<1>. DEFINE t == Tail(w)
            x == Head(w).id
            a == Append(r, x)
<1>1. /\ Len(w) \in Nat /\ 1 \in DOMAIN w /\ w[1].id = x /\ x \in Nat
      /\ DOMAIN w = 1 .. Len(w) /\ DOMAIN t = 1 .. Len(w) - 1
      /\ \A i \in DOMAIN t : i + 1 \in DOMAIN w /\ t[i] = w[i + 1] /\ t[i].id \in Nat
      /\ \A i \in DOMAIN w : w[i].id \in Nat /\ (i = 1 \/ (i - 1 \in DOMAIN t /\ t[i - 1] = w[i]))
  BY TakeHead, QueueFields
<1>2. /\ Len(r) \in Nat /\ DOMAIN r = 1 .. Len(r) /\ DOMAIN a = 1 .. Len(r) + 1
      /\ \A i \in DOMAIN r : a[i] = r[i] /\ r[i] \in Nat
      /\ a[Len(r) + 1] = x
  BY <1>1, AddLast
<1>. HIDE DEF t, x, a
<1>3. \A i \in DOMAIN t : t[i].id <= n
  BY <1>1 DEF Numbered
<1>4. \A i, j \in DOMAIN t : i < j /\ t[i].id # 0 /\ t[j].id # 0 => t[i].id < t[j].id
  <2>. SUFFICES ASSUME NEW i \in DOMAIN t, NEW j \in DOMAIN t, i < j, t[i].id # 0, t[j].id # 0
                PROVE  t[i].id < t[j].id
    OBVIOUS
  <2>1. i + 1 \in DOMAIN w /\ j + 1 \in DOMAIN w /\ i + 1 < j + 1
    BY <1>1
  <2>. QED  BY <1>1, <2>1 DEF Numbered
<1>5. \A k \in DOMAIN r, i \in DOMAIN t : r[k] # 0 /\ t[i].id # 0 => r[k] < t[i].id
  BY <1>1 DEF Numbered
<1>6. ASSUME x = 0 PROVE Numbered(t, r, n)
  <2>1. \A k \in 1 .. n : (\E i \in DOMAIN r : r[i] = k) \/ (\E i \in DOMAIN t : t[i].id = k)
    <3>. SUFFICES ASSUME NEW k \in 1 .. n, NEW i \in DOMAIN w, w[i].id = k
                  PROVE  \E j \in DOMAIN t : t[j].id = k
      BY DEF Numbered
    <3>1. i # 1
      BY <1>1, <1>6
    <3>. QED  BY <1>1, <3>1
  <2>. QED  BY <1>3, <1>4, <1>5, <2>1 DEF Numbered
<1>7. Numbered(t, a, n)
  <2>1. \A k \in DOMAIN a : a[k] <= n
    BY <1>1, <1>2 DEF Numbered
  <2>2. \A k \in DOMAIN a, i \in DOMAIN t : a[k] # 0 /\ t[i].id # 0 => a[k] < t[i].id
    <3>. SUFFICES ASSUME NEW k \in DOMAIN a, NEW i \in DOMAIN t, a[k] # 0, t[i].id # 0
                  PROVE  a[k] < t[i].id
      OBVIOUS
    <3>1. CASE k \in DOMAIN r
      BY <1>2, <1>5, <3>1
    <3>2. CASE k = Len(r) + 1
      <4>1. 1 < i + 1 /\ i + 1 \in DOMAIN w /\ w[1].id # 0 /\ w[i + 1].id # 0
        BY <1>1, <1>2, <3>2
      <4>2. w[1].id < w[i + 1].id
        BY <1>1, <4>1 DEF Numbered
      <4>. QED  BY <1>1, <1>2, <3>2, <4>2
    <3>. QED  BY <1>2, <3>1, <3>2
  <2>3. \A i, j \in DOMAIN a : i < j /\ a[i] # 0 /\ a[j] # 0 => a[i] < a[j]
    <3>. SUFFICES ASSUME NEW i \in DOMAIN a, NEW j \in DOMAIN a, i < j, a[i] # 0, a[j] # 0
                  PROVE  a[i] < a[j]
      OBVIOUS
    <3>1. i \in DOMAIN r /\ a[i] = r[i]
      BY <1>2
    <3>2. CASE j \in DOMAIN r
      BY <1>2, <3>1, <3>2 DEF Numbered
    <3>3. CASE j = Len(r) + 1
      <4>1. r[i] < w[1].id
        BY <1>1, <1>2, <3>1, <3>3 DEF Numbered
      <4>. QED  BY <1>1, <1>2, <3>1, <3>3, <4>1
    <3>. QED  BY <1>2, <3>2, <3>3
  <2>4. \A k \in 1 .. n : (\E i \in DOMAIN a : a[i] = k) \/ (\E i \in DOMAIN t : t[i].id = k)
    <3>. SUFFICES ASSUME NEW k \in 1 .. n
                  PROVE  (\E i \in DOMAIN a : a[i] = k) \/ (\E i \in DOMAIN t : t[i].id = k)
      OBVIOUS
    <3>1. CASE \E i \in DOMAIN r : r[i] = k
      BY <1>2, <3>1
    <3>2. CASE k = x
      <4>1. Len(r) + 1 \in DOMAIN a /\ a[Len(r) + 1] = k
        BY <1>2, <3>2
      <4>. QED  BY <4>1
    <3>3. ASSUME NEW i \in DOMAIN w, w[i].id = k, k # x
          PROVE  \E j \in DOMAIN t : t[j].id = k
      BY <1>1, <3>3
    <3>. QED  BY <3>1, <3>2, <3>3 DEF Numbered
  <2>. QED  BY <1>3, <1>4, <2>1, <2>2, <2>3, <2>4 DEF Numbered
<1>. QED  BY <1>6, <1>7 DEF t, x, a

-----------------------------------------------------------------------------
(* What happens to the queue, to the connection and to the number of       *)
(* notifications keeps calls where they were meant.                        *)

LEMMA MeantStays ==
    ASSUME NEW w \in Seq(Message), NEW C, NEW n \in Nat, Meant(w, C, n)
    PROVE  /\ Meant(w, {}, n)
           /\ \A D : Meant(w, D, n + 1)
           /\ w # <<>> => Meant(Tail(w), C, n)
<1>1. Meant(w, {}, n)
  BY DEF Meant
<1>2. ASSUME NEW D PROVE Meant(w, D, n + 1)
  <2>1. \A i \in DOMAIN w : w[i].kind = "tool" => w[i].notices \in Nat /\ w[i].notices <= n
    BY QueueFields, MessageFields DEF Meant
  <2>2. \A k \in Nat : k <= n => k <= n + 1 /\ k # n + 1
    OBVIOUS
  <2>. QED  BY <2>1, <2>2 DEF Meant
<1>3. ASSUME w # <<>> PROVE Meant(Tail(w), C, n)
  <2>1. /\ DOMAIN w = 1 .. Len(w) /\ DOMAIN Tail(w) = 1 .. Len(w) - 1
        /\ \A i \in 1 .. Len(w) - 1 : i + 1 \in 1 .. Len(w) /\ Tail(w)[i] = w[i + 1]
    BY <1>3, TakeHead
  <2>. QED  BY <2>1 DEF Meant
<1>. QED  BY <1>1, <1>2, <1>3

LEMMA PostMeant ==
    ASSUME NEW w \in Seq(Message), NEW C, NEW n \in Nat, Meant(w, C, n),
           NEW m \in Message,
           m.kind = "tool" => /\ m.notices <= n
                              /\ m.notices = n => \A c \in C : c.site = m.site
    PROVE  Meant(Append(w, m), C, n)
<1>1. /\ Len(w) \in Nat /\ DOMAIN w = 1 .. Len(w) /\ DOMAIN Append(w, m) = 1 .. Len(w) + 1
      /\ \A i \in 1 .. Len(w) : Append(w, m)[i] = w[i]
      /\ Append(w, m)[Len(w) + 1] = m
  BY AddLast
<1>2. \A i \in 1 .. Len(w) + 1 : i \in 1 .. Len(w) \/ i = Len(w) + 1
  BY <1>1
<1>. QED  BY <1>1, <1>2 DEF Meant

-----------------------------------------------------------------------------
(* The ways in which the steps of the loop change the queue. *)

QueueOK ==
    /\ inbox \in Seq(Message) /\ asked \in Nat
    /\ current \in Seq(Message) /\ Len(current) <= 1
    /\ replies \in Seq(Nat)
    /\ Numbered(Waiting, replies, asked)

(* Messages that are handled at once. *)
LEMMA AtOnce ==
    ASSUME IInv, step = "idle", inbox # <<>>, inbox' = Tail(inbox),
           UNCHANGED <<step, current, asked>>,
           \/ replies' = Append(replies, Head(inbox).id)
           \/ Head(inbox).id = 0 /\ replies' = replies
    PROVE  /\ QueueOK' /\ Handling'
           /\ Waiting # <<>> /\ Waiting' = Tail(Waiting)
<1>1. /\ inbox \in Seq(Message) /\ replies \in Seq(Nat) /\ asked \in Nat
      /\ current = <<>> /\ Numbered(Waiting, replies, asked)
  BY DEF IInv, TypeOK, Handling
<1>2. Tail(inbox) \in Seq(Message) /\ Head(inbox) \in Message /\ Head(inbox).id \in Nat
  BY <1>1, TakeHead, MessageFields
<1>3. Waiting = inbox /\ Waiting' = Tail(inbox)
  BY <1>1, <1>2 DEF Waiting
<1>4. replies' \in Seq(Nat)
  <2>1. Append(replies, Head(inbox).id) \in Seq(Nat)
    BY <1>1, <1>2, AppendProperties
  <2>. QED  BY <1>1, <2>1
<1>5. Numbered(Waiting', replies', asked')
  BY <1>1, <1>3, AnswerNumbered
<1>6. Handling'
  BY <1>1 DEF Handling
<1>7. current' = <<>> /\ current' \in Seq(Message) /\ Len(current') <= 1
  BY <1>1 DEF IInv, TypeOK
<1>. QED  BY <1>1, <1>2, <1>3, <1>4, <1>5, <1>6, <1>7 DEF QueueOK

(* Messages whose handler goes on. *)
LEMMA Begins ==
    ASSUME IInv, step = "idle", inbox # <<>>, inbox' = Tail(inbox), current' = <<Head(inbox)>>,
           UNCHANGED <<asked, replies>>
    PROVE  /\ QueueOK' /\ Waiting' = Waiting
           /\ current' # <<>> /\ current'[1] = Head(inbox) /\ Head(inbox) \in Message
<1>1. /\ inbox \in Seq(Message) /\ replies \in Seq(Nat) /\ asked \in Nat
      /\ current = <<>> /\ Numbered(Waiting, replies, asked)
  BY DEF IInv, TypeOK, Handling
<1>2. Tail(inbox) \in Seq(Message) /\ Head(inbox) \in Message
  BY <1>1, TakeHead
<1>3. /\ current' \in Seq(Message) /\ Len(current') = 1
      /\ current' # <<>> /\ current'[1] = Head(inbox)
  BY <1>2
<1>4. Waiting' = Waiting
  BY <1>1, HeadAndTail DEF Waiting
<1>. QED  BY <1>1, <1>2, <1>3, <1>4 DEF QueueOK

(* The handler of the message in progress is done. *)
LEMMA Ends ==
    ASSUME IInv, step \notin {"idle", "ended"}, Done, UNCHANGED <<asked, inbox>>
    PROVE  /\ QueueOK' /\ Handling'
           /\ Waiting # <<>> /\ Waiting' = Tail(Waiting)
<1>1. /\ inbox \in Seq(Message) /\ replies \in Seq(Nat) /\ asked \in Nat
      /\ current \in Seq(Message) /\ Len(current) <= 1
      /\ current # <<>> /\ Numbered(Waiting, replies, asked)
  BY DEF IInv, TypeOK, Handling
<1>2. /\ Waiting \in Seq(Message) /\ Waiting # <<>> /\ Head(Waiting) = current[1]
      /\ Tail(Waiting) = inbox /\ current[1] \in Message
  BY <1>1, CurrentIsHead DEF Waiting
<1>3. current' = <<>> /\ step' = "idle" /\ replies' = Append(replies, current[1].id)
  BY DEF Done, Reply
<1>4. Waiting' = inbox
  BY <1>1, <1>3 DEF Waiting
<1>5. replies' \in Seq(Nat)
  BY <1>1, <1>2, <1>3, MessageFields, AppendProperties
<1>6. Numbered(Waiting', replies', asked')
  BY <1>1, <1>2, <1>3, <1>4, AnswerNumbered
<1>7. Handling'
  BY <1>3 DEF Handling
<1>8. current' \in Seq(Message) /\ Len(current') <= 1
  BY <1>3
<1>. QED  BY <1>1, <1>2, <1>3, <1>4, <1>5, <1>6, <1>7, <1>8 DEF QueueOK

(* A message is sent. *)
LEMMA Posts ==
    ASSUME IInv, NEW m \in Message, Post(m), m.id = Id(m.kind),
           m.kind = "tool" => /\ m.notices <= notices
                              /\ m.notices = notices => \A c \in conn : c.site = m.site
    PROVE  IInv'
<1>1. /\ inbox \in Seq(Message) /\ replies \in Seq(Nat) /\ asked \in Nat /\ notices \in Nat
      /\ current \in Seq(Message) /\ Len(current) <= 1
      /\ Numbered(Waiting, replies, asked) /\ Meant(Waiting, conn, notices)
  BY DEF IInv, TypeOK
<1>2. /\ inbox' = Append(inbox, m) /\ asked' = IF m.kind \in Requests THEN asked + 1 ELSE asked
      /\ UNCHANGED <<closed, step, current, conn, link, words, replies, notices, listed,
                     unnoticed>>
  BY DEF Post
<1>3. inbox' \in Seq(Message) /\ asked' \in Nat /\ sent' \in Nat
  BY <1>1, <1>2, AppendProperties DEF Post, IInv, TypeOK
<1>4. Waiting' = Append(Waiting, m) /\ Waiting \in Seq(Message)
  BY <1>1, <1>2, AppendToBoth, CurrentIsHead DEF Waiting
<1>5. Numbered(Waiting', replies', asked')
  <2>1. CASE m.kind \in Requests
    BY <1>1, <1>2, <1>4, <2>1, PostNumbered DEF Id
  <2>2. CASE m.kind \notin Requests
    BY <1>1, <1>2, <1>4, <2>2, PostNumbered DEF Id
  <2>. QED  BY <2>1, <2>2
<1>6. Meant(Waiting', conn', notices')
  BY <1>1, <1>2, <1>4, PostMeant
<1>7. TypeOK'
  BY <1>2, <1>3 DEF IInv, TypeOK
<1>8. Handling' /\ Listed'
  BY <1>2 DEF IInv, Handling, Listed
<1>. QED  BY <1>5, <1>6, <1>7, <1>8 DEF IInv

-----------------------------------------------------------------------------
(* Every step keeps the invariant. *)

LEMMA InitInvariant == Init => IInv
<1>. SUFFICES ASSUME Init PROVE IInv
  OBVIOUS
<1>1. /\ inbox \in Seq(Message) /\ current \in Seq(Message) /\ Len(current) <= 1
      /\ replies \in Seq(Nat) /\ conn = {} /\ listed = {} /\ step = "idle" /\ current = <<>>
  BY DEF Init
<1>4. TypeOK
  BY <1>1 DEF Init, TypeOK
<1>5. Handling
  BY <1>1 DEF Handling
<1>2. Waiting = <<>> /\ Listed
  BY DEF Init, Waiting, Listed
<1>3. Numbered(Waiting, replies, asked) /\ Meant(Waiting, conn, notices)
  <2>1. asked = 0 /\ replies = <<>> /\ DOMAIN Waiting = {} /\ DOMAIN replies = {}
    BY <1>2 DEF Init
  <2>. QED  BY <2>1 DEF Numbered, Meant
<1>. QED  BY <1>2, <1>3, <1>4, <1>5 DEF IInv

LEMMA SendStep == IInv /\ Send => IInv'
<1>. SUFFICES ASSUME IInv, Send PROVE IInv'
  OBVIOUS
<1>0. asked \in Nat /\ \A k : Id(k) \in Nat
  BY DEF IInv, TypeOK, Id
<1>1. ASSUME NEW k \in Others \cup {"plain", "list", "disconnect"},
             Post([kind |-> k, id |-> Id(k)])
      PROVE  IInv'
  <2>. DEFINE m == [kind |-> k, id |-> Id(k)]
  <2>1. m.kind = k /\ m.id = Id(m.kind) /\ k # "tool"
    BY DEF Others
  <2>2. m \in Message
    <3>1. k \in Others => Id(k) = 0
      BY DEF Others, Requests, Id
    <3>. QED  BY <1>0, <3>1 DEF Message
  <2>. HIDE DEF m
  <2>3. Post(m)
    BY <1>1 DEF m
  <2>. QED  BY <2>1, <2>2, <2>3, Posts
<1>2. ASSUME NEW s \in Sites, Post([kind |-> "connect", id |-> Id("connect"), site |-> s])
      PROVE  IInv'
  <2>. DEFINE m == [kind |-> "connect", id |-> Id("connect"), site |-> s]
  <2>1. m \in Message /\ m.kind = "connect" /\ m.id = Id(m.kind)
    BY <1>0 DEF Message
  <2>. HIDE DEF m
  <2>2. Post(m)
    BY <1>2 DEF m
  <2>. QED  BY <2>1, <2>2, Posts
<1>3. ASSUME NEW l \in listed, NEW args \in Arguments, NEW c \in l.conn, NEW t \in c.tools,
             Post([kind |-> "tool", id |-> Id("tool"), prefix |-> NameOf[c.site], tool |-> t,
                   args |-> args, site |-> c.site, notices |-> l.notices])
      PROVE  IInv'
  <2>. DEFINE m == [kind |-> "tool", id |-> Id("tool"), prefix |-> NameOf[c.site], tool |-> t,
                    args |-> args, site |-> c.site, notices |-> l.notices]
  <2>1. l.conn \in SUBSET Connection /\ l.notices \in Nat
    BY DEF IInv, TypeOK
  <2>2. c.site \in Sites /\ t \in Tools
    BY <2>1 DEF Connection
  <2>3. m \in Message
    BY <1>0, <2>1, <2>2 DEF Message
  <2>4. m.id = Id(m.kind) /\ m.site = c.site /\ m.notices = l.notices
    OBVIOUS
  <2>5. m.notices <= notices
    BY <2>4 DEF IInv, Listed
  <2>6. ASSUME m.notices = notices, NEW d \in conn PROVE d.site = m.site
    <3>1. conn = l.conn
      BY <2>4, <2>6 DEF IInv, Listed
    <3>2. c = d
      BY <2>6, <3>1 DEF IInv, TypeOK
    <3>. QED  BY <2>4, <3>2
  <2>. HIDE DEF m
  <2>7. Post(m)
    BY <1>3 DEF m
  <2>. QED  BY <2>3, <2>4, <2>5, <2>6, <2>7, Posts
<1>. QED  BY <1>1, <1>2, <1>3 DEF Send

(* Plain, Unnumbered, Refuse: one reply, or none to what has no id, and no  *)
(* more.                                                                    *)
LEMMA RepliedAtOnce ==
    ASSUME IInv, step = "idle", inbox # <<>>, inbox' = Tail(inbox),
           \/ replies' = Append(replies, Head(inbox).id)
           \/ Head(inbox).id = 0 /\ replies' = replies,
           UNCHANGED <<sent, asked, closed, words, step, current, conn, link, notices, listed,
                       unnoticed>>
    PROVE  IInv'
<1>1. QueueOK' /\ Handling' /\ Waiting # <<>> /\ Waiting' = Tail(Waiting)
  BY AtOnce
<1>2. Waiting \in Seq(Message)
  BY CurrentIsHead DEF IInv, TypeOK, Waiting
<1>3. Meant(Waiting', conn', notices')
  BY <1>1, <1>2, MeantStays DEF IInv, TypeOK
<1>4. TypeOK'
  BY <1>1 DEF IInv, TypeOK, QueueOK
<1>5. Listed'
  BY DEF IInv, Listed
<1>. QED  BY <1>1, <1>3, <1>4, <1>5 DEF IInv, QueueOK

LEMMA PlainStep == IInv /\ (Plain \/ Unnumbered \/ Refuse) => IInv'
<1>1. ASSUME IInv, Plain PROVE IInv'
  BY <1>1, RepliedAtOnce DEF Plain, Take, Reply
<1>2. ASSUME IInv, Refuse PROVE IInv'
  BY <1>2, RepliedAtOnce DEF Refuse, Take, Reply
<1>3. ASSUME IInv, Unnumbered PROVE IInv'
  <2>1. /\ step = "idle" /\ inbox # <<>> /\ Head(inbox).kind \in Others /\ inbox' = Tail(inbox)
        /\ UNCHANGED <<sent, asked, closed, words, step, current, conn, link, notices, listed,
                       unnoticed>>
        /\ replies' = replies \/ replies' = Append(replies, 0)
    BY <1>3 DEF Unnumbered, Take, Others
  <2>2. Head(inbox) \in Message
    BY <1>3, <2>1, TakeHead DEF IInv, TypeOK
  <2>3. Head(inbox).id = 0
    BY <2>1, <2>2, MessageFields
  <2>. QED  BY <1>3, <2>1, <2>3, RepliedAtOnce
<1>. QED  BY <1>1, <1>2, <1>3

LEMMA ToolsListStep == IInv /\ ToolsList => IInv'
<1>. SUFFICES ASSUME IInv, ToolsList PROVE IInv'
  OBVIOUS
<1>0. /\ step = "idle" /\ inbox # <<>> /\ inbox' = Tail(inbox)
      /\ replies' = Append(replies, Head(inbox).id)
      /\ UNCHANGED <<sent, asked, closed, words, step, current, conn, link, notices, unnoticed>>
      /\ listed' = {[conn |-> conn, notices |-> notices]}
  BY DEF ToolsList, Take, Reply
<1>1. QueueOK' /\ Handling' /\ Waiting # <<>> /\ Waiting' = Tail(Waiting)
  BY <1>0, AtOnce
<1>2. Waiting \in Seq(Message)
  BY CurrentIsHead DEF IInv, TypeOK, Waiting
<1>3. Meant(Waiting', conn', notices')
  BY <1>0, <1>1, <1>2, MeantStays DEF IInv, TypeOK
<1>4. TypeOK'
  <2>1. listed' \subseteq [conn : SUBSET Connection, notices : Nat]
    BY <1>0 DEF IInv, TypeOK
  <2>. QED  BY <1>0, <1>1, <2>1 DEF IInv, TypeOK, QueueOK
<1>5. Listed'
  <2>1. \A l \in listed' : l.conn = conn' /\ l.notices = notices'
    BY <1>0
  <2>2. notices' \in Nat /\ (unnoticed' => conn' = {})
    BY <1>0 DEF IInv, TypeOK, Listed
  <2>. QED  BY <2>1, <2>2 DEF Listed
<1>. QED  BY <1>1, <1>3, <1>4, <1>5 DEF IInv, QueueOK

LEMMA Announced ==
    ASSUME IInv, Notify, UNCHANGED listed
    PROVE  Listed'
<1>1. notices \in Nat /\ notices' = notices + 1 /\ unnoticed' = FALSE /\ listed' = listed
  BY DEF IInv, TypeOK, Notify
<1>2. \A l \in listed : l.notices \in Nat /\ l.notices <= notices
  BY DEF IInv, TypeOK, Listed
<1>3. \A k \in Nat : k <= notices => k <= notices' /\ k # notices'
  BY <1>1
<1>. QED  BY <1>1, <1>2, <1>3 DEF Listed

LEMMA DisconnectStep == IInv /\ Disconnect => IInv'
<1>. SUFFICES ASSUME IInv, Disconnect PROVE IInv'
  OBVIOUS
<1>0. /\ step = "idle" /\ inbox # <<>> /\ inbox' = Tail(inbox)
      /\ replies' = Append(replies, Head(inbox).id)
      /\ UNCHANGED <<sent, asked, closed, words, step, current, listed>>
      /\ conn' = {} /\ link' = FALSE /\ Notify /\ notices' = notices + 1 /\ unnoticed' = FALSE
  BY DEF Disconnect, Take, Reply, Notify
<1>1. QueueOK' /\ Handling' /\ Waiting # <<>> /\ Waiting' = Tail(Waiting)
  BY <1>0, AtOnce
<1>2. Waiting \in Seq(Message) /\ Waiting' \in Seq(Message) /\ notices \in Nat
  BY <1>1, CurrentIsHead, TakeHead DEF IInv, TypeOK, Waiting
<1>3. Meant(Waiting', conn', notices')
  <2>1. Meant(Waiting', conn, notices)
    BY <1>1, <1>2, MeantStays DEF IInv
  <2>. QED  BY <1>0, <1>2, <2>1, MeantStays
<1>4. TypeOK'
  <2>1. /\ sent' \in Nat /\ closed' \in BOOLEAN /\ notices' \in Nat
        /\ listed' \subseteq [conn : SUBSET Connection, notices : Nat]
    BY <1>0 DEF IInv, TypeOK
  <2>2. conn' \subseteq Connection /\ \A c, d \in conn' : c = d
    BY <1>0
  <2>3. step' = "idle"
    BY <1>0
  <2>. QED  BY <1>0, <1>1, <2>1, <2>2, <2>3 DEF TypeOK, QueueOK
<1>5. Listed'
  BY <1>0, Announced
<1>. QED  BY <1>1, <1>3, <1>4, <1>5 DEF IInv, QueueOK

LEMMA ConnectStep == IInv /\ Connect => IInv'
<1>. SUFFICES ASSUME IInv, Connect PROVE IInv'
  OBVIOUS
<1>0. /\ step = "idle" /\ inbox # <<>> /\ inbox' = Tail(inbox) /\ Head(inbox).kind = "connect"
      /\ current' = <<Head(inbox)>> /\ step' = "dial"
      /\ UNCHANGED <<sent, asked, closed, words, replies, notices, listed>>
      /\ conn' = {} /\ link' = FALSE /\ unnoticed' = (unnoticed \/ conn # {})
  BY DEF Connect, Take
<1>1. /\ QueueOK' /\ Waiting' = Waiting
      /\ current' # <<>> /\ current'[1] = Head(inbox) /\ Head(inbox) \in Message
  BY <1>0, Begins
<1>2. Handling'
  BY <1>0, <1>1 DEF Handling
<1>3. Meant(Waiting', conn', notices')
  <2>1. Waiting \in Seq(Message) /\ notices \in Nat /\ Meant(Waiting, conn, notices)
    BY CurrentIsHead DEF IInv, TypeOK, Waiting
  <2>. QED  BY <1>0, <1>1, <2>1, MeantStays
<1>4. TypeOK'
  <2>1. unnoticed' \in BOOLEAN
    BY <1>0, Zenon
  <2>2. /\ sent' \in Nat /\ closed' \in BOOLEAN /\ notices' \in Nat
        /\ listed' \subseteq [conn : SUBSET Connection, notices : Nat]
    BY <1>0 DEF IInv, TypeOK
  <2>3. conn' \subseteq Connection /\ \A c, d \in conn' : c = d
    BY <1>0
  <2>. QED  BY <1>0, <1>1, <2>1, <2>2, <2>3 DEF TypeOK, QueueOK
<1>5. Listed'
  <2>. SUFFICES ASSUME NEW l \in listed
                PROVE  l.notices <= notices /\ (l.notices = notices => unnoticed' \/ l.conn = {})
    BY <1>0 DEF Listed
  <2>. QED  BY <1>0 DEF IInv, Listed
<1>. QED  BY <1>1, <1>2, <1>3, <1>4, <1>5 DEF IInv, QueueOK

LEMMA InvokeStep == IInv /\ Invoke => IInv'
<1>. SUFFICES ASSUME IInv, Invoke PROVE IInv'
  OBVIOUS
<1>0. /\ step = "idle" /\ inbox # <<>> /\ inbox' = Tail(inbox) /\ Head(inbox).kind = "tool"
      /\ current' = <<Head(inbox)>> /\ step' = "invoke"
      /\ \E o \in Orders(Head(inbox).args) : words' = Command(o)
      /\ UNCHANGED <<sent, asked, closed, conn, link, replies, notices, listed, unnoticed>>
  BY DEF Invoke
<1>1. /\ QueueOK' /\ Waiting' = Waiting
      /\ current' # <<>> /\ current'[1] = Head(inbox) /\ Head(inbox) \in Message
  BY <1>0, Begins
<1>2. Handling'
  BY <1>0, <1>1 DEF Handling
<1>3. Meant(Waiting', conn', notices')
  BY <1>0, <1>1 DEF IInv
<1>4. TypeOK'
  BY <1>0, <1>1 DEF IInv, TypeOK, QueueOK
<1>5. Listed'
  BY <1>0 DEF IInv, Listed
<1>. QED  BY <1>1, <1>2, <1>3, <1>4, <1>5 DEF IInv, QueueOK

(* Invoked, and a connect that fails at any step. *)
LEMMA DoneStep ==
    ASSUME IInv, step \notin {"idle", "ended"}, Done,
           UNCHANGED <<inbox, sent, asked, closed, conn, link, notices, listed, unnoticed>>
    PROVE  IInv'
<1>1. QueueOK' /\ Handling' /\ Waiting # <<>> /\ Waiting' = Tail(Waiting)
  BY Ends
<1>2. Waiting \in Seq(Message)
  BY CurrentIsHead DEF IInv, TypeOK, Waiting
<1>3. Meant(Waiting', conn', notices')
  BY <1>1, <1>2, MeantStays DEF IInv, TypeOK
<1>4. TypeOK'
  BY <1>1 DEF IInv, TypeOK, QueueOK, Done
<1>5. Listed'
  BY DEF IInv, Listed
<1>. QED  BY <1>1, <1>3, <1>4, <1>5 DEF IInv, QueueOK

LEMMA FailedStep ==
    IInv /\ (Invoked \/ DialFails \/ HandshakeFails \/ CapabilitiesFail) => IInv'
BY DoneStep DEF Invoked, DialFails, HandshakeFails, CapabilitiesFail, ConnectFails

LEMMA ConnectedStep == IInv /\ Connected => IInv'
<1>. SUFFICES ASSUME IInv, Connected PROVE IInv'
  OBVIOUS
<1>0. /\ step = "capabilities" /\ link' = TRUE /\ Notify /\ Done
      /\ notices' = notices + 1 /\ unnoticed' = FALSE
      /\ UNCHANGED <<inbox, sent, asked, closed, words, listed>>
  BY DEF Connected, Notify
<1>1. QueueOK' /\ Handling' /\ Waiting # <<>> /\ Waiting' = Tail(Waiting)
  BY <1>0, Ends
<1>2. Waiting \in Seq(Message) /\ Waiting' \in Seq(Message) /\ notices \in Nat
  BY <1>1, CurrentIsHead, TakeHead DEF IInv, TypeOK, Waiting
<1>3. Meant(Waiting', conn', notices')
  <2>1. Meant(Waiting', conn, notices)
    BY <1>1, <1>2, MeantStays DEF IInv
  <2>. QED  BY <1>0, <1>2, <2>1, MeantStays
<1>4. TypeOK'
  <2>1. PICK ts \in SUBSET Tools : conn' = {[site |-> current[1].site, tools |-> ts]}
    BY DEF Connected
  <2>2. current[1].site \in Sites
    <3>1. current # <<>> /\ current[1].kind = "connect"
      BY <1>0 DEF IInv, Handling
    <3>2. current[1] \in Message
      BY <3>1, CurrentIsHead DEF IInv, TypeOK
    <3>. QED  BY <3>1, <3>2, MessageFields
  <2>3. conn' \subseteq Connection /\ \A c, d \in conn' : c = d
    BY <2>1, <2>2 DEF Connection
  <2>4. /\ sent' \in Nat /\ closed' \in BOOLEAN /\ notices' \in Nat
        /\ listed' \subseteq [conn : SUBSET Connection, notices : Nat]
    BY <1>0, <1>2 DEF IInv, TypeOK
  <2>5. step' = "idle"
    BY <1>0 DEF Done
  <2>. QED  BY <1>0, <1>1, <2>3, <2>4, <2>5 DEF TypeOK, QueueOK
<1>5. Listed'
  BY <1>0, Announced
<1>. QED  BY <1>1, <1>3, <1>4, <1>5 DEF IInv, QueueOK

(* Steps that leave the messages as they are. *)
LEMMA QuietStep ==
    ASSUME IInv,
           \/ HangUp \/ LinkLost \/ End \/ Dialled \/ ShakesHands \/ UNCHANGED vars
    PROVE  IInv'
<1>1. UNCHANGED <<inbox, sent, asked, current, conn, words, replies, notices, listed, unnoticed>>
  BY DEF HangUp, LinkLost, End, Dialled, ShakesHands, vars
<1>2. /\ closed' \in BOOLEAN /\ link' \in BOOLEAN
      /\ \/ step' = step
         \/ step = "idle" /\ step' = "ended"
         \/ step \in {"dial", "handshake"} /\ step' \in {"handshake", "capabilities"}
  BY DEF HangUp, LinkLost, End, Dialled, ShakesHands, vars, IInv, TypeOK
<1>3. TypeOK'
  BY <1>1, <1>2 DEF IInv, TypeOK
<1>4. Handling'
  BY <1>1, <1>2 DEF IInv, Handling
<1>5. Waiting' = Waiting /\ Listed'
  BY <1>1 DEF IInv, Waiting, Listed
<1>. QED  BY <1>1, <1>3, <1>4, <1>5 DEF IInv

LEMMA NextInvariant == IInv /\ [Next]_vars => IInv'
BY SendStep, PlainStep, ToolsListStep, DisconnectStep, ConnectStep, InvokeStep, FailedStep,
   ConnectedStep, QuietStep
DEF Next, Loop

-----------------------------------------------------------------------------
(* What the site makes of a command all of whose values are one word.      *)

LEMMA CommandArrives ==
    ASSUME NEW args \in Arguments, NEW o \in Orders(args),
           \A a \in args : Len(a.value) = 1 /\ Shown[a.value[1]] = a.value[1]
    PROVE  /\ ~Refused(Command(o))
           /\ Received(Command(o)) = {<<a.key, a.value[1]>> : a \in args}
<1>. DEFINE N  == Cardinality(args)
            ws == Command(o)
            G(i) == <<o[i].key, o[i].value[1]>>
<1>1. N \in Nat /\ \A x, y \in args : x.key = y.key => x = y
  BY ArgumentsAssumption, FS_CardinalityType
<1>. HIDE DEF N
<1>2. /\ DOMAIN o = 1 .. N
      /\ \A i \in 1 .. N : o[i] \in args
      /\ \A i, j \in 1 .. N : o[i] = o[j] => i = j
      /\ \A a \in args : \E i \in 1 .. N : o[i] = a
  BY DEF Orders, Bijection, Injection, Surjection, IsInjective, N
<1>3. Places(o) = {<<i, 1>> : i \in 1 .. N}
  <2>1. \A i \in 1 .. N : 1 .. Len(o[i].value) = {1}
    <3>1. \A i \in 1 .. N : Len(o[i].value) = 1
      BY <1>2
    <3>2. 1 .. 1 = {1}
      OBVIOUS
    <3>. QED  BY <3>1, <3>2, Zenon
  <2>2. Places(o) = UNION {{i} \X {1} : i \in 1 .. N}
    BY <1>2, <2>1 DEF Places
  <2>. QED  BY <2>2
<1>4. \A p \in DOMAIN ws : p[1] \in 1 .. N /\ p = <<p[1], 1>>
  BY <1>3 DEF Command
<1>5. \A i \in 1 .. N : <<i, 1>> \in DOMAIN ws
  BY <1>3 DEF Command
<1>6. \A i \in 1 .. N : Assigned(ws[<<i, 1>>]) = {G(i)}
  <2>. SUFFICES ASSUME NEW i \in 1 .. N PROVE Assigned(ws[<<i, 1>>]) = {G(i)}
    OBVIOUS
  <2>1. <<i, 1>> \in Places(o)
    BY <1>3
  <2>2. ws[<<i, 1>>] = [key |-> {o[i].key}, text |-> Shown[o[i].value[1]]]
    BY <2>1 DEF Command
  <2>3. Shown[o[i].value[1]] = o[i].value[1]
    BY <1>2
  <2>. QED  BY <2>2, <2>3 DEF Assigned
<1>. HIDE DEF ws
<1>7. ~Refused(ws)
  BY <1>4, <1>6 DEF Refused
<1>8. \A i, j \in 1 .. N : Before(<<i, 1>>, <<j, 1>>) => G(j)[1] # G(i)[1]
  <2>. SUFFICES ASSUME NEW i \in 1 .. N, NEW j \in 1 .. N, Before(<<i, 1>>, <<j, 1>>)
                PROVE  o[j].key # o[i].key
    OBVIOUS
  <2>1. i # j
    BY <1>1 DEF Before
  <2>. QED  BY <1>1, <1>2, <2>1
<1>9. Received(ws) = {G(i) : i \in 1 .. N}
  <2>1. ASSUME NEW g \in Received(ws) PROVE g \in {G(i) : i \in 1 .. N}
    BY <1>4, <1>6 DEF Received
  <2>2. ASSUME NEW i \in 1 .. N PROVE G(i) \in Received(ws)
    <3>1. G(i) \in Assigned(ws[<<i, 1>>]) /\ <<i, 1>> \in DOMAIN ws
      BY <1>5, <1>6
    <3>2. ASSUME NEW q \in DOMAIN ws, Before(<<i, 1>>, q), NEW b \in Assigned(ws[q])
          PROVE  b[1] # G(i)[1]
      <4>1. PICK j \in 1 .. N : q = <<j, 1>>
        BY <1>4
      <4>2. b = G(j)
        BY <1>6, <4>1
      <4>. QED  BY <1>8, <3>2, <4>1, <4>2
    <3>. HIDE DEF G
    <3>. QED  BY <3>1, <3>2 DEF Received
  <2>. QED  BY <2>1, <2>2
<1>10. {G(i) : i \in 1 .. N} = {<<a.key, a.value[1]>> : a \in args}
  BY <1>2
<1>. QED  BY <1>7, <1>9, <1>10 DEF ws

-----------------------------------------------------------------------------
(* The theorems *)

(* Whatever clients send and sites do, IInv holds. *)
THEOREM Invariant == Spec => []IInv
<1>. QED  BY InitInvariant, NextInvariant, PTL DEF Spec

(* The variables keep their types: one message at most is in progress, and  *)
(* one connection at most is open.                                          *)
THEOREM TypeCorrect == Spec => []TypeOK
<1>1. IInv => TypeOK
  BY DEF IInv
<1>. QED  BY <1>1, Invariant, PTL

(* However connects fail and calls hang: each request that was handled has  *)
(* got one reply, in their order (run, handle).                             *)
THEOREM RepliesInOrder == Spec => []OneReplyEach
<1>1. IInv => OneReplyEach
  <2>. SUFFICES ASSUME IInv PROVE OneReplyEach
    OBVIOUS
  <2>. DEFINE w == current \o inbox
              waiting == {msg.id : msg \in ToSet(w)}
  <2>1. Numbered(w, replies, asked) /\ w \in Seq(Message) /\ replies \in Seq(Nat) /\ asked \in Nat
    BY CurrentIsHead DEF IInv, TypeOK, Waiting
  <2>2. /\ \A i \in DOMAIN w : w[i].id \in Nat
        /\ \A r \in DOMAIN replies : replies[r] \in Nat
    BY <2>1, QueueFields, ElementOfSeq
  <2>. HIDE DEF w
  <2>3. waiting = {w[i].id : i \in DOMAIN w} /\ ToSet(replies) = {replies[r] : r \in DOMAIN replies}
    BY DEF ToSet
  <2>4. ASSUME NEW r \in DOMAIN replies, replies[r] # 0
        PROVE  replies[r] \in (1 .. asked) \ waiting
    <3>1. replies[r] \in 1 .. asked
      BY <2>1, <2>2, <2>4 DEF Numbered
    <3>2. \A i \in DOMAIN w : w[i].id # replies[r]
      BY <2>1, <2>2, <2>4 DEF Numbered
    <3>. QED  BY <2>3, <3>1, <3>2
  <2>5. ASSUME NEW n \in (1 .. asked) \ waiting
        PROVE  \E r \in DOMAIN replies : replies[r] = n /\ n # 0
    BY <2>1, <2>3 DEF Numbered
  <2>6. ToSet(replies) \ {0} = (1 .. asked) \ waiting
    BY <2>3, <2>4, <2>5
  <2>7. \A i, j \in DOMAIN replies :
            i < j /\ replies[i] # 0 /\ replies[j] # 0 => replies[i] < replies[j]
    BY <2>1 DEF Numbered
  <2>. QED  BY <2>6, <2>7 DEF OneReplyEach, w
<1>. QED  BY <1>1, Invariant, PTL

(* A client that hears of no change has the list of the connection, unless  *)
(* a connect failed and took it away (handleConnect, handleDisconnect).     *)
THEOREM ChangesAreTold == Spec => []ToldOfChange
<1>1. IInv => ToldOfChange
  BY DEF IInv, Listed, ToldOfChange
<1>. QED  BY <1>1, Invariant, PTL

(* A call runs at the site whose list it was made from, unless a change was *)
(* announced since (mcpName, handleSiteToolCall).                           *)
THEOREM CallsAreMeant == Spec => []CallsRunWhereMeant
<1>1. IInv => CallsRunWhereMeant
  <2>. SUFFICES ASSUME IInv, NEW c \in conn, step = "invoke", c.site # current[1].site
                PROVE  notices > current[1].notices
    BY DEF CallsRunWhereMeant
  <2>1. current # <<>> /\ current[1].kind = "tool"
    BY DEF IInv, Handling
  <2>2. /\ Waiting \in Seq(Message) /\ Waiting # <<>> /\ Waiting[1] = current[1]
        /\ 1 \in DOMAIN Waiting /\ current[1] \in Message
    BY <2>1, CurrentIsHead, TakeHead DEF IInv, TypeOK, Waiting
  <2>3. current[1].notices <= notices /\ current[1].notices # notices
    BY <2>1, <2>2 DEF IInv, Meant
  <2>4. current[1].notices \in Nat /\ notices \in Nat
    BY <2>1, <2>2, MessageFields DEF IInv, TypeOK
  <2>. QED  BY <2>3, <2>4
<1>. QED  BY <1>1, Invariant, PTL

(* A tool receives the arguments of the call, in whatever order they travel *)
(* (invokeMCP, mcp at the site).                                            *)
THEOREM ArgumentsAreKept == Spec => []ArgumentsArrive
<1>1. IInv => ArgumentsArrive
  <2>. SUFFICES ASSUME IInv, step = "invoke",
                       \A a \in current[1].args :
                           Len(a.value) = 1 /\ Shown[a.value[1]] = a.value[1]
                PROVE  /\ ~Refused(words)
                       /\ Received(words) = {<<a.key, a.value[1]>> : a \in current[1].args}
    BY DEF ArgumentsArrive
  <2>1. current # <<>> /\ current[1].kind = "tool"
    BY DEF IInv, Handling
  <2>2. current[1].args \in Arguments
    BY <2>1, CurrentIsHead, MessageFields DEF IInv, TypeOK
  <2>3. PICK o \in Orders(current[1].args) : words = Command(o)
    BY DEF IInv, Handling
  <2>. QED  BY <2>2, <2>3, CommandArrives
<1>. QED  BY <1>1, Invariant, PTL

=============================================================================
