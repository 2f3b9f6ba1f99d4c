----------------------------- MODULE Echo_proofs -----------------------------
(***************************************************************************)
(* The demos keep a connection's bytes in order and each socket in one     *)
(* fiber's hands, for any number of clients and any sizes of the buffers   *)
(* and streams.                                                            *)
(***************************************************************************)
EXTENDS Echo, SequenceTheorems, FiniteSetTheorems, TLAPS

Byte == Client \X Nat

Process == [at : {"connect", "send", "recv", "gone"}, lines : Nat, sent : Nat, got : Seq(Byte)]
Worker == [at : {"created", "recv", "send", "over"}, buf : Seq(Byte)]

Types ==
  /\ cli \in [Client -> Process]
  /\ up \in [Client -> Seq(Byte)] /\ down \in [Client -> Seq(Byte)]
  /\ waiting \in Seq(Client) /\ accepting \in BOOLEAN /\ open \subseteq Client
  /\ pfd \in Seq(Client \cup {Null})
  /\ fiber \in Seq(Worker)
  /\ Len(fiber) = Len(pfd)

\* A client connects once, and its connection is in one place: it waits, or one
\* fiber works on it, whose pointer no other fiber has.
Sockets ==
  /\ \A i \in DOMAIN waiting : cli[waiting[i]].at # "connect"
  /\ \A i, j \in DOMAIN waiting : waiting[i] = waiting[j] => i = j
  /\ \A i \in DOMAIN pfd : pfd[i] # Null => cli[pfd[i]].at # "connect"
  /\ \A i \in DOMAIN pfd, j \in DOMAIN waiting : pfd[i] # waiting[j]
  /\ \A i, j \in DOMAIN pfd : pfd[i] # Null /\ pfd[i] = pfd[j] => i = j
  /\ \A i \in DOMAIN pfd : pfd[i] = Null <=> fiber[i].at = "over"
  /\ accepting => \A i \in DOMAIN pfd : pfd[i] # Null => pfd[i] \in open
  /\ accepting => \A c \in open : \E i \in DOMAIN pfd : pfd[i] = c

\* Only a fiber that is about to answer holds bytes.
Buffers == \A i \in DOMAIN fiber : fiber[i].at # "send" => fiber[i].buf = <<>>

\* Sequences of a client's own bytes, each one later than those before.
InOrder(c, n, s) ==
  /\ \A j \in DOMAIN s : s[j][1] = c /\ s[j][2] <= n
  /\ \A j, k \in DOMAIN s : j < k => s[j][2] < s[k][2]

Before(s, t) == \A j \in DOMAIN s, k \in DOMAIN t : s[j][2] < t[k][2]

Held(c) == IF FibersOf(c) = {} THEN <<>> ELSE fiber[CHOOSE i \in FibersOf(c) : TRUE].buf

\* Concatenation, with a name to hide it under.
Cat(s, t) == s \o t

All(c) == Cat(Cat(Cat(cli[c].got, down[c]), Held(c)), up[c])

Inv == Types /\ Sockets /\ Buffers /\ \A c \in Client : InOrder(c, cli[c].sent, All(c))

-----------------------------------------------------------------------------
(* Sequences of bytes.                                                     *)

LEMMA ConcatInOrder ==
  ASSUME NEW c, NEW n, NEW s \in Seq(Byte), NEW t \in Seq(Byte)
  PROVE  InOrder(c, n, Cat(s, t)) <=> InOrder(c, n, s) /\ InOrder(c, n, t) /\ Before(s, t)
<1> DEFINE st == s \o t
<1>1. /\ st \in Seq(Byte) /\ DOMAIN st = 1 .. Len(s) + Len(t)
      /\ DOMAIN s = 1 .. Len(s) /\ DOMAIN t = 1 .. Len(t) /\ Len(s) \in Nat /\ Len(t) \in Nat
      /\ \A j \in 1 .. Len(s) : st[j] = s[j]
      /\ \A j \in 1 .. Len(t) : st[Len(s) + j] = t[j]
      /\ \A j \in 1 .. Len(s) + Len(t) : j > Len(s) => st[j] = t[j - Len(s)]
  OBVIOUS
<1> HIDE DEF st
<1>2. ASSUME InOrder(c, n, st) PROVE InOrder(c, n, s) /\ InOrder(c, n, t) /\ Before(s, t)
  <2>1. InOrder(c, n, s)
    BY <1>1, <1>2 DEF InOrder
  <2>2. InOrder(c, n, t)
    <3>1. \A j \in DOMAIN t : t[j][1] = c /\ t[j][2] <= n
      BY <1>1, <1>2 DEF InOrder
    <3>2. ASSUME NEW j \in DOMAIN t, NEW k \in DOMAIN t, j < k PROVE t[j][2] < t[k][2]
      <4>1. Len(s) + j \in DOMAIN st /\ Len(s) + k \in DOMAIN st /\ Len(s) + j < Len(s) + k
        BY <1>1, <3>2
      <4> QED BY <1>1, <1>2, <4>1 DEF InOrder
    <3> QED BY <3>1, <3>2 DEF InOrder
  <2>3. ASSUME NEW j \in DOMAIN s, NEW k \in DOMAIN t PROVE s[j][2] < t[k][2]
    <3>1. j \in DOMAIN st /\ Len(s) + k \in DOMAIN st /\ j < Len(s) + k
      BY <1>1
    <3> QED BY <1>1, <1>2, <3>1 DEF InOrder
  <2> QED BY <2>1, <2>2, <2>3 DEF Before
<1>3. ASSUME InOrder(c, n, s), InOrder(c, n, t), Before(s, t) PROVE InOrder(c, n, st)
  <2>1. ASSUME NEW j \in DOMAIN st PROVE st[j][1] = c /\ st[j][2] <= n
    <3>1. CASE j <= Len(s)
      BY <1>1, <1>3, <3>1 DEF InOrder
    <3>2. CASE j > Len(s)
      <4>1. j - Len(s) \in DOMAIN t /\ st[j] = t[j - Len(s)]
        BY <1>1, <3>2
      <4> QED BY <1>3, <4>1 DEF InOrder
    <3> QED BY <1>1, <3>1, <3>2
  <2>2. ASSUME NEW j \in DOMAIN st, NEW k \in DOMAIN st, j < k PROVE st[j][2] < st[k][2]
    <3>1. CASE k <= Len(s)
      <4>1. j \in DOMAIN s /\ k \in DOMAIN s /\ st[j] = s[j] /\ st[k] = s[k]
        BY <1>1, <2>2, <3>1
      <4> QED BY <1>3, <2>2, <4>1 DEF InOrder
    <3>2. CASE j <= Len(s) /\ k > Len(s)
      <4>1. k - Len(s) \in DOMAIN t /\ st[k] = t[k - Len(s)] /\ j \in DOMAIN s /\ st[j] = s[j]
        BY <1>1, <3>2
      <4> QED BY <1>3, <4>1 DEF Before
    <3>3. CASE j > Len(s)
      <4>1. j - Len(s) \in DOMAIN t /\ k - Len(s) \in DOMAIN t /\ j - Len(s) < k - Len(s)
        BY <1>1, <2>2, <3>3
      <4>2. st[j] = t[j - Len(s)] /\ st[k] = t[k - Len(s)]
        BY <1>1, <2>2, <3>3
      <4> QED BY <1>3, <4>1, <4>2 DEF InOrder
    <3> QED BY <1>1, <3>1, <3>2, <3>3
  <2> QED BY <2>1, <2>2 DEF InOrder
<1> QED BY <1>2, <1>3 DEF st, Cat

LEMMA ConcatBefore ==
  ASSUME NEW s \in Seq(Byte), NEW t \in Seq(Byte), NEW r \in Seq(Byte)
  PROVE  Before(Cat(s, t), r) <=> Before(s, r) /\ Before(t, r)
<1>1. /\ DOMAIN (s \o t) = 1 .. Len(s) + Len(t)
      /\ DOMAIN s = 1 .. Len(s) /\ DOMAIN t = 1 .. Len(t) /\ Len(s) \in Nat /\ Len(t) \in Nat
      /\ \A j \in 1 .. Len(s) : (s \o t)[j] = s[j]
      /\ \A j \in 1 .. Len(t) : (s \o t)[Len(s) + j] = t[j]
      /\ \A j \in 1 .. Len(s) + Len(t) : j > Len(s) => (s \o t)[j] = t[j - Len(s)]
  OBVIOUS
<1>2. Before(s \o t, r) => Before(s, r)
  BY <1>1 DEF Before
<1>3. Before(s \o t, r) => Before(t, r)
  <2>1. \A j \in DOMAIN t : Len(s) + j \in DOMAIN (s \o t)
    BY <1>1
  <2> QED BY <1>1, <2>1 DEF Before
<1>4. Before(s, r) /\ Before(t, r) => Before(s \o t, r)
  BY <1>1 DEF Before
<1> QED BY <1>2, <1>3, <1>4 DEF Cat

LEMMA CatType ==
  ASSUME NEW s \in Seq(Byte), NEW t \in Seq(Byte)
  PROVE  Cat(s, t) \in Seq(Byte)
  BY DEF Cat

LEMMA CatEmpty == ASSUME NEW s \in Seq(Byte) PROVE Cat(s, <<>>) = s
  BY DEF Cat

LEMMA Assoc ==
  ASSUME NEW s \in Seq(Byte), NEW t \in Seq(Byte), NEW r \in Seq(Byte)
  PROVE  Cat(Cat(s, t), r) = Cat(s, Cat(t, r))
  BY DEF Cat

\* Bytes that are lost leave the others in order.
LEMMA DropInOrder ==
  ASSUME NEW c, NEW n, NEW s \in Seq(Byte), NEW t \in Seq(Byte), NEW r \in Seq(Byte),
         InOrder(c, n, Cat(Cat(s, t), r))
  PROVE  InOrder(c, n, Cat(s, r))
<1>1. Cat(s, t) \in Seq(Byte)
  BY CatType
<1>2. InOrder(c, n, Cat(s, t)) /\ InOrder(c, n, r) /\ Before(Cat(s, t), r)
  BY <1>1, ConcatInOrder
<1> QED BY <1>2, ConcatInOrder, ConcatBefore

\* A prefix and the rest.
LEMMA Cut ==
  ASSUME NEW s \in Seq(Byte), NEW n \in 0 .. Len(s)
  PROVE  /\ SubSeq(s, 1, n) \in Seq(Byte) /\ SubSeq(s, n + 1, Len(s)) \in Seq(Byte)
         /\ s = Cat(SubSeq(s, 1, n), SubSeq(s, n + 1, Len(s)))
<1>1. /\ SubSeq(s, 1, n) \in Seq(Byte) /\ Len(SubSeq(s, 1, n)) = n
      /\ \A j \in 1 .. n : SubSeq(s, 1, n)[j] = s[j]
  OBVIOUS
<1>2. /\ SubSeq(s, n + 1, Len(s)) \in Seq(Byte) /\ Len(SubSeq(s, n + 1, Len(s))) = Len(s) - n
      /\ \A j \in 1 .. Len(s) - n : SubSeq(s, n + 1, Len(s))[j] = s[n + j]
  OBVIOUS
<1> DEFINE p == SubSeq(s, 1, n)
           r == SubSeq(s, n + 1, Len(s))
<1> HIDE DEF p, r
<1>3. p \in Seq(Byte) /\ r \in Seq(Byte) /\ Len(p) = n /\ Len(r) = Len(s) - n /\ Len(s) \in Nat
  BY <1>1, <1>2 DEF p, r
<1>4. p \o r \in Seq(Byte) /\ Len(p \o r) = Len(s)
  BY <1>3
<1>5. ASSUME NEW j \in 1 .. Len(s) PROVE (p \o r)[j] = s[j]
  <2>1. CASE j <= n
    BY <1>1, <1>3, <2>1 DEF p
  <2>2. CASE j > n
    <3>1. (p \o r)[j] = r[j - n] /\ j - n \in 1 .. Len(s) - n
      BY <1>3, <2>2
    <3>2. r[j - n] = s[n + (j - n)]
      BY <1>2, <3>1 DEF r
    <3> QED BY <3>1, <3>2, <1>3
  <2> QED BY <2>1, <2>2, <1>3
<1>6. s = p \o r
  BY <1>4, <1>5, SeqEqual
<1> QED BY <1>1, <1>2, <1>6 DEF p, r, Cat

LEMMA CutInTwo ==
  ASSUME NEW s \in Seq(Byte), NEW n \in 0 .. Len(s)
  PROVE  \E p, r \in Seq(Byte) : /\ p = SubSeq(s, 1, n) /\ r = SubSeq(s, n + 1, Len(s))
                                 /\ s = Cat(p, r)
  BY Cut, Zenon

-----------------------------------------------------------------------------
(* Types and sockets.                                                      *)

USE SizesAssumption

LEMMA InitInv == ASSUME Init PROVE Inv
<1>1. Types /\ Sockets /\ Buffers
  BY DEF Init, Types, Process, Sockets, Buffers
<1>2. ASSUME NEW c \in Client PROVE InOrder(c, cli[c].sent, All(c))
  <2>1. cli[c].got = <<>> /\ down[c] = <<>> /\ up[c] = <<>> /\ FibersOf(c) = {}
    BY DEF Init, FibersOf
  <2>2. All(c) = <<>>
    BY <2>1 DEF All, Held, Cat
  <2> QED BY <2>2 DEF InOrder
<1> QED BY <1>1, <1>2 DEF Inv

\* A fiber that has not ended works on a client's socket.
LEMMA WorksOn ==
  ASSUME Types, Sockets, NEW i \in DOMAIN fiber, fiber[i].at # "over"
  PROVE  /\ Fd(i) \in Client /\ i \in DOMAIN pfd /\ i \in 1 .. Len(pfd)
         /\ fiber[i].buf \in Seq(Byte)
         /\ fiber[i] \in Worker
<1>1. i \in DOMAIN pfd /\ i \in 1 .. Len(pfd)
  BY DEF Types
<1>2. pfd[i] \in Client \cup {Null} /\ pfd[i] # Null
  BY <1>1 DEF Types, Sockets
<1>3. fiber[i] \in Worker
  BY DEF Types
<1>4. fiber[i].buf \in Seq(Byte)
  BY <1>3 DEF Worker
<1> QED BY <1>1, <1>2, <1>3, <1>4 DEF Fd

LEMMA TypesStep == ASSUME Types, Sockets, [Next]_vars PROVE Types'
<1>0. \A c \in Client : cli[c] \in Process /\ cli[c].sent \in Nat /\ cli[c].got \in Seq(Byte)
  BY DEF Types, Process
<1>c. \A c \in Client : cli[c].lines \in Nat
  BY DEF Types, Process
<1>a. ASSUME NEW c \in Client, NEW p \in Process, cli' = [cli EXCEPT ![c] = p]
      PROVE  cli' \in [Client -> Process]
  BY <1>a DEF Types
<1>b. ASSUME NEW i \in DOMAIN fiber, NEW w \in Worker, fiber' = [fiber EXCEPT ![i] = w]
      PROVE  fiber' \in Seq(Worker) /\ Len(fiber') = Len(fiber)
  BY <1>b DEF Types
<1>1. CASE Accept
  <2>1. Head(waiting) \in Client /\ Tail(waiting) \in Seq(Client)
    BY <1>1 DEF Accept, Types
  <2>2. [at |-> "created", buf |-> <<>>] \in Worker
    BY DEF Worker
  <2>3. fiber' \in Seq(Worker) /\ pfd' \in Seq(Client \cup {Null}) /\ Len(fiber') = Len(pfd')
    BY <1>1, <2>1, <2>2 DEF Accept, Types
  <2> QED BY <1>1, <2>1, <2>3 DEF Accept, Types
<1>2. CASE AcceptFails
  <2>1. down' \in [Client -> Seq(Byte)]
    <3>1. down' = down \/ down' = [c \in Client |-> <<>>]
      BY <1>2 DEF AcceptFails
    <3>2. [c \in Client |-> <<>>] \in [Client -> Seq(Byte)]
      OBVIOUS
    <3> QED BY <3>1, <3>2 DEF Types
  <2>2. waiting' \in Seq(Client)
    BY <1>2 DEF AcceptFails
  <2> QED BY <1>2, <2>1, <2>2 DEF AcceptFails, Types
<1>3. ASSUME NEW i \in DOMAIN fiber, FiberStep(i) PROVE Types'
  <2>1. CASE FiberStart(i)
    <3>1. [fiber[i] EXCEPT !.at = "recv"] \in Worker
      BY <2>1, WorksOn DEF FiberStart, Worker
    <3>2. fiber' = [fiber EXCEPT ![i] = [fiber[i] EXCEPT !.at = "recv"]]
      BY <2>1 DEF FiberStart
    <3>3. fiber' \in Seq(Worker) /\ Len(fiber') = Len(fiber)
      BY <1>b, <3>1, <3>2
    <3> QED BY <2>1, <3>3 DEF FiberStart, Types
  <2>2. CASE FiberRecv(i)
    <3>1. Fd(i) \in Client /\ up[Fd(i)] \in Seq(Byte)
      BY <2>2, WorksOn DEF FiberRecv, Types
    <3>3. PICK n \in 1..Least(BufSize, Len(up[Fd(i)])) :
            /\ fiber' = [fiber EXCEPT ![i] = AfterRecv(SubSeq(up[Fd(i)], 1, n))]
            /\ up' = [up EXCEPT ![Fd(i)] = SubSeq(@, n + 1, Len(@))]
      BY <2>2 DEF FiberRecv
    <3>4. n \in 0 .. Len(up[Fd(i)])
      BY <3>1, <3>3 DEF Least
    <3>5. /\ SubSeq(up[Fd(i)], 1, n) \in Seq(Byte)
          /\ SubSeq(up[Fd(i)], n + 1, Len(up[Fd(i)])) \in Seq(Byte)
      BY <3>1, <3>4, Cut
    <3>6. AfterRecv(SubSeq(up[Fd(i)], 1, n)) \in Worker
      BY <3>5 DEF AfterRecv, Worker
    <3>7. fiber' \in Seq(Worker) /\ Len(fiber') = Len(fiber)
      BY <1>b, <3>3, <3>6
    <3>8. up' \in [Client -> Seq(Byte)]
      BY <3>1, <3>3, <3>5 DEF Types
    <3> QED BY <2>2, <3>7, <3>8 DEF FiberRecv, Types
  <2>3. CASE FiberSend(i)
    <3>1. Fd(i) \in Client /\ fiber[i].buf \in Seq(Byte)
      BY <2>3, WorksOn DEF FiberSend
    <3>2. PICK n : n = Least(Len(fiber[i].buf), Room - Len(down[Fd(i)]))
      OBVIOUS
    <3>3. /\ down' = [down EXCEPT ![Fd(i)] = @ \o SubSeq(fiber[i].buf, 1, n)]
          /\ fiber' = [fiber EXCEPT ![i] = AfterSend(i)]
          /\ Len(down[Fd(i)]) < Room
      BY <2>3, <3>2 DEF FiberSend
    <3>4. n \in 0 .. Len(fiber[i].buf) /\ down[Fd(i)] \in Seq(Byte)
      <4>1. down[Fd(i)] \in Seq(Byte)
        BY <3>1 DEF Types
      <4>2. Len(fiber[i].buf) \in Nat /\ Room - Len(down[Fd(i)]) \in Nat
        BY <3>1, <3>3, <4>1
      <4> QED BY <3>2, <4>1, <4>2 DEF Least
    <3>5. SubSeq(fiber[i].buf, 1, n) \in Seq(Byte)
      BY <3>1, <3>4, Cut
    <3>6. AfterSend(i) \in Worker
      BY DEF AfterSend, Worker
    <3>7. fiber' \in Seq(Worker) /\ Len(fiber') = Len(fiber)
      BY <1>b, <3>3, <3>6
    <3>8. down' \in [Client -> Seq(Byte)]
      BY <3>1, <3>3, <3>4, <3>5 DEF Types
    <3> QED BY <2>3, <3>7, <3>8 DEF FiberSend, Types
  <2>4. CASE FiberEnd(i)
    <3>1. [at |-> "over", buf |-> <<>>] \in Worker
      BY DEF Worker
    <3>2. fiber' = [fiber EXCEPT ![i] = [at |-> "over", buf |-> <<>>]]
      BY <2>4 DEF FiberEnd, FiberClose
    <3>3. fiber' \in Seq(Worker) /\ Len(fiber') = Len(fiber)
      BY <1>b, <3>1, <3>2
    <3>4. pfd' \in Seq(Client \cup {Null}) /\ Len(pfd') = Len(pfd)
      BY <2>4 DEF FiberEnd, FiberClose, Types
    <3> QED BY <2>4, <3>3, <3>4 DEF FiberEnd, FiberClose, OpenWithout, Types
  <2> QED BY <1>3, <2>1, <2>2, <2>3, <2>4 DEF FiberStep
<1>4. ASSUME NEW c \in Client, Connect(c) PROVE Types'
  <2>1. \A at \in {"send", "gone"} : [cli[c] EXCEPT !.at = at] \in Process
    BY <1>0 DEF Process
  <2>2. \E at \in {"send", "gone"} : cli' = [cli EXCEPT ![c] = [cli[c] EXCEPT !.at = at]]
    BY <1>4 DEF Connect
  <2>3. cli' \in [Client -> Process]
    BY <1>a, <2>1, <2>2
  <2>4. waiting' \in Seq(Client)
    <3>1. waiting' = Append(waiting, c) \/ waiting' = waiting
      BY <1>4 DEF Connect
    <3>2. waiting \in Seq(Client)
      BY DEF Types
    <3> QED BY <3>1, <3>2
  <2> QED BY <1>4, <2>3, <2>4 DEF Connect, Types
<1>5. ASSUME NEW c \in Client, Send(c) PROVE Types'
  <2>1. PICK n : n = Least(BufSize, Room - Len(up[c]))
    OBVIOUS
  <2>2. /\ up' = [up EXCEPT ![c] = @ \o [k \in 1..n |-> <<c, cli[c].sent + k>>]]
        /\ cli' = [cli EXCEPT ![c].at = "recv", ![c].sent = @ + n, ![c].lines = @ + 1]
        /\ Len(up[c]) < Room
    BY <1>5, <2>1 DEF Send
  <2>3. n \in Nat /\ up[c] \in Seq(Byte)
    <3>1. up[c] \in Seq(Byte)
      BY DEF Types
    <3>2. Room - Len(up[c]) \in Nat
      BY <2>2, <3>1
    <3> QED BY <2>1, <3>1, <3>2 DEF Least
  <2>4. [k \in 1..n |-> <<c, cli[c].sent + k>>] \in Seq(Byte)
    BY <1>0, <2>3 DEF Byte
  <2>5. up' \in [Client -> Seq(Byte)]
    BY <2>2, <2>3, <2>4 DEF Types
  <2>6. cli' \in [Client -> Process]
    <3>1. PICK p : p = [cli[c] EXCEPT !.at = "recv", !.sent = @ + n, !.lines = @ + 1]
      OBVIOUS
    <3>2. p \in Process
      <4>1. cli[c].sent + n \in Nat /\ cli[c].lines + 1 \in Nat
        BY <1>0, <1>c, <2>3
      <4>2. \A x, y \in Nat : [cli[c] EXCEPT !.at = "recv", !.sent = x, !.lines = y] \in Process
        BY <1>0 DEF Process
      <4>3. p = [cli[c] EXCEPT !.at = "recv", !.sent = cli[c].sent + n, !.lines = cli[c].lines + 1]
        BY <3>1
      <4> QED BY <4>1, <4>2, <4>3
    <3>3. cli' = [cli EXCEPT ![c] = p]
      BY <2>2, <3>1 DEF Types, Process
    <3> QED BY <1>a, <3>2, <3>3
  <2> QED BY <1>5, <2>5, <2>6 DEF Send, Types
<1>6. ASSUME NEW c \in Client, Recv(c) PROVE Types'
  <2>1. PICK n \in 1..Least(BufSize, Len(down[c])) :
          /\ cli' = [cli EXCEPT ![c].at = "send", ![c].got = @ \o SubSeq(down[c], 1, n)]
          /\ down' = [down EXCEPT ![c] = SubSeq(@, n + 1, Len(@))]
    BY <1>6 DEF Recv
  <2>2. n \in 0 .. Len(down[c]) /\ down[c] \in Seq(Byte)
    <3>1. down[c] \in Seq(Byte)
      BY DEF Types
    <3> QED BY <2>1, <3>1 DEF Least
  <2>3. SubSeq(down[c], 1, n) \in Seq(Byte) /\ SubSeq(down[c], n + 1, Len(down[c])) \in Seq(Byte)
    BY <2>2, Cut
  <2>4. down' \in [Client -> Seq(Byte)]
    BY <2>1, <2>2, <2>3 DEF Types
  <2>5. cli' \in [Client -> Process]
    <3>1. PICK p : p = [cli[c] EXCEPT !.at = "send", !.got = @ \o SubSeq(down[c], 1, n)]
      OBVIOUS
    <3>2. cli[c].got \o SubSeq(down[c], 1, n) \in Seq(Byte)
      BY <1>0, <2>3
    <3>3. p \in Process
      BY <1>0, <3>1, <3>2 DEF Process
    <3>4. cli' = [cli EXCEPT ![c] = p]
      BY <2>1, <3>1 DEF Types, Process
    <3> QED BY <1>a, <3>3, <3>4
  <2> QED BY <1>6, <2>4, <2>5 DEF Recv, Types
<1>7. ASSUME NEW c \in Client, Fail(c) \/ Leave(c) PROVE Types'
  <2>1. [cli[c] EXCEPT !.at = "gone"] \in Process
    BY <1>0 DEF Process
  <2>2. cli' = [cli EXCEPT ![c] = [cli[c] EXCEPT !.at = "gone"]]
    BY <1>7 DEF Fail, Leave
  <2>3. cli' \in [Client -> Process]
    BY <1>a, <2>1, <2>2
  <2> QED BY <1>7, <2>3 DEF Fail, Leave, Types
<1>8. CASE UNCHANGED vars
  BY <1>8 DEF vars, Types
<1> QED BY <1>1, <1>2, <1>3, <1>4, <1>5, <1>6, <1>7, <1>8 DEF Next

\* Steps of a client that is connected, and of the streams, leave the sockets alone.
LEMMA SocketsKept ==
  ASSUME Types, Sockets, UNCHANGED <<waiting, accepting, open, pfd>>,
         \A c \in Client : cli[c].at # "connect" => cli'[c].at # "connect",
         Len(fiber') = Len(fiber), \A i \in DOMAIN pfd : fiber'[i].at = "over" <=> fiber[i].at = "over"
  PROVE  Sockets'
<1>1. \A i \in DOMAIN waiting : waiting[i] \in Client
  BY DEF Types
<1>2. \A i \in DOMAIN pfd : pfd[i] # Null => pfd[i] \in Client
  BY DEF Types
<1> QED BY <1>1, <1>2 DEF Sockets

\* What an update of a client's fields makes of its state.
LEMMA AtIs ==
  ASSUME Types, NEW c \in Client, NEW at
  PROVE  /\ [cli EXCEPT ![c].at = at][c].at = at
         /\ \A d \in Client : d # c => [cli EXCEPT ![c].at = at][d] = cli[d]
  BY DEF Types, Process

LEMMA SocketsStep == ASSUME Types, Sockets, [Next]_vars PROVE Sockets'
<1>1. CASE Accept
  <2>1. PICK w : w = Head(waiting)
    OBVIOUS
  <2>2. /\ waiting # <<>> /\ accepting /\ w = waiting[1] /\ 1 \in DOMAIN waiting /\ w \in Client
        /\ pfd' = Append(pfd, w) /\ fiber' = Append(fiber, [at |-> "created", buf |-> <<>>])
        /\ open' = open \cup {w} /\ cli' = cli /\ accepting' = accepting
        /\ \A j \in DOMAIN waiting' : j + 1 \in DOMAIN waiting /\ waiting'[j] = waiting[j + 1]
    BY <1>1, <2>1 DEF Accept, Types
  <2>3. /\ DOMAIN pfd = 1 .. Len(pfd) /\ Len(pfd) \in Nat /\ DOMAIN pfd' = 1 .. Len(pfd) + 1
        /\ pfd'[Len(pfd) + 1] = w /\ fiber'[Len(pfd) + 1].at = "created"
        /\ \A i \in DOMAIN pfd : pfd'[i] = pfd[i] /\ fiber'[i] = fiber[i]
    BY <2>2 DEF Types
  <2>4. \A i \in DOMAIN pfd' : i \in DOMAIN pfd \/ i = Len(pfd) + 1
    BY <2>3
  <2>5. \A i \in DOMAIN pfd : pfd[i] # w
    BY <2>2 DEF Sockets
  <2>6. (\A i \in DOMAIN waiting : cli[waiting[i]].at # "connect")'
    BY <2>2 DEF Sockets
  <2>7. (\A i, j \in DOMAIN waiting : waiting[i] = waiting[j] => i = j)'
    <3>1. ASSUME NEW i \in DOMAIN waiting', NEW j \in DOMAIN waiting', waiting'[i] = waiting'[j]
          PROVE  i = j
      <4>1. i + 1 = j + 1 /\ i \in Int /\ j \in Int
        <5>1. i + 1 = j + 1
          BY <2>2, <3>1 DEF Sockets
        <5>2. waiting' \in Seq(Client)
          BY <1>1, TypesStep DEF Types
        <5> QED BY <5>1, <5>2
      <4> QED BY <4>1
    <3> QED BY <3>1
  <2>8. (\A i \in DOMAIN pfd : pfd[i] # Null => cli[pfd[i]].at # "connect")'
    <3>1. cli[w].at # "connect"
      BY <2>2 DEF Sockets
    <3> QED BY <2>2, <2>3, <2>4, <3>1 DEF Sockets
  <2>9. (\A i \in DOMAIN pfd, j \in DOMAIN waiting : pfd[i] # waiting[j])'
    <3>1. ASSUME NEW j \in DOMAIN waiting' PROVE waiting'[j] # w
      <4>1. j + 1 # 1
        <5>1. waiting' \in Seq(Client)
          BY TypesStep DEF Types
        <5>2. j \in Nat /\ j > 0
          BY <5>1
        <5> QED BY <5>2
      <4> QED BY <2>2, <4>1 DEF Sockets
    <3> QED BY <2>2, <2>3, <2>4, <3>1 DEF Sockets
  <2>10. (\A i, j \in DOMAIN pfd : pfd[i] # Null /\ pfd[i] = pfd[j] => i = j)'
    BY <2>3, <2>4, <2>5 DEF Sockets
  <2>11. (\A i \in DOMAIN pfd : pfd[i] = Null <=> fiber[i].at = "over")'
    <3>1. ASSUME NEW i \in DOMAIN pfd' PROVE pfd'[i] = Null <=> fiber'[i].at = "over"
      <4>1. CASE i \in DOMAIN pfd
        <5>1. pfd'[i] = pfd[i] /\ fiber'[i] = fiber[i]
          BY <2>3, <4>1
        <5> QED BY <4>1, <5>1 DEF Sockets
      <4>2. CASE i = Len(pfd) + 1
        <5>1. pfd'[i] # Null /\ fiber'[i].at # "over"
          BY <2>2, <2>3, <4>2
        <5> QED BY <5>1
      <4> QED BY <2>4, <4>1, <4>2
    <3> QED BY <3>1
  <2>12. (accepting => \A i \in DOMAIN pfd : pfd[i] # Null => pfd[i] \in open)'
    BY <2>2, <2>3, <2>4 DEF Sockets
  <2>13. (accepting => \A c \in open : \E i \in DOMAIN pfd : pfd[i] = c)'
    <3>1. ASSUME NEW c \in open' PROVE \E i \in DOMAIN pfd' : pfd'[i] = c
      <4>1. CASE c = w
        <5>1. Len(pfd) + 1 \in DOMAIN pfd'
          BY <2>3
        <5> QED BY <2>3, <4>1, <5>1
      <4>2. CASE c \in open
        <5>1. PICK i \in DOMAIN pfd : pfd[i] = c
          BY <2>2, <4>2 DEF Sockets
        <5>2. i \in DOMAIN pfd'
          BY <2>3
        <5> QED BY <2>3, <5>1, <5>2
      <4> QED BY <2>2, <4>1, <4>2
    <3> QED BY <3>1
  <2> QED BY <2>6, <2>7, <2>8, <2>9, <2>10, <2>11, <2>12, <2>13 DEF Sockets
<1>2. CASE AcceptFails
  BY <1>2 DEF AcceptFails, Sockets
<1>3. ASSUME NEW i \in DOMAIN fiber, FiberStart(i) \/ FiberRecv(i) \/ FiberSend(i) PROVE Sockets'
  <2>1. UNCHANGED <<cli, waiting, accepting, open, pfd>>
    BY <1>3 DEF FiberStart, FiberRecv, FiberSend
  <2>2. fiber[i].at # "over"
    BY <1>3 DEF FiberStart, FiberRecv, FiberSend
  <2>3. \E new : fiber' = [fiber EXCEPT ![i] = new] /\ new.at \in {"recv", "send"}
    <3>1. CASE FiberStart(i)
      <4>1. fiber[i] \in Worker
        BY DEF Types
      <4>2. fiber' = [fiber EXCEPT ![i] = [fiber[i] EXCEPT !.at = "recv"]]
        BY <3>1 DEF FiberStart
      <4>3. [fiber[i] EXCEPT !.at = "recv"].at = "recv"
        BY <4>1 DEF Worker
      <4> QED BY <4>2, <4>3
    <3>2. CASE FiberRecv(i)
      BY <3>2 DEF FiberRecv, AfterRecv
    <3>3. CASE FiberSend(i)
      <4>1. fiber' = [fiber EXCEPT ![i] = AfterSend(i)]
        BY <3>3 DEF FiberSend
      <4>2. AfterSend(i).at \in {"recv", "send"}
        BY DEF AfterSend
      <4> QED BY <4>1, <4>2
    <3> QED BY <1>3, <3>1, <3>2, <3>3
  <2>4. Len(fiber') = Len(fiber) /\ \A k \in DOMAIN pfd : fiber'[k].at = "over" <=> fiber[k].at = "over"
    BY <2>2, <2>3 DEF Types
  <2> QED BY <2>1, <2>4, SocketsKept
<1>4. ASSUME NEW i \in DOMAIN fiber, FiberEnd(i) PROVE Sockets'
  <2>1. /\ UNCHANGED <<cli, waiting, accepting>> /\ accepting
        /\ open' = open \ {pfd[i]} /\ pfd' = [pfd EXCEPT ![i] = Null]
        /\ fiber' = [fiber EXCEPT ![i] = [at |-> "over", buf |-> <<>>]]
    BY <1>4 DEF FiberEnd, FiberClose, OpenWithout, Fd
  <2>2. i \in DOMAIN pfd /\ DOMAIN pfd' = DOMAIN pfd /\ pfd'[i] = Null /\ fiber'[i].at = "over"
        /\ pfd[i] # Null
        /\ \A k \in DOMAIN pfd : k # i => pfd'[k] = pfd[k] /\ fiber'[k] = fiber[k]
    <3>1. fiber[i].at # "over"
      BY <1>4 DEF FiberEnd
    <3> QED BY <2>1, <3>1, WorksOn DEF Types, Fd
  <2>3. \A j \in DOMAIN waiting : waiting[j] # Null
    BY DEF Types
  <2>4. /\ (\A k \in DOMAIN waiting : cli[waiting[k]].at # "connect")'
        /\ (\A k, j \in DOMAIN waiting : waiting[k] = waiting[j] => k = j)'
    BY <2>1 DEF Sockets
  <2>5. (\A k \in DOMAIN pfd : pfd[k] # Null => cli[pfd[k]].at # "connect")'
    BY <2>1, <2>2 DEF Sockets
  <2>6. (\A k \in DOMAIN pfd, j \in DOMAIN waiting : pfd[k] # waiting[j])'
    BY <2>1, <2>2, <2>3 DEF Sockets
  <2>7. (\A k, j \in DOMAIN pfd : pfd[k] # Null /\ pfd[k] = pfd[j] => k = j)'
    BY <2>2 DEF Sockets
  <2>8. (\A k \in DOMAIN pfd : pfd[k] = Null <=> fiber[k].at = "over")'
    BY <2>2 DEF Sockets
  <2>9. (accepting => \A k \in DOMAIN pfd : pfd[k] # Null => pfd[k] \in open)'
    BY <2>1, <2>2 DEF Sockets
  <2>10. (accepting => \A c \in open : \E k \in DOMAIN pfd : pfd[k] = c)'
    BY <2>1, <2>2 DEF Sockets
  <2> QED BY <2>4, <2>5, <2>6, <2>7, <2>8, <2>9, <2>10 DEF Sockets
<1>5. ASSUME NEW c \in Client, Connect(c) PROVE Sockets'
  <2>1. cli[c].at = "connect" /\ UNCHANGED <<accepting, open, pfd, fiber>>
    BY <1>5 DEF Connect
  <2>2. cli'[c].at # "connect" /\ \A d \in Client : d # c => cli'[d] = cli[d]
    <3>1. \E at \in {"send", "gone"} : cli' = [cli EXCEPT ![c].at = at]
      BY <1>5 DEF Connect
    <3> QED BY <3>1, AtIs
  <2>3. CASE ~accepting
    BY <1>5, <2>1, <2>2, <2>3, SocketsKept DEF Connect
  <2>4. CASE accepting
    <3>1. /\ waiting' = Append(waiting, c) /\ waiting \in Seq(Client)
          /\ \A k \in DOMAIN pfd : pfd[k] # c
          /\ \A k \in DOMAIN waiting : waiting[k] # c
      BY <1>5, <2>1, <2>4 DEF Connect, Sockets, Types
    <3>2. /\ DOMAIN waiting = 1 .. Len(waiting) /\ DOMAIN waiting' = 1 .. Len(waiting) + 1
          /\ Len(waiting) \in Nat /\ waiting'[Len(waiting) + 1] = c
          /\ \A k \in DOMAIN waiting : waiting'[k] = waiting[k] /\ waiting[k] \in Client
      BY <3>1
    <3>3. \A k \in DOMAIN waiting' : k \in DOMAIN waiting \/ k = Len(waiting) + 1
      BY <3>2
    <3>4. \A k \in DOMAIN pfd : pfd[k] # Null => pfd[k] \in Client
      BY DEF Types
    <3>5. (\A k \in DOMAIN waiting : cli[waiting[k]].at # "connect")'
      BY <2>2, <3>1, <3>2, <3>3 DEF Sockets
    <3>6. (\A k, j \in DOMAIN waiting : waiting[k] = waiting[j] => k = j)'
      BY <3>1, <3>2, <3>3 DEF Sockets
    <3>7. (\A k \in DOMAIN pfd : pfd[k] # Null => cli[pfd[k]].at # "connect")'
      BY <2>1, <2>2, <3>4 DEF Sockets
    <3>8. (\A k \in DOMAIN pfd, j \in DOMAIN waiting : pfd[k] # waiting[j])'
      BY <2>1, <3>1, <3>2, <3>3 DEF Sockets
    <3> QED BY <2>1, <3>5, <3>6, <3>7, <3>8 DEF Sockets
  <2> QED BY <2>3, <2>4
<1>6. ASSUME NEW c \in Client, Send(c) \/ Recv(c) \/ Fail(c) \/ Leave(c) PROVE Sockets'
  <2>1. UNCHANGED <<waiting, accepting, open, pfd, fiber>>
    BY <1>6 DEF Send, Recv, Fail, Leave
  <2>2. cli'[c].at # "connect"
    <3>1. CASE Fail(c) \/ Leave(c)
      <4>1. cli' = [cli EXCEPT ![c].at = "gone"]
        BY <3>1 DEF Fail, Leave
      <4> QED BY <4>1, AtIs
    <3>2. CASE Send(c)
      <4>1. PICK n, m : cli' = [cli EXCEPT ![c].at = "recv", ![c].sent = n, ![c].lines = m]
        BY <3>2 DEF Send
      <4>2. cli'[c] = [cli[c] EXCEPT !.at = "recv", !.sent = n, !.lines = m]
        BY <4>1 DEF Types
      <4> QED BY <4>2 DEF Types, Process
    <3>3. CASE Recv(c)
      <4>1. PICK g : cli' = [cli EXCEPT ![c].at = "send", ![c].got = g]
        BY <3>3 DEF Recv
      <4>2. cli'[c] = [cli[c] EXCEPT !.at = "send", !.got = g]
        BY <4>1 DEF Types
      <4> QED BY <4>2 DEF Types, Process
    <3> QED BY <1>6, <3>1, <3>2, <3>3
  <2>3. \A d \in Client : d # c => cli'[d] = cli[d]
    BY <1>6 DEF Send, Recv, Fail, Leave, Types
  <2> QED BY <2>1, <2>2, <2>3, SocketsKept
<1>7. CASE UNCHANGED vars
  BY <1>7, SocketsKept DEF vars
<1> QED BY <1>1, <1>2, <1>3, <1>4, <1>5, <1>6, <1>7 DEF Next, FiberStep

LEMMA BuffersStep == ASSUME Types, Sockets, Buffers, [Next]_vars PROVE Buffers'
<1>1. CASE Accept
  <2>1. fiber' = Append(fiber, [at |-> "created", buf |-> <<>>]) /\ fiber \in Seq(Worker)
    BY <1>1 DEF Accept, Types
  <2>2. \A i \in DOMAIN fiber' : (i \in DOMAIN fiber /\ fiber'[i] = fiber[i]) \/ fiber'[i].buf = <<>>
    BY <2>1
  <2> QED BY <2>2 DEF Buffers
<1>2. ASSUME NEW i \in DOMAIN fiber, FiberStart(i) PROVE Buffers'
  BY <1>2 DEF FiberStart, Buffers, Types
<1>3. ASSUME NEW i \in DOMAIN fiber, FiberRecv(i) PROVE Buffers'
  BY <1>3 DEF FiberRecv, AfterRecv, Buffers, Types
<1>4. ASSUME NEW i \in DOMAIN fiber, FiberSend(i) PROVE Buffers'
  BY <1>4 DEF FiberSend, AfterSend, Buffers, Types
<1>5. ASSUME NEW i \in DOMAIN fiber, FiberEnd(i) PROVE Buffers'
  BY <1>5 DEF FiberEnd, FiberClose, Buffers, Types
<1>6. ASSUME UNCHANGED fiber PROVE Buffers'
  BY <1>6 DEF Buffers
<1>7. ASSUME NEW c \in Client, Connect(c) \/ Send(c) \/ Recv(c) \/ Fail(c) \/ Leave(c)
      PROVE  UNCHANGED fiber
  BY <1>7 DEF Connect, Send, Recv, Fail, Leave
<1>8. CASE AcceptFails \/ UNCHANGED vars
  BY <1>6, <1>8 DEF AcceptFails, vars
<1> QED BY <1>1, <1>2, <1>3, <1>4, <1>5, <1>6, <1>7, <1>8 DEF Next, FiberStep


-----------------------------------------------------------------------------
(* Order.                                                                  *)

LEMMA ByteAt ==
  ASSUME NEW s \in Seq(Byte), NEW j \in DOMAIN s PROVE s[j][1] \in Client /\ s[j][2] \in Nat
  BY DEF Byte

\* A client's fiber is the one whose buffer is between its streams.
LEMMA HeldIs ==
  ASSUME Types, Sockets, NEW c \in Client
  PROVE  /\ \A i \in FibersOf(c) : FibersOf(c) = {i} /\ Held(c) = fiber[i].buf
         /\ FibersOf(c) = {} => Held(c) = <<>>
<1>1. ASSUME NEW i \in FibersOf(c), NEW j \in FibersOf(c) PROVE i = j
  <2>1. i \in DOMAIN pfd /\ j \in DOMAIN pfd /\ pfd[i] = c /\ pfd[j] = c /\ c # Null
    BY DEF FibersOf, Fd, Types
  <2> QED BY <2>1 DEF Sockets
<1>2. ASSUME NEW i \in FibersOf(c) PROVE FibersOf(c) = {i} /\ Held(c) = fiber[i].buf
  <2>1. FibersOf(c) = {i}
    BY <1>1
  <2>2. (CHOOSE k \in FibersOf(c) : TRUE) = i
    BY <2>1
  <2> QED BY <2>1, <2>2 DEF Held
<1>3. FibersOf(c) = {} => Held(c) = <<>>
  BY DEF Held
<1> QED BY <1>2, <1>3

LEMMA PartTypes ==
  ASSUME Types, Sockets, NEW c \in Client
  PROVE  /\ cli[c].got \in Seq(Byte) /\ cli[c].sent \in Nat
         /\ down[c] \in Seq(Byte) /\ up[c] \in Seq(Byte) /\ Held(c) \in Seq(Byte)
<1>1. cli[c].got \in Seq(Byte) /\ cli[c].sent \in Nat /\ down[c] \in Seq(Byte) /\ up[c] \in Seq(Byte)
  BY DEF Types, Process
<1>2. CASE FibersOf(c) = {}
  <2>1. Held(c) = <<>>
    BY <1>2, HeldIs
  <2> QED BY <1>1, <2>1
<1>3. ASSUME NEW i \in FibersOf(c) PROVE Held(c) \in Seq(Byte)
  <2>1. fiber[i].buf \in Seq(Byte)
    BY WorksOn DEF FibersOf
  <2> QED BY <2>1, HeldIs
<1> QED BY <1>1, <1>2, <1>3

HeldByOne ==
  \A c \in Client : /\ \A i \in FibersOf(c) : FibersOf(c) = {i} /\ Held(c) = fiber[i].buf
                    /\ FibersOf(c) = {} => Held(c) = <<>>

LEMMA HoldsByOne == Types /\ Sockets => HeldByOne
  BY HeldIs DEF HeldByOne

LEMMA HeldNext ==
  ASSUME Types', Sockets', NEW c \in Client
  PROVE  /\ \A i \in FibersOf(c)' : FibersOf(c)' = {i} /\ Held(c)' = fiber'[i].buf
         /\ FibersOf(c)' = {} => Held(c)' = <<>>
<1>1. HeldByOne'
  BY HoldsByOne, PTL
<1> QED BY <1>1 DEF HeldByOne

\* A client whose fibers stay what they are.
LEMMA HeldKept ==
  ASSUME Types, Sockets, Types', Sockets', NEW c \in Client,
         FibersOf(c)' = FibersOf(c), \A i \in FibersOf(c) : fiber'[i].buf = fiber[i].buf
  PROVE  Held(c)' = Held(c)
<1>1. CASE FibersOf(c) = {}
  BY <1>1, HeldIs, HeldNext
<1>2. ASSUME NEW i \in FibersOf(c) PROVE Held(c)' = Held(c)
  BY HeldIs, HeldNext
<1> QED BY <1>1, <1>2

\* A step of a fiber that goes on with its socket.
LEMMA WorkerHeld ==
  ASSUME Types, Sockets, Types', Sockets', NEW i \in DOMAIN fiber, fiber[i].at # "over",
         NEW w, w.at # "over", fiber' = [fiber EXCEPT ![i] = w], UNCHANGED pfd
  PROVE  \A c \in Client : IF c = Fd(i) THEN Held(c) = fiber[i].buf /\ Held(c)' = w.buf
                           ELSE Held(c)' = Held(c)
<1>1. DOMAIN fiber' = DOMAIN fiber /\ fiber'[i] = w
      /\ \A k \in DOMAIN fiber : k # i => fiber'[k] = fiber[k]
  BY DEF Types
<1>2. \A c \in Client : FibersOf(c)' = FibersOf(c)
  BY <1>1 DEF FibersOf, Fd
<1>3. ASSUME NEW c \in Client, c = Fd(i) PROVE Held(c) = fiber[i].buf /\ Held(c)' = w.buf
  <2>1. i \in FibersOf(c)
    BY <1>3 DEF FibersOf
  <2>2. i \in FibersOf(c)'
    BY <1>2, <2>1
  <2>3. Held(c) = fiber[i].buf
    BY <2>1, HeldIs
  <2>4. Held(c)' = fiber'[i].buf
    BY <2>2, HeldNext
  <2> QED BY <1>1, <2>3, <2>4
<1>4. ASSUME NEW c \in Client, c # Fd(i) PROVE Held(c)' = Held(c)
  <2>1. i \notin FibersOf(c) /\ \A k \in FibersOf(c) : k \in DOMAIN fiber
    BY <1>4 DEF FibersOf
  <2>2. \A k \in FibersOf(c) : fiber'[k].buf = fiber[k].buf
    BY <1>1, <2>1
  <2> QED BY <1>2, <2>2, HeldKept
<1> QED BY <1>3, <1>4

LEMMA OrderKept ==
  ASSUME NEW c \in Client, Inv, cli'[c] = cli[c], down'[c] = down[c], up'[c] = up[c],
         Held(c)' = Held(c)
  PROVE  InOrder(c, cli'[c].sent, All(c)')
<1>1. All(c)' = All(c)
  BY DEF All
<1> QED BY <1>1 DEF Inv

LEMMA OrderStep ==
  ASSUME Inv, Types', Sockets', [Next]_vars, NEW c \in Client
  PROVE  InOrder(c, cli'[c].sent, All(c)')
<1>0. Types /\ Sockets /\ Buffers /\ InOrder(c, cli[c].sent, All(c))
  BY DEF Inv
<1>p. /\ cli[c].got \in Seq(Byte) /\ cli[c].sent \in Nat
      /\ down[c] \in Seq(Byte) /\ up[c] \in Seq(Byte) /\ Held(c) \in Seq(Byte)
  BY <1>0, PartTypes
<1>1. CASE Accept
  <2>1. PICK n : n = Len(fiber) + 1
    OBVIOUS
  <2>2. /\ n \in Nat /\ n \notin DOMAIN fiber /\ DOMAIN fiber' = DOMAIN fiber \cup {n}
        /\ fiber'[n] = [at |-> "created", buf |-> <<>>]
        /\ \A i \in DOMAIN fiber : fiber'[i] = fiber[i] /\ pfd'[i] = pfd[i]
    <3>1. PICK w : /\ pfd' = Append(pfd, w)
                   /\ fiber' = Append(fiber, [at |-> "created", buf |-> <<>>])
      BY <1>1 DEF Accept
    <3>2. fiber \in Seq(Worker) /\ pfd \in Seq(Client \cup {Null}) /\ Len(fiber) = Len(pfd)
      BY <1>0 DEF Types
    <3>3. /\ n \in Nat /\ DOMAIN fiber = 1 .. n - 1 /\ DOMAIN fiber' = 1 .. n
          /\ fiber'[n] = [at |-> "created", buf |-> <<>>]
      BY <2>1, <3>1, <3>2
    <3>4. \A i \in DOMAIN fiber : fiber'[i] = fiber[i] /\ pfd'[i] = pfd[i]
      BY <3>1, <3>2
    <3>5. n \notin 1 .. n - 1 /\ 1 .. n = (1 .. n - 1) \cup {n}
      <4>1. n > 0
        BY <2>1, <3>2
      <4> QED BY <3>3, <4>1
    <3> QED BY <3>3, <3>4, <3>5
  <2>3. FibersOf(c)' = FibersOf(c) \/ n \in FibersOf(c)'
    BY <2>2 DEF FibersOf, Fd
  <2>4. \A i \in FibersOf(c) : fiber'[i].buf = fiber[i].buf /\ i # n /\ i \in FibersOf(c)'
    BY <2>2 DEF FibersOf, Fd
  <2>5. CASE n \in FibersOf(c)'
    <3>1. Held(c)' = <<>> /\ FibersOf(c)' = {n}
      BY <2>2, <2>5, HeldNext
    <3>2. FibersOf(c) = {}
      BY <2>4, <3>1
    <3>3. Held(c)' = Held(c)
      BY <1>0, <3>1, <3>2, HeldIs
    <3> QED BY <1>1, <3>3, OrderKept DEF Accept
  <2>6. CASE FibersOf(c)' = FibersOf(c)
    <3>1. Held(c)' = Held(c)
      BY <1>0, <2>4, <2>6, HeldKept
    <3> QED BY <1>1, <3>1, OrderKept DEF Accept
  <2> QED BY <2>3, <2>5, <2>6
<1>2. CASE AcceptFails
  <2>1. Held(c)' = Held(c)
    BY <1>2 DEF AcceptFails, Held, FibersOf, Fd
  <2>2. CASE down' = down
    BY <1>2, <2>1, <2>2, OrderKept DEF AcceptFails
  <2>3. CASE down' = [d \in Client |-> <<>>]
    <3>1. /\ Cat(Held(c), up[c]) \in Seq(Byte)
          /\ All(c) = Cat(Cat(cli[c].got, down[c]), Cat(Held(c), up[c]))
      <4>1. Cat(Held(c), up[c]) \in Seq(Byte) /\ Cat(cli[c].got, down[c]) \in Seq(Byte)
        BY <1>p, CatType
      <4> QED BY <1>p, <4>1, Assoc DEF All
    <3>2. InOrder(c, cli[c].sent, Cat(cli[c].got, Cat(Held(c), up[c])))
      BY <1>0, <1>p, <3>1, DropInOrder
    <3>3. All(c)' = Cat(Cat(Cat(cli[c].got, <<>>), Held(c)), up[c])
      BY <1>2, <2>1, <2>3 DEF AcceptFails, All
    <3>4. Cat(cli[c].got, <<>>) = cli[c].got
      BY <1>p, CatEmpty
    <3>5. All(c)' = Cat(cli[c].got, Cat(Held(c), up[c]))
      BY <1>p, <3>3, <3>4, Assoc
    <3> QED BY <1>2, <3>2, <3>5 DEF AcceptFails
  <2> QED BY <1>2, <2>2, <2>3 DEF AcceptFails
<1>3. ASSUME NEW i \in DOMAIN fiber, FiberStart(i) PROVE InOrder(c, cli'[c].sent, All(c)')
  <2>1. /\ fiber' = [fiber EXCEPT ![i] = [fiber[i] EXCEPT !.at = "recv"]]
        /\ fiber[i].at = "created" /\ UNCHANGED <<cli, up, down, pfd>>
    BY <1>3 DEF FiberStart
  <2>2. /\ [fiber[i] EXCEPT !.at = "recv"].at # "over"
        /\ [fiber[i] EXCEPT !.at = "recv"].buf = fiber[i].buf
    BY <1>0, <2>1, WorksOn DEF Worker
  <2>3. PICK w : w = [fiber[i] EXCEPT !.at = "recv"]
    OBVIOUS
  <2>4. IF c = Fd(i) THEN Held(c) = fiber[i].buf /\ Held(c)' = w.buf ELSE Held(c)' = Held(c)
    BY <1>0, <2>1, <2>2, <2>3, WorkerHeld
  <2>5. Held(c)' = Held(c)
    BY <2>2, <2>3, <2>4
  <2> QED BY <2>1, <2>5, OrderKept
<1>4. ASSUME NEW i \in DOMAIN fiber, FiberRecv(i) PROVE InOrder(c, cli'[c].sent, All(c)')
  <2>1. /\ fiber[i].at = "recv" /\ fiber[i].buf = <<>> /\ Fd(i) \in Client
        /\ UNCHANGED <<cli, down, pfd>>
    BY <1>0, <1>4, WorksOn DEF FiberRecv, Buffers
  <2>2. PICK n \in 1..Least(BufSize, Len(up[Fd(i)])) :
          /\ fiber' = [fiber EXCEPT ![i] = AfterRecv(SubSeq(up[Fd(i)], 1, n))]
          /\ up' = [up EXCEPT ![Fd(i)] = SubSeq(@, n + 1, Len(@))]
    BY <1>4 DEF FiberRecv
  <2>3. AfterRecv(SubSeq(up[Fd(i)], 1, n)).at # "over"
        /\ AfterRecv(SubSeq(up[Fd(i)], 1, n)).buf = SubSeq(up[Fd(i)], 1, n)
    BY DEF AfterRecv
  <2>4. IF c = Fd(i) THEN Held(c) = <<>> /\ Held(c)' = SubSeq(up[Fd(i)], 1, n)
        ELSE Held(c)' = Held(c)
    <3>1. PICK w : w = AfterRecv(SubSeq(up[Fd(i)], 1, n))
      OBVIOUS
    <3>2. IF c = Fd(i) THEN Held(c) = fiber[i].buf /\ Held(c)' = w.buf ELSE Held(c)' = Held(c)
      BY <1>0, <2>1, <2>2, <2>3, <3>1, WorkerHeld
    <3> QED BY <2>1, <2>3, <3>1, <3>2
  <2>5. CASE c # Fd(i)
    <3>1. up'[c] = up[c]
      BY <2>2, <2>5, <1>0 DEF Types
    <3> QED BY <2>1, <2>4, <2>5, <3>1, OrderKept
  <2>6. CASE c = Fd(i)
    <3>1. n \in 0 .. Len(up[c])
      BY <1>p, <2>2, <2>6 DEF Least
    <3>2. PICK p \in Seq(Byte), r \in Seq(Byte) :
            p = SubSeq(up[c], 1, n) /\ r = SubSeq(up[c], n + 1, Len(up[c])) /\ up[c] = Cat(p, r)
      BY <1>p, <3>1, CutInTwo
    <3>3. up'[c] = r /\ Held(c)' = p /\ Held(c) = <<>>
      <4>1. up'[c] = SubSeq(up[c], n + 1, Len(up[c]))
        BY <1>0, <2>2, <2>6 DEF Types
      <4> QED BY <2>4, <2>6, <3>2, <4>1
    <3>4. All(c)' = Cat(Cat(Cat(cli[c].got, down[c]), p), r)
      BY <2>1, <3>3 DEF All
    <3>5. Cat(cli[c].got, down[c]) \in Seq(Byte)
      BY <1>p, CatType
    <3>6. All(c)' = Cat(Cat(cli[c].got, down[c]), up[c])
      <4>1. up[c] = Cat(p, r)
        BY <3>2
      <4> QED BY <3>4, <3>5, <4>1, Assoc
    <3>7. Cat(Cat(cli[c].got, down[c]), <<>>) = Cat(cli[c].got, down[c])
      BY <3>5, CatEmpty
    <3>8. All(c)' = All(c)
      BY <3>3, <3>6, <3>7 DEF All
    <3> QED BY <1>0, <2>1, <3>8
  <2> QED BY <2>5, <2>6
<1>5. ASSUME NEW i \in DOMAIN fiber, FiberSend(i) PROVE InOrder(c, cli'[c].sent, All(c)')
  <2>1. /\ fiber[i].at = "send" /\ Fd(i) \in Client /\ fiber[i].buf \in Seq(Byte)
        /\ UNCHANGED <<cli, up, pfd>> /\ fiber' = [fiber EXCEPT ![i] = AfterSend(i)]
        /\ Len(down[Fd(i)]) < Room
    BY <1>0, <1>5, WorksOn DEF FiberSend
  <2>2. PICK n : n = Least(Len(fiber[i].buf), Room - Len(down[Fd(i)]))
    OBVIOUS
  <2>3. down' = [down EXCEPT ![Fd(i)] = @ \o SubSeq(fiber[i].buf, 1, n)]
    BY <1>5, <2>2 DEF FiberSend
  <2>4. AfterSend(i).at # "over" /\ AfterSend(i).buf = <<>>
    BY DEF AfterSend
  <2>5. IF c = Fd(i) THEN Held(c) = fiber[i].buf /\ Held(c)' = <<>> ELSE Held(c)' = Held(c)
    <3>1. PICK w : w = AfterSend(i)
      OBVIOUS
    <3>2. IF c = Fd(i) THEN Held(c) = fiber[i].buf /\ Held(c)' = w.buf ELSE Held(c)' = Held(c)
      BY <1>0, <2>1, <2>4, <3>1, WorkerHeld
    <3> QED BY <2>4, <3>1, <3>2
  <2>6. CASE c # Fd(i)
    <3>1. down'[c] = down[c]
      BY <1>0, <2>3, <2>6 DEF Types
    <3> QED BY <2>1, <2>5, <2>6, <3>1, OrderKept
  <2>7. CASE c = Fd(i)
    <3>1. n \in 0 .. Len(fiber[i].buf)
      <4>1. Len(fiber[i].buf) \in Nat /\ Room - Len(down[c]) \in Nat
        BY <1>p, <2>1, <2>7
      <4> QED BY <2>2, <2>7, <4>1 DEF Least
    <3>2. PICK p \in Seq(Byte), r \in Seq(Byte) :
            p = SubSeq(fiber[i].buf, 1, n) /\ fiber[i].buf = Cat(p, r)
      BY <2>1, <3>1, CutInTwo
    <3>3. down'[c] = Cat(down[c], p) /\ Held(c)' = <<>> /\ Held(c) = Cat(p, r)
      <4>1. down'[c] = Cat(down[c], SubSeq(fiber[i].buf, 1, n))
        BY <1>0, <2>3, <2>7 DEF Types, Cat
      <4> QED BY <2>5, <2>7, <3>2, <4>1
    <3>4. PICK g : g = Cat(cli[c].got, down[c])
      OBVIOUS
    <3>5. g \in Seq(Byte) /\ Cat(g, p) \in Seq(Byte)
      BY <1>p, <3>4, CatType
    <3>6. All(c) = Cat(Cat(Cat(g, p), r), up[c])
      BY <3>3, <3>4, <3>5, Assoc DEF All
    <3>7. InOrder(c, cli[c].sent, Cat(Cat(g, p), up[c]))
      BY <1>0, <1>p, <3>5, <3>6, DropInOrder
    <3>8. All(c)' = Cat(Cat(Cat(cli[c].got, Cat(down[c], p)), <<>>), up[c])
      BY <2>1, <3>3 DEF All
    <3>9. Cat(cli[c].got, Cat(down[c], p)) = Cat(g, p)
      BY <1>p, <3>4, Assoc
    <3>10. Cat(Cat(g, p), <<>>) = Cat(g, p)
      BY <3>5, CatEmpty
    <3> QED BY <2>1, <3>7, <3>8, <3>9, <3>10
  <2> QED BY <2>6, <2>7
<1>6. ASSUME NEW i \in DOMAIN fiber, FiberEnd(i) PROVE InOrder(c, cli'[c].sent, All(c)')
  <2>1. /\ UNCHANGED <<cli, up, down>> /\ fiber[i].at # "over" /\ i \in DOMAIN pfd
        /\ fiber' = [fiber EXCEPT ![i] = [at |-> "over", buf |-> <<>>]]
        /\ pfd' = [pfd EXCEPT ![i] = Null]
    BY <1>0, <1>6, WorksOn DEF FiberEnd, FiberClose
  <2>2. /\ DOMAIN fiber' = DOMAIN fiber /\ fiber'[i].at = "over" /\ fiber'[i].buf = <<>>
        /\ \A k \in DOMAIN fiber : k # i => fiber'[k] = fiber[k] /\ pfd'[k] = pfd[k]
    BY <1>0, <2>1 DEF Types
  <2>3. CASE c # Fd(i)
    <3>1. i \notin FibersOf(c) /\ FibersOf(c)' = FibersOf(c)
      BY <2>2, <2>3 DEF FibersOf, Fd
    <3>2. \A k \in FibersOf(c) : fiber'[k].buf = fiber[k].buf
      BY <2>2, <3>1 DEF FibersOf
    <3>3. Held(c)' = Held(c)
      BY <1>0, <3>1, <3>2, HeldKept
    <3> QED BY <2>1, <3>3, OrderKept
  <2>4. CASE c = Fd(i)
    <3>1. i \in FibersOf(c)
      BY <2>1, <2>4 DEF FibersOf
    <3>2. FibersOf(c) = {i}
      BY <1>0, <3>1, HeldIs
    <3>3. FibersOf(c)' = {}
      BY <2>2, <3>2 DEF FibersOf, Fd
    <3>4. Held(c)' = <<>>
      BY <3>3, HeldNext
    <3>5. PICK g : g = Cat(cli[c].got, down[c])
      OBVIOUS
    <3>6. g \in Seq(Byte) /\ Cat(g, <<>>) = g
      BY <1>p, <3>5, CatType, CatEmpty
    <3>7. All(c) = Cat(Cat(g, Held(c)), up[c]) /\ All(c)' = Cat(Cat(g, <<>>), up[c])
      BY <2>1, <3>4, <3>5 DEF All
    <3>8. InOrder(c, cli[c].sent, Cat(g, up[c]))
      BY <1>0, <1>p, <3>6, <3>7, DropInOrder
    <3> QED BY <2>1, <3>6, <3>7, <3>8
  <2> QED BY <2>3, <2>4
<1>7. ASSUME UNCHANGED <<fiber, pfd>>, UNCHANGED <<up, down>>,
             cli'[c].sent = cli[c].sent, cli'[c].got = cli[c].got
      PROVE  InOrder(c, cli'[c].sent, All(c)')
  BY <1>0, <1>7 DEF All, Held, FibersOf, Fd
<1>8. ASSUME NEW d \in Client, Connect(d) \/ Fail(d) \/ Leave(d)
      PROVE  InOrder(c, cli'[c].sent, All(c)')
  <2>1. \E at \in {"send", "gone"} : cli' = [cli EXCEPT ![d] = [cli[d] EXCEPT !.at = at]]
    BY <1>8 DEF Connect, Fail, Leave
  <2>2. cli'[c].sent = cli[c].sent /\ cli'[c].got = cli[c].got
    <3>1. CASE d = c
      BY <1>0, <2>1, <3>1 DEF Types, Process
    <3>2. CASE d # c
      BY <1>0, <2>1, <3>2 DEF Types
    <3> QED BY <3>1, <3>2
  <2> QED BY <1>7, <1>8, <2>2 DEF Connect, Fail, Leave
<1>9. ASSUME NEW d \in Client, Send(d) PROVE InOrder(c, cli'[c].sent, All(c)')
  <2>1. PICK n : n = Least(BufSize, Room - Len(up[d]))
    OBVIOUS
  <2>2. PICK new : new = [k \in 1..n |-> <<d, cli[d].sent + k>>]
    OBVIOUS
  <2>3. /\ up' = [up EXCEPT ![d] = @ \o new]
        /\ cli' = [cli EXCEPT ![d].at = "recv", ![d].sent = @ + n, ![d].lines = @ + 1]
        /\ Len(up[d]) < Room /\ UNCHANGED <<down, pfd, fiber>>
    BY <1>9, <2>1, <2>2 DEF Send
  <2>4. Held(c)' = Held(c)
    BY <2>3 DEF Held, FibersOf, Fd
  <2>5. CASE d # c
    <3>1. cli'[c] = cli[c] /\ up'[c] = up[c]
      BY <1>0, <2>3, <2>5 DEF Types
    <3> QED BY <2>3, <2>4, <3>1, OrderKept
  <2>6. CASE d = c
    <3>1. Room - Len(up[c]) \in Nat
      BY <1>p, <2>3, <2>6
    <3>2. n \in Nat
      BY <2>1, <2>6, <3>1 DEF Least
    <3>3. /\ new \in Seq(Byte) /\ DOMAIN new = 1 .. n
          /\ \A k \in 1 .. n : new[k] = <<c, cli[c].sent + k>>
      <4>1. \A k \in 1 .. n : <<c, cli[c].sent + k>> \in Byte
        BY <1>p, <3>2 DEF Byte
      <4>2. new = [k \in 1 .. n |-> <<c, cli[c].sent + k>>]
        BY <2>2, <2>6
      <4> QED BY <3>2, <4>1, <4>2
    <3>4. /\ cli'[c].sent = cli[c].sent + n /\ cli'[c].got = cli[c].got
          /\ up'[c] = Cat(up[c], new)
      <4>1. cli'[c] = [cli[c] EXCEPT !.at = "recv", !.sent = @ + n, !.lines = @ + 1]
        BY <1>0, <2>3, <2>6 DEF Types
      <4> QED BY <1>0, <2>3, <2>6, <4>1 DEF Types, Process, Cat
    <3>5. PICK g : g = Cat(Cat(cli[c].got, down[c]), Held(c))
      OBVIOUS
    <3>6. g \in Seq(Byte) /\ All(c) = Cat(g, up[c]) /\ All(c) \in Seq(Byte)
      BY <1>p, <3>5, CatType DEF All
    <3>7. All(c)' = Cat(g, Cat(up[c], new))
      BY <2>3, <2>4, <3>4, <3>5 DEF All
    <3>8. All(c)' = Cat(All(c), new)
      BY <1>p, <3>3, <3>6, <3>7, Assoc
    <3>9. InOrder(c, cli[c].sent + n, All(c))
      <4>1. \A j \in DOMAIN All(c) : All(c)[j][2] \in Nat
        BY <3>6, ByteAt
      <4> QED BY <1>0, <1>p, <3>2, <4>1 DEF InOrder
    <3>10. InOrder(c, cli[c].sent + n, new)
      <4>1. \A k \in 1 .. n : new[k][1] = c /\ new[k][2] = cli[c].sent + k
        BY <3>3
      <4>2. \A k \in DOMAIN new : new[k][1] = c /\ new[k][2] <= cli[c].sent + n
        BY <1>p, <3>2, <3>3, <4>1
      <4>3. \A j, k \in DOMAIN new : j < k => new[j][2] < new[k][2]
        BY <1>p, <3>2, <3>3, <4>1
      <4> QED BY <4>2, <4>3 DEF InOrder
    <3>11. Before(All(c), new)
      <4>1. ASSUME NEW j \in DOMAIN All(c), NEW k \in DOMAIN new PROVE All(c)[j][2] < new[k][2]
        <5>1. All(c)[j][2] \in Nat /\ All(c)[j][2] <= cli[c].sent
          BY <1>0, <3>6, ByteAt DEF InOrder
        <5>2. new[k][2] = cli[c].sent + k /\ k \in Nat /\ k > 0
          BY <3>2, <3>3
        <5> QED BY <1>p, <5>1, <5>2
      <4> QED BY <4>1 DEF Before
    <3> QED BY <3>3, <3>4, <3>6, <3>8, <3>9, <3>10, <3>11, ConcatInOrder
  <2> QED BY <2>5, <2>6
<1>10. ASSUME NEW d \in Client, Recv(d) PROVE InOrder(c, cli'[c].sent, All(c)')
  <2>1. PICK n \in 1..Least(BufSize, Len(down[d])) :
          /\ cli' = [cli EXCEPT ![d].at = "send", ![d].got = @ \o SubSeq(down[d], 1, n)]
          /\ down' = [down EXCEPT ![d] = SubSeq(@, n + 1, Len(@))]
    BY <1>10 DEF Recv
  <2>2. UNCHANGED <<up, pfd, fiber>> /\ Held(c)' = Held(c)
    BY <1>10 DEF Recv, Held, FibersOf, Fd
  <2>3. CASE d # c
    <3>1. cli'[c] = cli[c] /\ down'[c] = down[c]
      BY <1>0, <2>1, <2>3 DEF Types
    <3> QED BY <2>2, <3>1, OrderKept
  <2>4. CASE d = c
    <3>1. n \in 0 .. Len(down[c])
      BY <1>p, <2>1, <2>4 DEF Least
    <3>2. PICK p \in Seq(Byte), r \in Seq(Byte) :
            p = SubSeq(down[c], 1, n) /\ r = SubSeq(down[c], n + 1, Len(down[c])) /\ down[c] = Cat(p, r)
      BY <1>p, <3>1, CutInTwo
    <3>3. cli'[c].sent = cli[c].sent /\ cli'[c].got = Cat(cli[c].got, p) /\ down'[c] = r
      <4>1. cli'[c] = [cli[c] EXCEPT !.at = "send", !.got = @ \o p]
        BY <1>0, <2>1, <2>4, <3>2 DEF Types
      <4> QED BY <1>0, <2>1, <2>4, <3>2, <4>1 DEF Types, Process, Cat
    <3>4. Cat(Cat(cli[c].got, p), r) = Cat(cli[c].got, down[c])
      <4>1. down[c] = Cat(p, r)
        BY <3>2
      <4> QED BY <1>p, <4>1, Assoc
    <3>5. All(c)' = All(c)
      BY <2>2, <3>3, <3>4 DEF All
    <3> QED BY <1>0, <3>3, <3>5
  <2> QED BY <2>3, <2>4
<1>11. CASE UNCHANGED vars
  BY <1>7, <1>11 DEF vars
<1> QED BY <1>1, <1>2, <1>3, <1>4, <1>5, <1>6, <1>8, <1>9, <1>10, <1>11 DEF Next, FiberStep

LEMMA NextInv == ASSUME Inv, [Next]_vars PROVE Inv'
<1>1. Types' /\ Sockets' /\ Buffers'
  BY TypesStep, SocketsStep, BuffersStep DEF Inv
<1>2. \A c \in Client : InOrder(c, cli'[c].sent, All(c)')
  BY <1>1, OrderStep
<1> QED BY <1>1, <1>2 DEF Inv

THEOREM Invariance == Spec => []Inv
  BY InitInv, NextInv, PTL DEF Spec

\* What a client gets back are its own bytes in the order it sent them, none
\* twice, for any number of clients and any division into parts.
THEOREM EchoesStayInOrder == Spec => []EchoesInOrder
<1>1. Inv => EchoesInOrder
  BY DEF Inv, EchoesInOrder, InOrder, All, Held, Cat
<1> QED BY <1>1, Invariance, PTL

\* Each open socket is worked on by one fiber and closed by it alone.
THEOREM SocketsHaveOneFiber == Spec => []OneFiberPerSocket
<1>1. ASSUME Inv PROVE OneFiberPerSocket
  <2>0. Types /\ Sockets
    BY <1>1 DEF Inv
  <2>1. ASSUME accepting, NEW c \in open PROVE Cardinality(FibersOf(c)) = 1
    <3>1. PICK i \in DOMAIN pfd : pfd[i] = c
      BY <2>0, <2>1 DEF Sockets
    <3>2. i \in DOMAIN fiber /\ c \in Client /\ c # Null
      BY <2>0, <3>1 DEF Types
    <3>3. i \in FibersOf(c)
      BY <2>0, <3>1, <3>2 DEF Sockets, FibersOf, Fd
    <3>4. FibersOf(c) = {i}
      BY <2>0, <3>2, <3>3, HeldIs
    <3> QED BY <3>4, FS_Singleton
  <2>2. ASSUME accepting, NEW i \in DOMAIN fiber, fiber[i].at # "over" PROVE Fd(i) \in open
    BY <2>0, <2>2, WorksOn DEF Sockets, Fd
  <2> QED BY <2>1, <2>2 DEF OneFiberPerSocket
<1> QED BY <1>1, Invariance, PTL

=============================================================================
