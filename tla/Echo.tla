-------------------------------- MODULE Echo --------------------------------
(* The two demonstration programs: the echo server of serDemo, whose fibers   *)
(* call the library only, and processes of cliDemo as its clients.            *)
(*                                                                          *)
(* A connection is two byte streams with room for Room bytes each.  A send    *)
(* takes as many bytes as there is room for and waits when there is none; a   *)
(* receive returns any part of what has arrived, up to the size of its buffer. *)
(* Both are what ct_corthread_send and ct_corthread_recv promise: a blocked     *)
(* call is served once its condition holds (CorIo, BlockedServed).            *)
EXTENDS Integers, Sequences, FiniteSets, Functions, SequencesExt

CONSTANTS
  Client,    \* the client processes
  Null,      \* a pointer that has been freed
  BufSize,   \* the buffers of server and client, and the length of a message
  Room,      \* the bytes a stream holds
  Lines      \* bound: how many lines are typed at each client

ASSUME SizesAssumption ==
  BufSize \in Nat \ {0} /\ Room \in Nat \ {0} /\ Lines \in [Client -> Nat] /\ Null \notin Client

VARIABLES
  cli,       \* of each client: what it does, lines typed, bytes sent, bytes got
  up, down,  \* the streams from and to each client
  waiting,   \* connections that have not been accepted
  accepting, \* whether the accept fiber runs; without it the process is over
  open,      \* the clients whose socket is open at the server
  pfd,       \* the pointers passed to the client fibers, each to a socket
  fiber      \* of each client fiber: what it does and its buffer

vars == <<cli, up, down, waiting, accepting, open, pfd, fiber>>

Least(m, n) == IF m < n THEN m ELSE n

Init ==
  /\ cli = [c \in Client |-> [at |-> "connect", lines |-> 0, sent |-> 0, got |-> <<>>]]
  /\ up = [c \in Client |-> <<>>]
  /\ down = [c \in Client |-> <<>>]
  /\ waiting = <<>>
  /\ accepting = TRUE
  /\ open = {}
  /\ pfd = <<>>
  /\ fiber = <<>>

\* Mutant: every fiber reads the variable the accept loop writes.
FdOfLast(i) == pfd[Len(pfd)]

\* The socket a fiber works on.
Fd(i) == pfd[i]

-----------------------------------------------------------------------------
\* The server.

Accept ==
  /\ accepting
  /\ waiting # <<>>
  /\ open' = open \cup {Head(waiting)}
  /\ pfd' = Append(pfd, Head(waiting))
  /\ fiber' = Append(fiber, [at |-> "created", buf |-> <<>>])
  /\ waiting' = Tail(waiting)
  /\ UNCHANGED <<cli, up, down, accepting>>

\* A failing accept ends the loop and the process, and every connection with
\* it; what is on its way may be lost.
AcceptFails ==
  /\ accepting
  /\ accepting' = FALSE
  /\ open' = {}
  /\ waiting' = <<>>
  /\ down' \in {down, [c \in Client |-> <<>>]}
  /\ UNCHANGED <<cli, up, pfd, fiber>>

FiberStart(i) ==
  /\ accepting
  /\ fiber[i].at = "created"
  /\ fiber' = [fiber EXCEPT ![i].at = "recv"]
  /\ UNCHANGED <<cli, up, down, waiting, accepting, open, pfd>>

\* Mutant: only a full buffer is answered.
AfterRecvWhole(part) ==
  IF Len(part) = BufSize THEN [at |-> "send", buf |-> part]
  ELSE [at |-> "recv", buf |-> <<>>]

\* Whatever recv returned is sent back.
AfterRecv(part) == [at |-> "send", buf |-> part]

FiberRecv(i) ==
  /\ accepting
  /\ fiber[i].at = "recv"
  /\ \E n \in 1..Least(BufSize, Len(up[Fd(i)])) :
       /\ fiber' = [fiber EXCEPT ![i] = AfterRecv(SubSeq(up[Fd(i)], 1, n))]
       /\ up' = [up EXCEPT ![Fd(i)] = SubSeq(@, n + 1, Len(@))]
  /\ UNCHANGED <<cli, down, waiting, accepting, open, pfd>>

\* Mutant: the loop sends the buffer again.
AfterSendAgain(i) == fiber[i]

\* The loop begins again, with its buffer cleared.
AfterSend(i) == [at |-> "recv", buf |-> <<>>]

\* What the answer of send leaves of the buffer is not sent again.
FiberSend(i) ==
  /\ accepting
  /\ fiber[i].at = "send"
  /\ Len(down[Fd(i)]) < Room
  /\ LET n == Least(Len(fiber[i].buf), Room - Len(down[Fd(i)]))
     IN  down' = [down EXCEPT ![Fd(i)] = @ \o SubSeq(fiber[i].buf, 1, n)]
  /\ fiber' = [fiber EXCEPT ![i] = AfterSend(i)]
  /\ UNCHANGED <<cli, up, waiting, accepting, open, pfd>>

\* The sockets that are open when a fiber has closed its own.
OpenWithout(i) == open \ {Fd(i)}

\* The end of fiber_client: the socket, then the pointer to it.
FiberClose(i) ==
  /\ open' = OpenWithout(i)
  /\ pfd' = [pfd EXCEPT ![i] = Null]
  /\ fiber' = [fiber EXCEPT ![i] = [at |-> "over", buf |-> <<>>]]

\* recv answers 0, or -1 with data lost, and send -1, once the client is gone.
FiberEnd(i) ==
  /\ accepting
  /\ fiber[i].at \in {"recv", "send"}
  /\ cli[Fd(i)].at = "gone"
  /\ FiberClose(i)
  /\ UNCHANGED <<cli, up, down, waiting, accepting>>

-----------------------------------------------------------------------------
\* A client.

\* Whether the server still has the connection, accepted or not.
Connected(c) == c \in open \/ c \in Range(waiting)

Connect(c) ==
  /\ cli[c].at = "connect"
  /\ IF accepting
     THEN /\ waiting' = Append(waiting, c)
          /\ cli' = [cli EXCEPT ![c].at = "send"]
     ELSE cli' = [cli EXCEPT ![c].at = "gone"] /\ UNCHANGED waiting
  /\ UNCHANGED <<up, down, accepting, open, pfd, fiber>>

\* The line that was typed, with the rest of the buffer.
Send(c) ==
  /\ cli[c].at = "send"
  /\ cli[c].lines < Lines[c]
  /\ Connected(c)
  /\ Len(up[c]) < Room
  /\ LET n == Least(BufSize, Room - Len(up[c]))
     IN  /\ up' = [up EXCEPT ![c] = @ \o [k \in 1..n |-> <<c, cli[c].sent + k>>]]
         /\ cli' = [cli EXCEPT ![c].at = "recv", ![c].sent = @ + n, ![c].lines = @ + 1]
  /\ UNCHANGED <<down, waiting, accepting, open, pfd, fiber>>

Recv(c) ==
  /\ cli[c].at = "recv"
  /\ \E n \in 1..Least(BufSize, Len(down[c])) :
       /\ cli' = [cli EXCEPT ![c].at = "send", ![c].got = @ \o SubSeq(down[c], 1, n)]
       /\ down' = [down EXCEPT ![c] = SubSeq(@, n + 1, Len(@))]
  /\ UNCHANGED <<up, waiting, accepting, open, pfd, fiber>>

\* send or recv fails, or recv answers 0: the loop ends and closes the socket.
Fail(c) ==
  /\ cli[c].at \in {"send", "recv"}
  /\ ~Connected(c)
  /\ cli[c].at = "recv" => down[c] = <<>>
  /\ cli' = [cli EXCEPT ![c].at = "gone"]
  /\ UNCHANGED <<up, down, waiting, accepting, open, pfd, fiber>>

\* The loop has no end of its own: the user ends the process when he likes.
Leave(c) ==
  /\ cli[c].at \in {"send", "recv"}
  /\ cli' = [cli EXCEPT ![c].at = "gone"]
  /\ UNCHANGED <<up, down, waiting, accepting, open, pfd, fiber>>

FiberStep(i) == FiberStart(i) \/ FiberRecv(i) \/ FiberSend(i) \/ FiberEnd(i)

Next ==
  \/ Accept \/ AcceptFails
  \/ \E i \in DOMAIN fiber : FiberStep(i)
  \/ \E c \in Client : Connect(c) \/ Send(c) \/ Recv(c) \/ Fail(c) \/ Leave(c)

Spec == Init /\ [][Next]_vars

\* The scheduler starves no fiber of the server that can go on, and each
\* client is a process of its own; users type and leave when they like, and
\* accept need not fail.
FairSpec ==
  /\ Spec
  /\ WF_vars(Accept)
  /\ \A i \in 1..Cardinality(Client) :
       WF_vars(i \in DOMAIN fiber /\ FiberStep(i))
  /\ \A c \in Client : WF_vars(Recv(c) \/ Fail(c))

-----------------------------------------------------------------------------
\* The fiber that works for a client.
FibersOf(c) == {i \in DOMAIN fiber : fiber[i].at # "over" /\ Fd(i) = c}

\* What a client has been answered and what is still on its way there and
\* back, one behind the other, are bytes of its own in the order it sent them:
\* bytes may be lost behind a partial send, but none is repeated, overtaken or
\* sent to another client (serDemo.c:19-33, cliDemo.cpp:29-36).
EchoesInOrder ==
  \A c \in Client :
    LET held == IF FibersOf(c) = {} THEN <<>>
                ELSE fiber[CHOOSE i \in FibersOf(c) : TRUE].buf
        all == cli[c].got \o down[c] \o held \o up[c]
    IN  /\ \A j \in DOMAIN all : all[j][1] = c /\ all[j][2] <= cli[c].sent
        /\ \A j, k \in DOMAIN all : j < k => all[j][2] < all[k][2]

\* The accept loop starts a second fiber before the first has run: still each
\* open socket belongs to one fiber, and no fiber to a socket that was closed
\* (serDemo.c:36, 50-53).
OneFiberPerSocket ==
  accepting =>
    /\ \A c \in open : Cardinality(FibersOf(c)) = 1
    /\ \A i \in DOMAIN fiber : fiber[i].at # "over" => Fd(i) \in open

\* A client that waits for an answer gets one, or learns that the server is
\* gone: partial sends and full streams do not make both sides wait.  And the
\* server closes the socket of a client that has left (cliDemo.cpp:36,
\* serDemo.c:24-35).
Answered ==
  \A c \in Client :
    /\ cli[c].at = "recv" ~> cli[c].at # "recv"
    /\ (c \in open /\ cli[c].at = "gone") ~> c \notin open

=============================================================================
