----------------------------- MODULE SelectPoll -----------------------------
(* ct_corthread_select, which is meant to turn the three descriptor sets of    *)
(* select into one array for poll.  The array is built, and never polled.      *)
(*                                                                          *)
(* get_pollfd assigns where it should compare: fds[i].fd = fd.  A socket is     *)
(* not 0, so the assignment is true and the first entry is taken for the one    *)
(* looked for whenever there is an entry: AsksForAll does not hold.           *)
EXTENDS Integers, Sequences, FiniteSets, Functions

CONSTANTS Socket, Null   \* Null is no socket

Oper == <<"POLLIN", "POLLOUT", "POLLERR">>   \* for read, write and except set

VARIABLES
  sets,    \* the three sets: sequences of sockets, or Null when not given
  asked,   \* the sets as the last call of select found them
  fds,     \* the array of that call: [fd, events, revents]
  ret      \* what it returned

vars == <<sets, asked, fds, ret>>

Clear == [fd |-> Null, events |-> {}, revents |-> {}]

\* get_pollfd: the entry of fd, 0 when there is none, and the array after it.
Found(array, cnt, fd) ==
  IF cnt = 0 THEN [at |-> 0, array |-> array]
  ELSE [at |-> 1, array |-> [array EXCEPT ![1] = [@ EXCEPT !.fd = fd]]]

\* The entry that is asked for one thing more.
Wants(entry, oper) == [entry EXCEPT !.events = @ \cup {oper}]

\* set_fdset: the socket at place i of its set; a new entry goes to the same
\* place of the array.
Placed(st, fd, i, nfds, oper) ==
  LET found == Found(st.array, st.cnt, fd)
  IN  IF ~st.ok THEN st
      ELSE IF found.at # 0
      THEN [st EXCEPT !.array = [found.array EXCEPT ![found.at] = Wants(@, oper)]]
      ELSE IF st.cnt >= nfds THEN [st EXCEPT !.ok = FALSE]
      ELSE [st EXCEPT !.array = [found.array EXCEPT ![i] =
                                   [fd |-> fd, events |-> {oper}, revents |-> {}]],
                      !.cnt = @ + 1]

\* All sockets of one set.
SetFdset(st, set, nfds, oper) ==
  LET after[i \in 0..Len(set)] ==
        IF i = 0 THEN st ELSE Placed(after[i - 1], set[i], i, nfds, oper)
  IN  after[Len(set)]

\* Mutant: the set of exceptions is not counted.
LargerNot(n, k) == IF k < 3 /\ sets[k] # Null /\ Len(sets[k]) > n THEN Len(sets[k]) ELSE n

\* The larger of n and the size of a set that is given.
Larger(n, k) == IF sets[k] # Null THEN (IF Len(sets[k]) > n THEN Len(sets[k]) ELSE n) ELSE n

\* pfds_create: room for the largest set, and one entry more.
PfdsCreate ==
  LET nfds == Larger(Larger(Larger(0, 1), 2), 3)
      With(st, k) == IF sets[k] # Null /\ st.ok
                     THEN SetFdset(st, sets[k], nfds, Oper[k]) ELSE st
      empty == [array |-> [i \in 1..nfds + 1 |-> Clear], cnt |-> 0, ok |-> TRUE]
  IN  With(With(With(empty, 1), 2), 3)

\* The places of the array where one of these events happened; the entry to
\* spare is not looked at.
Hit(array, events) ==
  {i \in DOMAIN array : /\ i < Len(array) /\ array[i].fd # Null
                        /\ array[i].revents \cap events # {}}

\* The place that is the nth of a set of places.
Nth(at, n) == CHOOSE i \in at : Cardinality({j \in at : j <= i}) = n

\* The sockets of the array with one of these events among those that happened.
Happened(array, events) ==
  [n \in 1..Cardinality(Hit(array, events)) |-> array[Nth(Hit(array, events), n)].fd]

\* How many sockets were put into a set.
Ready(set) == IF set = Null THEN 0 ELSE Len(set)

Init ==
  /\ sets = [k \in 1..3 |-> Null]
  /\ asked = sets
  /\ fds = <<>>
  /\ ret = 0

\* The caller of select: which sets there are, FD_ZERO, FD_SET.
Give(k) ==
  /\ sets[k] = Null
  /\ sets' = [sets EXCEPT ![k] = <<>>]
  /\ UNCHANGED <<asked, fds, ret>>

FdSet(k, fd) ==
  /\ sets[k] # Null
  /\ fd \notin Range(sets[k])
  /\ sets' = [sets EXCEPT ![k] = Append(@, fd)]
  /\ UNCHANGED <<asked, fds, ret>>

Select ==
  LET made == PfdsCreate
      events == <<{"POLLIN"}, {"POLLOUT"}, {"POLLERR", "POLLHUP"}>>
      answer == [k \in 1..3 |-> IF sets[k] = Null THEN Null
                                ELSE Happened(made.array, events[k])]
  IN  /\ asked' = sets
      /\ IF made.ok
         THEN /\ fds' = made.array
              /\ sets' = answer
              /\ ret' = Ready(answer[1]) + Ready(answer[2]) + Ready(answer[3])
         ELSE fds' = <<>> /\ ret' = -1 /\ UNCHANGED sets

Next == Select \/ \E k \in 1..3 : Give(k) \/ \E fd \in Socket : FdSet(k, fd)

Spec == Init /\ [][Next]_vars

-----------------------------------------------------------------------------
\* The sockets of the sets of the last call, one behind the other.
AskedIn(k) == IF asked[k] = Null THEN <<>> ELSE asked[k]

Asked == AskedIn(1) \o AskedIn(2) \o AskedIn(3)

\* No call is refused, though the array has room for the largest set only and
\* the sets together may be larger.  Every entry in use is of a socket that was
\* asked for, is the only one of it, and is not the entry to spare; the array
\* asks for an event if and only if some set does (select.c:32-161).
EntriesAreAsked ==
  /\ ret # -1
  /\ \A i \in DOMAIN fds : fds[i] # Clear =>
       /\ fds[i].fd \in Range(Asked) /\ i < Len(fds)
       /\ \A j \in DOMAIN fds : fds[j].fd = fds[i].fd => j = i
  /\ fds # <<>> => \A k \in 1..3 :
       (\E i \in DOMAIN fds : Oper[k] \in fds[i].events) <=> AskedIn(k) # <<>>

\* What select is for: each socket of a set has an entry that asks for the event
\* of that set.  The code does not keep to it (select.c:37).
AsksForAll ==
  fds # <<>> => \A k \in 1..3 : \A fd \in Range(AskedIn(k)) :
                  \E i \in DOMAIN fds : fds[i].fd = fd /\ Oper[k] \in fds[i].events

=============================================================================
