------------------------------ MODULE EventLoop ------------------------------
(***************************************************************************)
(* The event layer: event.c over event_select.c, and the FILE_EVENT of     *)
(* file_event.c, one for each descriptor in use.  A change of interest is  *)
(* not made at once: it is noted in the descriptor's oper and the          *)
(* descriptor queued in the ring ev->events, until event_process, called   *)
(* by the I/O fiber, applies what is queued, selects and calls back.       *)
(*                                                                         *)
(* Reading and writing are handled by twin functions; d is which.  The     *)
(* library runs in one thread and nothing here switches fibers, so the     *)
(* loops of event_process are split into one step per descriptor only to   *)
(* be read and proved more easily: no other call comes between.            *)
(*                                                                         *)
(* Left out: the descriptors at or beyond setsize, which event_add_read    *)
(* turns away untouched; maxfd and dirty, which nothing reads; the timeout *)
(* (module CorIo).                                                         *)
(***************************************************************************)
EXTENDS Integers, FiniteSets, RingSeq

CONSTANTS
  Fd,      \* the descriptors below setsize
  NoSock   \* those that are no sockets: getsocktype fails

ASSUME EventAssumption == NoSock \subseteq Fd

Dir == {"R", "W"}

VARIABLES
  open,    \* the descriptors with a FILE_EVENT (the table of corThread_io.c)
  typ,     \* fe->type
  oper,    \* fe->oper: the pending changes, <<"add", d>> and <<"del", d>>
  proc,    \* the directions with r_proc or w_proc set
  events,  \* ev->events, a ring
  es,      \* EVENT_SELECT and what it sets in FILE_EVENT: see NoRegistrations
  phase,   \* where the I/O fiber is in event_process
  got,     \* the descriptor sets that __sys_select has left
  todo,    \* es->ready: the descriptors still to be looked at
  level    \* the conditions of the sockets, as pairs <<f, d>>

fevars == <<open, typ, oper, proc, events>>
vars == <<open, typ, oper, proc, events, es, phase, got, todo, level>>

NoEvents == [R |-> {}, W |-> {}, X |-> {}]

\* set: rset and wset; x: xset; files[1..Len(files)]: files[0..count); id:
\* fe->id; mask: fe->mask.
NoRegistrations ==
  [set |-> [d \in Dir |-> {}], x |-> {}, files |-> <<>>, id |-> [f \in Fd |-> -1],
   fdcount |-> 0, mask |-> [f \in Fd |-> {}]]

Init ==
  /\ open = {}
  /\ typ = [f \in Fd |-> "NONE"]
  /\ oper = [f \in Fd |-> {}]
  /\ proc = [f \in Fd |-> {}]
  /\ events = <<>>
  /\ es = NoRegistrations
  /\ phase = "idle"
  /\ got = NoEvents
  /\ todo = <<>>
  /\ level = {}

-----------------------------------------------------------------------------
(* event_select.c.                                                         *)

\* select_add_read and select_add_write.
SelectAdd(e, f, d) ==
  LET known == f \in e.set["R"] \cup e.set["W"]
      e1 == IF known THEN e
            ELSE [e EXCEPT !.files = Append(@, f), !.id[f] = Len(e.files),
                           !.x = @ \cup {f}, !.fdcount = @ + 1]
  IN  [e1 EXCEPT !.mask[f] = @ \cup {d}, !.set[d] = @ \cup {f}]

\* Mutant: the entry that takes the freed place is not told.
UnlistSilently(e, f) ==
  LET k == e.id[f] + 1
      n == Len(e.files)
  IN  [e EXCEPT !.files = [i \in 1 .. n - 1 |-> IF i = k THEN e.files[n] ELSE e.files[i]],
                !.id = [@ EXCEPT ![f] = -1],
                !.x = @ \ {f}, !.fdcount = @ - 1]

\* f leaves the table; the last entry takes its place.
Unlist(e, f) ==
  LET k == e.id[f] + 1
      n == Len(e.files)
  IN  [e EXCEPT !.files = [i \in 1 .. n - 1 |-> IF i = k THEN e.files[n] ELSE e.files[i]],
                !.id = [@ EXCEPT ![e.files[n]] = e.id[f], ![f] = -1],
                !.x = @ \ {f}, !.fdcount = @ - 1]

Other(d) == IF d = "R" THEN "W" ELSE "R"

\* select_del_read and select_del_write.
SelectDel(e, f, d) ==
  LET e1 == [e EXCEPT !.set[d] = @ \ {f}]
      e2 == IF f \in e.set[Other(d)] THEN e1 ELSE Unlist(e1, f)
  IN  [e2 EXCEPT !.mask[f] = @ \ {d}]

-----------------------------------------------------------------------------
(* event.c: the calls of the I/O functions.                                *)

Queue(f) == IF f \in ToSet(events) THEN events ELSE RingPrepend(events, f)

\* corthread_file_open of an unknown descriptor: file_event_alloc.
Open(f) ==
  /\ phase = "idle"
  /\ f \notin open
  /\ open' = open \cup {f}
  /\ typ' = [typ EXCEPT ![f] = "NONE"]
  /\ UNCHANGED <<oper, proc, events, es, phase, got, todo, level>>

\* Mutant: a pending removal survives.
OperAddKeepsDel(f, d) ==
  oper[f] \cup (IF d \in es.mask[f] THEN {} ELSE {<<"add", d>>})

\* A pending removal is taken back; what is registered needs no addition.
OperAdd(f, d) ==
  (oper[f] \ {<<"del", d>>}) \cup (IF d \in es.mask[f] THEN {} ELSE {<<"add", d>>})

\* Mutant: a pending addition survives.
OperDelKeepsAdd(f, d) ==
  oper[f] \cup (IF d \in es.mask[f] THEN {<<"del", d>>} ELSE {})

\* A pending addition is taken back; what is not registered needs no removal.
OperDel(f, d) ==
  (oper[f] \ {<<"add", d>>}) \cup (IF d \in es.mask[f] THEN {<<"del", d>>} ELSE {})

\* event_add_read and event_add_write.  It is refused for what is no socket,
\* which is found out when the first registration is asked for.
AddInterest(f, d) ==
  /\ phase = "idle"
  /\ f \in open /\ typ[f] # "NOSOCK"
  /\ IF d \notin es.mask[f] /\ typ[f] = "NONE" /\ f \in NoSock
       THEN /\ typ' = [typ EXCEPT ![f] = "NOSOCK"]
            /\ oper' = [oper EXCEPT ![f] = @ \ {<<"del", d>>}]
            /\ UNCHANGED <<proc, events>>
       ELSE /\ typ' = [typ EXCEPT ![f] = IF d \in es.mask[f] THEN @ ELSE "SOCK"]
            /\ oper' = [oper EXCEPT ![f] = OperAdd(f, d)]
            /\ events' = IF d \in es.mask[f] THEN events ELSE Queue(f)
            /\ proc' = [proc EXCEPT ![f] = @ \cup {d}]
  /\ UNCHANGED <<open, es, phase, got, todo, level>>

\* event_del_read and event_del_write, which ct_event.h offers to any caller; the
\* callbacks call them too (OperAfter).
DelInterest(f, d) ==
  /\ phase = "idle"
  /\ f \in open
  /\ oper' = [oper EXCEPT ![f] = OperDel(f, d)]
  /\ events' = IF d \in es.mask[f] THEN Queue(f) ELSE events
  /\ proc' = [proc EXCEPT ![f] = @ \ {d}]
  /\ UNCHANGED <<open, typ, es, phase, got, todo, level>>

\* event_close, with the file_event_free that follows it in corthread_file_close.
Close(f) ==
  /\ phase = "idle"
  /\ f \in open
  /\ LET e1 == IF "R" \in es.mask[f] THEN SelectDel(es, f, "R") ELSE es
     IN  es' = IF "W" \in es.mask[f] THEN SelectDel(e1, f, "W") ELSE e1
  /\ events' = RingDetach(events, f)
  /\ open' = open \ {f}
  /\ oper' = [oper EXCEPT ![f] = {}]
  /\ proc' = [proc EXCEPT ![f] = {}]
  /\ level' = {c \in level : c[1] # f}
  /\ typ' = [typ EXCEPT ![f] = "NONE"]
  /\ UNCHANGED <<phase, got, todo>>

-----------------------------------------------------------------------------
(* event_process.                                                          *)

Process ==
  /\ phase = "idle"
  /\ phase' = "prepare"
  /\ UNCHANGED <<fevars, es, got, todo, level>>

\* The pending changes of f, in event_prepare's order.
Applied(f) ==
  LET e1 == IF <<"del", "R">> \in oper[f] THEN SelectDel(es, f, "R") ELSE es
      e2 == IF <<"del", "W">> \in oper[f] THEN SelectDel(e1, f, "W") ELSE e1
      e3 == IF <<"add", "R">> \in oper[f] THEN SelectAdd(e2, f, "R") ELSE e2
  IN  IF <<"add", "W">> \in oper[f] THEN SelectAdd(e3, f, "W") ELSE e3

\* One round of event_prepare.
Prepare ==
  /\ phase = "prepare"
  /\ events # <<>>
  /\ es' = Applied(Head(events))
  /\ oper' = [oper EXCEPT ![Head(events)] = {}]
  /\ events' = Tail(events)
  /\ UNCHANGED <<open, typ, proc, phase, got, todo, level>>

\* select_event_wait up to its loop.  select leaves the registered descriptors
\* whose condition holds, none when it times out; without registrations it is not
\* called.  (It is not interrupted here: the library never cancels the call.)
Wait ==
  /\ phase = "prepare"
  /\ events = <<>>
  /\ IF es.fdcount = 0
       THEN phase' = "idle" /\ UNCHANGED <<got, todo>>
       ELSE /\ phase' = "dispatch"
            /\ todo' = es.files
            /\ got' = [R |-> {f \in es.set["R"] : <<f, "R">> \in level},
                       W |-> {f \in es.set["W"] : <<f, "W">> \in level},
                       X |-> {f \in es.x : <<f, "X">> \in level}]
  /\ UNCHANGED <<fevars, es, level>>

\* Mutant: the registrations are looked up, not what select has left of them.
CalledUnasked(f) == {d \in proc[f] : f \in es.set[d]}

\* The callbacks made for f: an exception wakes whoever waits.
Called(f) == {d \in proc[f] : IF f \in got["X"] THEN f \in es.set[d] ELSE f \in got[d]}

\* read_callback and write_callback end the interest with event_del_read and
\* event_del_write; what they do to the fibers is in module CorIo.
OperAfter(f, D) == (oper[f] \ {<<"add", d>> : d \in D}) \cup {<<"del", d>> : d \in D \cap es.mask[f]}

\* One round of select_event_wait's loop.
Dispatch ==
  /\ phase = "dispatch"
  /\ todo # <<>>
  /\ LET f == Head(todo)
     IN  /\ oper' = [oper EXCEPT ![f] = OperAfter(f, Called(f))]
         /\ events' = IF Called(f) \cap es.mask[f] = {} THEN events ELSE Queue(f)
         /\ proc' = [proc EXCEPT ![f] = @ \ Called(f)]
  /\ todo' = Tail(todo)
  /\ UNCHANGED <<open, typ, es, phase, got, level>>

\* event_process returns.
Done ==
  /\ phase = "dispatch"
  /\ todo = <<>>
  /\ phase' = "idle"
  /\ got' = NoEvents
  /\ UNCHANGED <<fevars, es, todo, level>>

\* A socket becomes readable, writable or fails; it stays so here.
Arrive(f, c) ==
  /\ f \in open \ NoSock
  /\ <<f, c>> \notin level
  /\ level' = level \cup {<<f, c>>}
  /\ UNCHANGED <<fevars, es, phase, got, todo>>

Loop == Process \/ Prepare \/ Wait \/ Dispatch \/ Done

Next ==
  \/ \E f \in Fd :
       \/ Open(f) \/ Close(f)
       \/ \E d \in Dir : AddInterest(f, d) \/ DelInterest(f, d)
       \/ \E c \in Dir \cup {"X"} : Arrive(f, c)
  \/ Loop

Spec == Init /\ [][Next]_vars

\* The I/O fiber calls event_process again and again.
FairSpec == Spec /\ WF_vars(Loop)

-----------------------------------------------------------------------------
(* Properties.                                                             *)

\* The table, the ids in the descriptors, the three descriptor sets, the masks
\* and ev->fdcount tell one story, in whatever order descriptors come and go and
\* swap places; the assertions on id and count in event_select.c rest on it.
TableOK(e) ==
  /\ ToSet(e.files) = e.set["R"] \cup e.set["W"]
  /\ e.x = ToSet(e.files)
  /\ e.fdcount = Len(e.files)
  /\ \A f \in Fd : \A d \in Dir : d \in e.mask[f] <=> f \in e.set[d]
  /\ \A k \in DOMAIN e.files : e.id[e.files[k]] = k - 1
  /\ \A f \in Fd \ ToSet(e.files) : e.id[f] = -1

Table == TableOK(es)

\* No wakeup is lost and none is spurious in the queue of pending changes: a
\* callback is set exactly when its direction is registered and not about to be
\* removed, or about to be added, after any sequence of calls.  What is pending
\* will be applied: the descriptor is queued, once; and it fits what is
\* registered, so event_prepare never removes what is not there, where
\* select_del_read would write through an id of -1.  While the answer of select
\* is handled everything asked for is registered.
InterestIsPending ==
  /\ \A f \in Fd, d \in Dir :
       /\ d \in proc[f] <=> \/ d \in es.mask[f] /\ <<"del", d>> \notin oper[f]
                            \/ <<"add", d>> \in oper[f]
       /\ <<"add", d>> \in oper[f] => d \notin es.mask[f]
       /\ <<"del", d>> \in oper[f] => d \in es.mask[f]
  /\ Distinct(events)
  /\ \A f \in Fd : oper[f] # {} => f \in ToSet(events)
  /\ phase = "dispatch" => \A f \in ToSet(todo) : proc[f] = es.mask[f]

\* Nothing the layer keeps points to a FILE_EVENT that was freed.
NoDangling ==
  /\ ToSet(es.files) \cup ToSet(events) \cup ToSet(todo) \subseteq open
  /\ \A f \in Fd \ open : oper[f] = {} /\ proc[f] = {}

\* The layer implements the poller: one callback for each request, only while
\* the condition holds (or the socket failed), none after close.
Poll == INSTANCE Poller WITH interest <- proc, calling <- phase = "dispatch"

ImplementsPoller == Poll!Spec

\* A callback that is set while its condition holds is made, or taken back.
ConditionServed ==
  \A f \in Fd \ NoSock, d \in Dir :
    (d \in proc[f] /\ <<f, d>> \in level) ~> d \notin proc[f]

=============================================================================
