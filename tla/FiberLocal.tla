----------------------------- MODULE FiberLocal -----------------------------
(***************************************************************************)
(* The fiber-local data of corThread.c: THREAD.nlocal numbers the keys of  *)
(* all fibers of a thread; each fiber has an array of pointers to          *)
(* CORTHREAD_LOCAL, as long as the keys were many when it last stored      *)
(* something; corthread_start releases them one by one when the fiber's    *)
(* function has returned.  The structs, with the field for the array, are  *)
(* used again by later fibers.                                             *)
(*                                                                         *)
(* Which fiber executes is the subject of CorSched: here any live one may, *)
(* between any two steps, as a callback may switch too.  The callbacks do  *)
(* not store or read fiber-local data themselves.                          *)
(***************************************************************************)
EXTENDS Integers, Sequences

CONSTANTS
  Fiber,   \* the structs CT_CORTHREAD
  Null,    \* the null pointer
  Freed,   \* a pointer to memory that was freed
  Value,   \* the objects that are stored
  KeyMax   \* bound: so many keys are created

VARIABLES
  nlocal,  \* THREAD.nlocal
  locals,  \* locals[0..nlocal) of each fiber, entry k - 1 of the source at k
  ending,  \* i + 1 of corthread_start's loop, 0 before it
  live,    \* the fibers that have not finished
  duty     \* what the library owes each value: a call of its callback or nothing

vars == <<nlocal, locals, ending, live, duty>>

Key == 1 .. KeyMax

\* none: not stored with a callback yet.  kept: stored with one.  lost: another
\* value was stored over it, and nobody will call.  released: called.
Duty == {"none", "kept", "lost", "released"}

Init ==
  /\ nlocal = 0
  /\ locals = [f \in Fiber |-> <<>>]
  /\ ending = [f \in Fiber |-> 0]
  /\ live = {}
  /\ duty = [v \in Value |-> "none"]

\* corthread_alloc sets neither locals nor nlocal of the struct it takes.
Start(f) ==
  /\ f \notin live
  /\ live' = live \cup {f}
  /\ UNCHANGED <<nlocal, locals, ending, duty>>

\* The array of f when there are n keys: it is as long, and what is new is NULL.
Grown(f, n) ==
  IF Len(locals[f]) < n
    THEN locals[f] \o [i \in 1 .. n - Len(locals[f]) |-> Null] ELSE locals[f]

\* ct_corthread_set_specific with the key k when the thread has n of them.  A user
\* gives an object with a callback away once.
Store(f, k, n, v, fn) ==
  /\ f \in live /\ ending[f] = 0
  /\ fn => duty[v] = "none"
  /\ nlocal' = n
  /\ LET old == Grown(f, n)[k]
     IN  duty' = [w \in Value |->
                    IF old # Null /\ old.free_fn /\ old.ctx = w THEN "lost"
                    ELSE IF fn /\ w = v THEN "kept" ELSE duty[w]]
  /\ locals' = [locals EXCEPT ![f] = [Grown(f, n) EXCEPT ![k] = [ctx |-> v, free_fn |-> fn]]]
  /\ UNCHANGED <<ending, live>>

\* A key that is not positive asks for a new one; one the thread does not have is
\* refused.
SetNew(f, v, fn) == nlocal < KeyMax /\ Store(f, nlocal + 1, nlocal + 1, v, fn)
Set(f, k, v, fn) == k \in 1 .. nlocal /\ Store(f, k, nlocal, v, fn)

\* ct_corthread_get_specific, called by f.
GetSpecific(f, k) ==
  IF k > Len(locals[f]) THEN Null
  ELSE IF locals[f][k] \in {Null, Freed} THEN locals[f][k] ELSE locals[f][k].ctx

\* The fiber's function returns.
Return(f) ==
  /\ f \in live /\ ending[f] = 0
  /\ ending' = [ending EXCEPT ![f] = 1]
  /\ UNCHANGED <<nlocal, locals, live, duty>>

\* Mutant: the callback is forgotten.
DutyUncalled(cell) == duty

\* The callback is called if there is one.
DutyAfter(cell) == IF cell.free_fn THEN [duty EXCEPT ![cell.ctx] = "released"] ELSE duty

\* One round of corthread_start's loop.
Release(f) ==
  /\ ending[f] \in 1 .. Len(locals[f])
  /\ LET cell == locals[f][ending[f]]
     IN  IF cell = Null
           THEN UNCHANGED <<locals, duty>>
           ELSE /\ duty' = DutyAfter(cell)
                /\ locals' = [locals EXCEPT ![f][ending[f]] = Freed]
  /\ ending' = [ending EXCEPT ![f] = @ + 1]
  /\ UNCHANGED <<nlocal, live>>

\* Mutant: the array is not given up.
LeftOver(f) == locals[f]

\* What the struct keeps of the array.
Left(f) == <<>>

\* The loop is over and corthread_exit gives the struct back.
End(f) ==
  /\ ending[f] > Len(locals[f])
  /\ locals' = [locals EXCEPT ![f] = Left(f)]
  /\ live' = live \ {f}
  /\ ending' = [ending EXCEPT ![f] = 0]
  /\ UNCHANGED <<nlocal, duty>>

Next ==
  \E f \in Fiber :
    \/ Start(f) \/ Return(f) \/ Release(f) \/ End(f)
    \/ \E v \in Value, fn \in BOOLEAN : SetNew(f, v, fn) \/ \E k \in Key : Set(f, k, v, fn)

Spec == Init /\ [][Next]_vars

-----------------------------------------------------------------------------

Cells(f) == {k \in DOMAIN locals[f] : locals[f][k] \notin {Null, Freed}}

\* Whatever fibers begin, end and store in between, an object stored with a
\* callback is in one array, that of a live fiber, until its callback was called
\* or another object was stored over it: so the callback is called before the
\* fiber has gone, and never twice.
KeptIsStored ==
  \A v \in Value :
    LET places == {p \in live \X Key : /\ p[2] \in Cells(p[1])
                                       /\ locals[p[1]][p[2]] = [ctx |-> v, free_fn |-> TRUE]}
    IN  IF duty[v] = "kept" THEN \E p \in places : places = {p} ELSE places = {}

\* Each fiber gets what it stored last itself, nothing before, and never what an
\* earlier fiber left in the struct; while it is released, Freed counts as nothing.
Map == INSTANCE FiberMap WITH
  map <- [f \in Fiber |-> [k \in Key |->
            IF ending[f] # 0 /\ GetSpecific(f, k) = Freed THEN Null ELSE GetSpecific(f, k)]],
  ending <- {f \in Fiber : ending[f] # 0}

ImplementsMap == Map!Spec

=============================================================================
