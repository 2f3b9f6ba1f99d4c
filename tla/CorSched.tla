------------------------------ MODULE CorSched ------------------------------
(***************************************************************************)
(* The scheduler of one thread (corThread.c): the ready and dead rings of  *)
(* struct THREAD, the table corthreads[0..slot), the structs CT_CORTHREAD  *)
(* and who executes.  Fibers are cooperative: a call of the library runs   *)
(* alone up to the SwitchToFiber it ends in, so it is one action.          *)
(*                                                                         *)
(* Left out: errnum, exitcode, switched (the number of switches), arg,     *)
(* holding and base, which steer nothing here; the specific data, which    *)
(* are in module FiberLocal; and the count_inc/count_dec of the sleeping   *)
(* fibers, a contribution to `count' that nothing reads.  The hook switch  *)
(* var_hook_sys_api is on while the scheduler runs and off otherwise:      *)
(* `scheduled' stands for it too.                                          *)
(***************************************************************************)
EXTENDS Integers, FiniteSets, RingSeq

CONSTANTS
  Fiber,     \* the structs CT_CORTHREAD the heap can hold
  Original,  \* the context the thread was converted to a fiber with
  Null,      \* the null pointer
  MaxCache,  \* MAX_CACHE
  Grow,      \* by how many entries the table of fibers grows
  IdMod,     \* 2^32: the type of idgen wraps
  Signals,   \* the signal numbers fibers send to one another
  SIGTERM,
  CountMax   \* bound: a fiber is created only while count is below it

ASSUME SchedAssumption ==
  /\ Original \notin Fiber /\ Null \notin Fiber
  /\ MaxCache \in Nat
  /\ Grow \in Nat \ {0}
  /\ IdMod \in Nat /\ IdMod > 1
  /\ Signals \subseteq Nat /\ SIGTERM \in Nat
  /\ CountMax \in Nat

VARIABLES
  ready,      \* THREAD.ready, a ring
  dead,       \* THREAD.dead, a ring
  slots,      \* THREAD.corthreads[0..slot), slot k of the source at k + 1
  size,       \* THREAD.size, the allocated length of corthreads
  running,    \* THREAD.running
  idgen,      \* THREAD.idgen
  count,      \* THREAD.count
  scheduled,  \* __scheduled
  auto,       \* __schedule_auto
  heap,       \* the structs that are allocated
  fib,        \* their fields
  cpu         \* the context that executes

tvars == <<ready, dead, slots, size, running, idgen, count>>
vars == <<ready, dead, slots, size, running, idgen, count, scheduled, auto, heap, fib, cpu>>

Status == {"READY", "EXITING"}

Struct == [status : Status, slot : Nat, id : 0 .. IdMod - 1, sys : BOOLEAN,
           killed : BOOLEAN, signum : Nat]

\* What calloc leaves in a struct; it stands for a struct that is not allocated too.
Blank == [status |-> "READY", slot |-> 0, id |-> 0, sys |-> FALSE, killed |-> FALSE, signum |-> 0]

Live == ToSet(slots)

Init ==
  /\ ready = <<>> /\ dead = <<>> /\ slots = <<>>
  /\ size = 0 /\ idgen = 0 /\ count = 0
  /\ running = Null
  /\ scheduled = FALSE /\ auto = FALSE
  /\ heap = {}
  /\ fib = [f \in Fiber |-> Blank]
  /\ cpu = Original

\* The library is called by the fiber that runs, or by the thread's own code
\* while it is not inside ct_corthread_schedule.
MayCall == cpu \in Fiber \/ ~scheduled

-----------------------------------------------------------------------------
(* Creating fibers.                                                        *)

\* corthread_alloc takes the oldest dead struct, or a new one from the heap.
Allocated(f) == IF dead # <<>> THEN f = Head(dead) ELSE f \in Fiber \ heap

\* Mutant: idgen only incremented.
NextIdUnwrapped == idgen + 1

\* The unsigned idgen wraps, and skips 0.
NextId == IF (idgen + 1) % IdMod = 0 THEN 1 ELSE (idgen + 1) % IdMod

\* Mutant: the status of the reused struct stays EXITING.
FreshKeepsStatus(f) == [fib[f] EXCEPT !.slot = Len(slots) + 1, !.id = NextId,
                                      !.killed = FALSE, !.signum = 0]

\* Every field is set again but sys: a reused struct keeps it.
Fresh(f) == [status |-> "READY", slot |-> Len(slots) + 1, id |-> NextId, sys |-> fib[f].sys,
             killed |-> FALSE, signum |-> 0]

\* ct_corthread_create.  With automatic scheduling the first call starts
\* ct_corthread_schedule, whose loop is ScheduleNext and ScheduleEnd.
Create(f) ==
  /\ MayCall
  /\ count < CountMax
  /\ Allocated(f)
  /\ dead' = IF dead # <<>> THEN Tail(dead) ELSE dead
  /\ heap' = heap \cup {f}
  /\ idgen' = NextId
  /\ count' = count + 1
  /\ size' = IF Len(slots) >= size THEN size + Grow ELSE size
  /\ slots' = Append(slots, f)
  /\ fib' = [fib EXCEPT ![f] = Fresh(f)]
  /\ ready' = RingPrepend(ready, f)
  /\ scheduled' = (scheduled \/ auto)
  /\ UNCHANGED <<running, auto, cpu>>

\* ct_corthread_schedule_init.
ScheduleInit(on) ==
  /\ MayCall
  /\ auto' = on
  /\ UNCHANGED <<tvars, scheduled, heap, fib, cpu>>

-----------------------------------------------------------------------------
(* Leaving the CPU.                                                        *)

\* Mutant: running is not set.
SwitchKeepsRunning(r) ==
  /\ UNCHANGED running
  /\ IF r = <<>> THEN cpu' = Original /\ ready' = r ELSE cpu' = Head(r) /\ ready' = Tail(r)

\* ct_corthread_switch with r the ready ring: the first ready fiber runs; without
\* one the original context goes on, and running stays what it is.
SwitchTo(r) ==
  IF r = <<>>
    THEN cpu' = Original /\ ready' = r /\ UNCHANGED running
    ELSE cpu' = Head(r) /\ running' = Head(r) /\ ready' = Tail(r)

\* ct_corthread_switch: the running fiber suspends itself.
Suspend(f) ==
  /\ cpu = f
  /\ SwitchTo(ready)
  /\ UNCHANGED <<dead, slots, size, idgen, count, scheduled, auto, heap, fib>>

\* ct_corthread_yield; with nobody ready it returns 0 at once.
Yield(f) ==
  /\ cpu = f
  /\ ready # <<>>
  /\ fib' = [fib EXCEPT ![f].status = "READY"]
  /\ SwitchTo(RingPrepend(ready, f))
  /\ UNCHANGED <<dead, slots, size, idgen, count, scheduled, auto, heap>>

\* Mutant: kick one fiber too late.
SurplusLate == IF Len(dead) > MaxCache + 1 THEN Len(dead) - MaxCache ELSE 0

\* The structs corthread_kick frees: the oldest ones, down to MaxCache.
Surplus == IF Len(dead) > MaxCache THEN Len(dead) - MaxCache ELSE 0
Kicked == ToSet(SubSeq(dead, 1, Surplus))

\* Mutant: the last entry is cut off, not moved.
SlotsCut(f) == [i \in 1 .. Len(slots) - 1 |-> slots[i]]

\* The table without f: the last entry takes its place.
SlotsWithout(f) ==
  [i \in 1 .. Len(slots) - 1 |-> IF i = fib[f].slot THEN slots[Len(slots)] ELSE slots[i]]

CountWithout(f) == IF fib[f].sys THEN count ELSE count - 1

\* corthread_exit and, as its status is EXITING, what corthread_swap does before
\* it leaves the context of f for the last time.
Exit(f) ==
  /\ cpu = f
  /\ dead' = RingPrepend(SubSeq(dead, Surplus + 1, Len(dead)), f)
  /\ heap' = heap \ Kicked
  /\ count' = CountWithout(f)
  /\ slots' = SlotsWithout(f)
  /\ fib' = [g \in Fiber |->
               IF g \in Kicked THEN Blank
               ELSE IF g = f THEN [fib[f] EXCEPT !.status = "EXITING"]
               ELSE IF g = slots[Len(slots)] THEN [fib[g] EXCEPT !.slot = fib[f].slot]
               ELSE fib[g]]
  /\ SwitchTo(ready)
  /\ UNCHANGED <<size, idgen, scheduled, auto>>

-----------------------------------------------------------------------------
(* Waking others.                                                          *)

\* The caller has seen g suspend itself: it is alive and nobody made it ready.
Suspended(g) == g \in Live /\ g # cpu /\ g \notin ToSet(ready)

MakeReady(g) ==
  IF fib[g].status # "EXITING"
    THEN /\ fib' = [fib EXCEPT ![g].status = "READY"]
         /\ ready' = RingPrepend(ready, g)
    ELSE UNCHANGED <<fib, ready>>

\* ct_corthread_ready.
Ready(g) ==
  /\ MayCall
  /\ Suspended(g)
  /\ MakeReady(g)
  /\ UNCHANGED <<dead, slots, size, running, idgen, count, scheduled, auto, heap, cpu>>

\* ct_corthread_signal by the running fiber f, ct_corthread_kill with SIGTERM.
\* Called by the original context it only reports that nobody runs.  The
\* target goes before the caller and both before whoever is ready.
Signal(f, g, s) ==
  /\ cpu = f
  /\ g \in Live
  /\ LET hit == [fib[g] EXCEPT !.signum = s, !.killed = @ \/ s = SIGTERM]
     IN  IF g = f
           THEN /\ fib' = [fib EXCEPT ![g] = hit]
                /\ UNCHANGED <<ready, running, cpu>>
           ELSE /\ fib' = [fib EXCEPT ![g] = [hit EXCEPT !.status = "READY"],
                                      ![f].status = "READY"]
                /\ SwitchTo(RingAppend(RingAppend(RingDetach(ready, g), f), g))
  /\ UNCHANGED <<dead, slots, size, idgen, count, scheduled, auto, heap>>

\* corthread_system: the running fiber is one of the library's own.
System(f) ==
  /\ cpu = f
  /\ ~fib[f].sys
  /\ fib' = [fib EXCEPT ![f].sys = TRUE]
  /\ count' = count - 1
  /\ UNCHANGED <<ready, dead, slots, size, running, idgen, scheduled, auto, heap, cpu>>

-----------------------------------------------------------------------------
(* ct_corthread_schedule, in the original context.                         *)

Schedule ==
  /\ cpu = Original /\ ~scheduled
  /\ scheduled' = TRUE
  /\ UNCHANGED <<tvars, auto, heap, fib, cpu>>

\* The loop's next round.  When the original context gets the CPU back running
\* is reset and, here, set again.
ScheduleNext ==
  /\ cpu = Original /\ scheduled
  /\ ready # <<>>
  /\ fib' = [fib EXCEPT ![Head(ready)].status = "READY"]
  /\ SwitchTo(ready)
  /\ UNCHANGED <<dead, slots, size, idgen, count, scheduled, auto, heap>>

\* Nobody is ready: the dead fibers are freed and ct_corthread_schedule returns.
ScheduleEnd ==
  /\ cpu = Original /\ scheduled
  /\ ready = <<>>
  /\ running' = Null
  /\ dead' = <<>>
  /\ heap' = heap \ ToSet(dead)
  /\ fib' = [g \in Fiber |-> IF g \in ToSet(dead) THEN Blank ELSE fib[g]]
  /\ scheduled' = FALSE
  /\ UNCHANGED <<ready, slots, size, idgen, count, auto, cpu>>

-----------------------------------------------------------------------------

\* What the running fiber may do to give the CPU up.
GiveUp(f) == Suspend(f) \/ Yield(f) \/ Exit(f)

Next ==
  \/ \E f \in Fiber : Create(f) \/ Ready(f) \/ GiveUp(f) \/ System(f)
  \/ \E f, g \in Fiber, s \in Signals : Signal(f, g, s)
  \/ \E on \in BOOLEAN : ScheduleInit(on)
  \/ Schedule \/ ScheduleNext \/ ScheduleEnd

Spec == Init /\ [][Next]_vars

\* ct_corthread_schedule runs on, and no fiber keeps the CPU for ever: it calls
\* something that gives it up.  Signals put their target before the others, so
\* they come to an end, at any time.
Fairness ==
  /\ WF_vars(ScheduleNext \/ ScheduleEnd) /\ WF_vars(\E f \in Fiber : GiveUp(f))
  /\ <>[][~\E f, g \in Fiber, s \in Signals : Signal(f, g, s)]_vars

FairSpec == Spec /\ Fairness

-----------------------------------------------------------------------------
(* Properties.                                                             *)

TypeOK ==
  /\ ready \in Seq(Fiber) /\ dead \in Seq(Fiber) /\ slots \in Seq(Fiber)
  /\ size \in Nat /\ idgen \in 0 .. IdMod - 1 /\ count \in Int
  /\ running \in Fiber \cup {Null}
  /\ scheduled \in BOOLEAN /\ auto \in BOOLEAN
  /\ heap \subseteq Fiber
  /\ fib \in [Fiber -> Struct]
  /\ cpu \in Fiber \cup {Original}

\* A fiber is linked into one ring at most and once: circle.c inserts an entry
\* without unlinking it, so a second insertion would tear the rings apart.  The
\* fiber that executes is in no ring: nobody may switch to it, reuse its struct
\* or delete its context (alloc, kick and schedule take what the rings hold).
OnePlace ==
  /\ Distinct(ready) /\ Distinct(dead)
  /\ ToSet(ready) \cap ToSet(dead) = {}
  /\ cpu \notin ToSet(ready) \cup ToSet(dead)

\* The table lists the fibers that have not finished, each once and where its
\* slot says, whatever the order in which the fibers exit and swap places; all
\* that is ready or executes is in the table, and the table fits its memory.
SlotTable ==
  /\ \A k \in DOMAIN slots : fib[slots[k]].slot = k
  /\ Live = heap \ ToSet(dead) /\ ToSet(dead) \subseteq heap
  /\ ToSet(ready) \subseteq Live /\ cpu \in Live \cup {Original}
  /\ Len(slots) <= size

\* corthread_ready drops a fiber whose status is EXITING: that is so of the dead
\* fibers and of no other, so a wakeup is never dropped and never revives one.
ExitingIsDead == \A f \in heap : fib[f].status = "EXITING" <=> f \in ToSet(dead)

\* ct_corthread_running names the fiber that executes as long as one does, and
\* nobody once ct_corthread_schedule has returned.
RunningIsCpu ==
  /\ cpu \in Fiber => running = cpu /\ scheduled
  /\ ~scheduled => running = Null

\* corthread_kick runs before the exiting fiber joins the dead ring: the cache
\* holds at most one struct more than MAX_CACHE, however many fibers exit.
CacheBound == Len(dead) <= MaxCache + 1

\* A fiber never has the id 0, by which ct_corthread_self reports that no fiber
\* runs, not even when idgen wraps.
IdsAreNotZero == \A f \in heap : fib[f].id # 0

\* What a struct is to the user: the state of a cooperative task.
TaskOf ==
  [f \in Fiber |->
     IF f \notin heap THEN "none"
     ELSE IF f = cpu THEN "running"
     ELSE IF f \in ToSet(dead) THEN "finished"
     ELSE IF f \in ToSet(ready) THEN "ready" ELSE "suspended"]

Tasks == INSTANCE CoopTasks WITH
  Task <- Fiber, Main <- Original, task <- TaskOf, holder <- cpu

\* The scheduler implements cooperative tasks: mutual exclusion on the CPU, no
\* preemption, no finished fiber that runs again without ct_corthread_create.
ImplementsTasks == Tasks!Spec

\* A fiber that is ready while the scheduler runs gets the CPU, wherever signals
\* have put it and even when the others yield or wake one another for ever, and
\* the scheduler does not return before.
ReadyRuns == \A f \in Fiber : (scheduled /\ f \in ToSet(ready)) ~> cpu = f

=============================================================================
