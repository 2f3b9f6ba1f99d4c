------------------------------- MODULE CorIo -------------------------------
(***************************************************************************)
(* Fibers that do I/O and sleep: the scheduler (CorSched), the poller      *)
(* (Poller, which EventLoop implements) and what corThread_io.c, io.c and  *)
(* socket.c put between them: the I/O fiber's loop, the ring of timers,    *)
(* FILE_EVENT.corthread, and the hooked calls that block a fiber.          *)
(*                                                                         *)
(* A fiber's user code may do anything the constants allow between calls.  *)
(* corthread_io_check, which creates the I/O fiber when there is none, is  *)
(* a step of its own wherever the code calls it: no other context runs     *)
(* between it and the rest of the call, whose guard is io # Null.          *)
(*                                                                         *)
(* Left out: io_count and nsleeping, which only messages read; the timeout *)
(* given to select, which bounds how late the loop notices something; the  *)
(* exceptional conditions, which count as readable and writable.           *)
(***************************************************************************)
EXTENDS Integers, FiniteSets, RingSeq

CONSTANTS
  Fiber, Original, Null, MaxCache, Grow, IdMod, Signals, SIGTERM, CountMax,  \* as in CorSched
  Fd,        \* descriptors
  Ops,       \* the blocking calls in use, among recv, accept, send, connect
  Delays,    \* the milliseconds fibers sleep
  TimeMax,   \* bound: no fiber sleeps beyond this time
  Yields,    \* fibers call ct_corthread_yield
  Stops,     \* whether somebody may call ct_corthread_schedule_stop: a set of
             \* Booleans
  Tidy       \* a fiber that was signalled in a blocking call closes the descriptor next

ASSUME IoAssumption ==
  /\ Original \notin Fiber /\ Null \notin Fiber
  /\ MaxCache \in Nat
  /\ Grow \in Nat \ {0}
  /\ IdMod \in Nat /\ IdMod > 1
  /\ Signals \subseteq Nat /\ SIGTERM \in Nat
  /\ CountMax \in Nat
  /\ IsFiniteSet(Fd)
  /\ Ops \subseteq {"recv", "accept", "send", "connect"}
  /\ Delays \subseteq Nat /\ TimeMax \in Nat
  /\ Stops \subseteq BOOLEAN

VARIABLES
  ready, dead, slots, size, running, idgen, count, scheduled, auto, heap, fib, cpu,
  interest, level,  \* as in Poller
  cor,      \* fe->corthread of each descriptor
  owner,    \* the fiber that opened each descriptor, Null when it is closed
  at,       \* the call each fiber is in: <<"user">>, <<op, fd>>, <<"delay">>, <<"io">>
  timers,   \* ev_timer, a ring
  when,     \* corthread->when
  now,      \* the clock, in milliseconds
  io,       \* ev_corthread
  iopc,     \* where the I/O fiber is in its loop
  iotimer,  \* its variable timer
  iofds,    \* ev->fdcount when select was called
  ionow,    \* its variable now, read after select
  due,      \* what select found, still to be called back
  stop      \* on: io_stop; may: whether somebody may call
            \* ct_corthread_schedule_stop in this behaviour

schedvars == <<ready, dead, slots, size, running, idgen, count, scheduled, auto, heap, fib, cpu>>
pollvars == <<interest, level>>
loopvars == <<iopc, iotimer, iofds, ionow, due>>
vars == <<schedvars, pollvars, cor, owner, at, timers, when, now, io, loopvars, stop>>

S == INSTANCE CorSched
P == INSTANCE Poller WITH Dir <- {"R", "W"}, calling <- iopc = "dispatch"

User == <<"user">>
Calls == Ops \X Fd

DirOf(op) == IF op \in {"recv", "accept"} THEN "R" ELSE "W"

Init ==
  /\ iopc = "none"
  /\ S!Init /\ P!Init
  /\ cor = [d \in Fd |-> Null] /\ owner = [d \in Fd |-> Null]
  /\ at = [f \in Fiber |-> User]
  /\ timers = <<>> /\ when = [f \in Fiber |-> 0] /\ now = 0
  /\ io = Null /\ iotimer = Null /\ iofds = 0 /\ ionow = 0 /\ due = {}
  /\ stop \in [on : {FALSE}, may : Stops]

-----------------------------------------------------------------------------
(* The user's code.                                                        *)

\* Interest that was left behind when a signal ended the wait for it.
Stale(f) == {d \in Fd : interest[d] # {} /\ cor[d] = f}

Running(f) == cpu = f /\ at[f] = User

\* The fiber may go on with something else than closing its descriptor.
Free(f) == Tidy => Stale(f) = {}

\* A fiber uses its own descriptors: FILE_EVENT.corthread has room for one.
MayUse(f, d) == owner[d] \in {Null, f}

\* Bound: the last struct is for the I/O fiber.
Room == io # Null \/ Cardinality(Fiber \ S!Live) > 1

Create(g) ==
  /\ Room
  /\ cpu \in Fiber => Running(cpu) /\ Free(cpu)
  /\ S!Create(g)
  /\ at' = [at EXCEPT ![g] = User]
  /\ UNCHANGED <<pollvars, cor, owner, timers, when, now, io, loopvars, stop>>

\* A fiber closes what it opened before it exits.
Exit(f) ==
  /\ Running(f) /\ Free(f)
  /\ \A d \in Fd : owner[d] # f
  /\ S!Exit(f)
  /\ UNCHANGED <<pollvars, cor, owner, at, timers, when, now, io, loopvars, stop>>

Yield(f) ==
  /\ Yields
  /\ Running(f) /\ Free(f)
  /\ S!Yield(f)
  /\ UNCHANGED <<pollvars, cor, owner, at, timers, when, now, io, loopvars, stop>>

\* Bound: where somebody may stop the I/O fiber, the only signal is the kill.
Sent(s) == stop.may => s = SIGTERM

\* ct_corthread_signal also unlinks a sleeping fiber from the timers.  The
\* library's own fiber is not the user's to signal.
Signal(f, g, s) ==
  /\ Running(f) /\ Free(f)
  /\ Sent(s)
  /\ g # io
  /\ S!Signal(f, g, s)
  /\ timers' = IF g # f THEN RingDetach(timers, g) ELSE timers
  /\ UNCHANGED <<pollvars, cor, owner, at, when, now, io, loopvars, stop>>

\* ct_corthread_schedule by the thread's own code, and its loop.
Main ==
  /\ S!Schedule \/ S!ScheduleNext \/ S!ScheduleEnd
  /\ UNCHANGED <<pollvars, cor, owner, at, timers, when, now, io, loopvars, stop>>

\* ct_corthread_schedule_stop.  Where it may be called nobody sleeps: IoCheck
\* would initialize the ring of timers with the sleepers still linked.
ScheduleStop ==
  /\ stop.may
  /\ S!MayCall
  /\ cpu \in Fiber => Running(cpu)
  /\ io # Null
  /\ ~stop.on
  /\ stop' = [stop EXCEPT !.on = TRUE]
  /\ UNCHANGED <<schedvars, pollvars, cor, owner, at, timers, when, now, io, loopvars>>

-----------------------------------------------------------------------------
(* Sleeping.                                                               *)

\* Mutant: no search, a new timer goes to the far end.
TimerPlaceLast(w) == Len(timers)

\* The place of the timer behind which a new one goes: the search of
\* ct_corthread_delay from the far end stops at the first that is not later.
TimerPlace(w) == Max({0} \cup {i \in DOMAIN timers : when[timers[i]] <= w})

\* ct_corthread_delay up to its switch.
Delay(f, ms) ==
  /\ Running(f) /\ Free(f)
  /\ ~stop.may
  /\ io # Null
  /\ now + ms <= TimeMax
  /\ S!Suspend(f)
  /\ at' = [at EXCEPT ![f] = <<"delay">>]
  /\ when' = [when EXCEPT ![f] = now + ms]
  /\ timers' = InsertAt(timers, TimerPlace(now + ms) + 1, f)
  /\ UNCHANGED <<pollvars, cor, owner, now, io, loopvars, stop>>

\* Nobody reads when after that; here it is 0 while the fiber does not sleep.
DelayReturn(f) ==
  /\ cpu = f
  /\ at[f] = <<"delay">>
  /\ at' = [at EXCEPT ![f] = User]
  /\ when' = [when EXCEPT ![f] = 0]
  /\ UNCHANGED <<schedvars, pollvars, cor, owner, timers, now, io, loopvars, stop>>

\* Time passes; it does not matter where nobody sleeps.
Tick ==
  /\ ~stop.may
  /\ now < TimeMax
  /\ now' = now + 1
  /\ UNCHANGED <<schedvars, pollvars, cor, owner, at, timers, when, io, loopvars, stop>>

-----------------------------------------------------------------------------
(* Blocking calls.                                                         *)

Holds(d, dir) == <<d, dir>> \in level

\* corthread_file_open for a descriptor that is unknown yet.
FileOpen(f, d) == owner' = [owner EXCEPT ![d] = IF @ = Null THEN f ELSE @]

\* corthread_wait_read and corthread_wait_write.
Wait(f, op, d) ==
  /\ cor' = [cor EXCEPT ![d] = f]
  /\ P!Arm(d, DirOf(op))
  /\ S!Suspend(f)

\* recv and recvfrom wait before they try; the others try first and come here
\* when the call would block (connect: is in progress).
Block(f, op, d) ==
  /\ Running(f) /\ Free(f)
  /\ io # Null
  /\ MayUse(f, d)
  /\ op # "recv" => ~Holds(d, DirOf(op))
  /\ Wait(f, op, d)
  /\ FileOpen(f, d)
  /\ at' = [at EXCEPT ![f] = <<op, d>>]
  /\ UNCHANGED <<timers, when, now, io, loopvars, stop>>

\* What the call takes may have been all there was.
Consumed(d, dir) == level' \in {level, level \ {<<d, dir>>}} /\ UNCHANGED interest

\* A call that need not block; to the model it opens the descriptor all the same.
Immediate(f, op, d) ==
  /\ Running(f) /\ Free(f)
  /\ op # "recv" /\ MayUse(f, d) /\ Holds(d, DirOf(op))
  /\ Consumed(d, DirOf(op))
  /\ FileOpen(f, d)
  /\ UNCHANGED <<schedvars, cor, at, timers, when, now, io, loopvars, stop>>

\* Mutant: nobody looks whether the fiber was killed.
KilledIgnored(d) == FALSE

\* ct_corthread_killed(fe->corthread).
Killed(d) == fib[cor[d]].killed

\* The fiber runs again and the call would not block: connect looks at the
\* outcome whatever it is.
Over(op, d) == op = "connect" \/ Holds(d, DirOf(op)) \/ Killed(d)

\* The wait of a blocking call is over and the call returns: with what it waited
\* for, with a failure, or because the fiber was killed.  accept, send and
\* connect look at that before they try again, recv after.
Return(f, op, d) ==
  /\ cpu = f /\ at[f] = <<op, d>>
  /\ Over(op, d)
  /\ IF Holds(d, DirOf(op)) /\ (op = "recv" \/ ~Killed(d))
       THEN Consumed(d, DirOf(op)) ELSE UNCHANGED pollvars
  /\ at' = [at EXCEPT ![f] = User]
  /\ UNCHANGED <<schedvars, cor, owner, timers, when, now, io, loopvars, stop>>

\* The call must be waited for once more: corthread_wait_read and
\* corthread_wait_write begin with corthread_io_check.
WaitsAgain(f) == \E op \in Ops, d \in Fd : at[f] = <<op, d>> /\ ~Over(op, d)

\* corthread_io_check without an I/O fiber.  A new one starts with no timers.
IoCheck(g) ==
  /\ io = Null
  /\ cpu \in Fiber => Running(cpu) \/ WaitsAgain(cpu)
  /\ S!Create(g)
  /\ io' = g
  /\ at' = [at EXCEPT ![g] = <<"io">>]
  /\ iopc' = "start"
  /\ timers' = <<>>
  /\ stop' = [stop EXCEPT !.on = FALSE]
  /\ UNCHANGED <<pollvars, cor, owner, when, now, iotimer, iofds, ionow, due>>

\* The wait is over but the call would block again.
Again(f, op, d) ==
  /\ cpu = f /\ at[f] = <<op, d>>
  /\ ~Over(op, d)
  /\ io # Null
  /\ Wait(f, op, d)
  /\ UNCHANGED <<owner, at, timers, when, now, io, loopvars, stop>>

\* Mutant: event_close is not called.
FileCloseKeepsInterest(d) ==
  /\ level' = {c \in level : c[1] # d} /\ UNCHANGED interest
  /\ cor' = [cor EXCEPT ![d] = Null]
  /\ owner' = [owner EXCEPT ![d] = Null]

\* corthread_file_close.
FileClose(d) ==
  /\ P!Close(d)
  /\ cor' = [cor EXCEPT ![d] = Null]
  /\ owner' = [owner EXCEPT ![d] = Null]

\* Bound: at CountMax there cannot be another I/O fiber, and a close goes on
\* without: it needs none.
IoChecked == io # Null \/ count >= CountMax

\* ct_corthread_close by the fiber that uses the descriptor.
Close(f, d) ==
  /\ Running(f)
  /\ IoChecked
  /\ owner[d] = f
  /\ FileClose(d)
  /\ UNCHANGED <<schedvars, at, timers, when, now, io, loopvars, stop>>

\* A peer sends, reads or connects.
Arrive(d, dir) ==
  /\ owner[d] # Null
  /\ ~Holds(d, dir)
  /\ P!Arrive(d, dir)
  /\ UNCHANGED <<schedvars, cor, owner, at, timers, when, now, io, loopvars, stop>>

-----------------------------------------------------------------------------
(* corthread_io_loop.                                                      *)

AtLoop(l) == io # Null /\ cpu = io /\ iopc = l

LoopStart ==
  /\ AtLoop("start")
  /\ iopc' = "yield"
  /\ IF fib[io].sys THEN UNCHANGED schedvars ELSE S!System(io)
  /\ UNCHANGED <<pollvars, cor, owner, at, timers, when, now, io, iotimer, iofds, ionow, due, stop>>

\* while (ct_corthread_yield() > 0): the others run until nobody is ready.
LoopYield ==
  /\ AtLoop("yield")
  /\ S!Yield(io)
  /\ UNCHANGED <<pollvars, cor, owner, at, timers, when, now, io, loopvars, stop>>

\* Nobody is ready: the first timer is looked up and event_process selects.
LoopPoll ==
  /\ AtLoop("yield")
  /\ ready = <<>>
  /\ iotimer' = IF timers = <<>> THEN Null ELSE Head(timers)
  /\ iofds' = Cardinality({d \in Fd : interest[d] # {}})
  /\ due' = {c \in Fd \X {"R", "W"} : c[2] \in interest[c[1]] /\ c \in level}
  /\ iopc' = "dispatch"
  /\ UNCHANGED <<schedvars, pollvars, cor, owner, at, timers, when, now, io, ionow, stop>>

\* ct_corthread_ready as the loop calls it, whatever the fiber is doing.
MakeReady(g) ==
  /\ S!MakeReady(g)
  /\ UNCHANGED <<dead, slots, size, running, idgen, count, scheduled, auto, heap, cpu>>

\* read_callback and write_callback.
Callback(d, dir) ==
  /\ AtLoop("dispatch")
  /\ <<d, dir>> \in due
  /\ due' = due \ {<<d, dir>>}
  /\ P!Deliver(d, {dir})
  /\ MakeReady(cor[d])
  /\ UNCHANGED <<cor, owner, at, timers, when, now, io, iopc, iotimer, iofds, ionow, stop>>

\* Mutant: the loop gives up when there are no timers.
LoopEndsWithoutTimers == stop.on \/ iotimer = Null

\* Mutant: the loop gives up when nobody waits for a descriptor.
LoopEndsWithoutFds == stop.on \/ iofds = 0

\* The loop breaks after event_process.
LoopEnds == stop.on \/ (iotimer = Null /\ iofds = 0)

\* The I/O fiber returns from its function.
LoopExit ==
  /\ AtLoop("dispatch") /\ due = {}
  /\ LoopEnds
  /\ S!Exit(io)
  /\ io' = Null
  /\ iopc' = "none" /\ iotimer' = Null /\ iofds' = 0 /\ ionow' = 0
  /\ at' = [at EXCEPT ![io] = User]
  /\ UNCHANGED <<pollvars, cor, owner, timers, when, now, due, stop>>

\* Mutant: off by one millisecond.
ExpiredEarly(w, t) == t + 1 >= w

Expired(w, t) == t >= w

\* No timer, or the first one is not due yet: the loop goes on.
LoopAgain ==
  /\ AtLoop("dispatch") /\ due = {}
  /\ ~LoopEnds
  /\ iotimer # Null => ~Expired(when[iotimer], now)
  /\ iopc' = "yield"
  /\ iotimer' = Null /\ iofds' = 0
  /\ UNCHANGED <<schedvars, pollvars, cor, owner, at, timers, when, now, io, ionow, due, stop>>

LoopExpire ==
  /\ AtLoop("dispatch") /\ due = {}
  /\ ~LoopEnds
  /\ iotimer # Null /\ Expired(when[iotimer], now)
  /\ iopc' = "expire" /\ ionow' = now
  /\ UNCHANGED <<schedvars, pollvars, cor, owner, at, timers, when, now, io, iotimer, iofds, due, stop>>

\* One round of the do loop: the timer at hand is woken; the next one follows if
\* it is due.
Expire ==
  /\ AtLoop("expire")
  /\ timers' = RingDetach(timers, iotimer)
  /\ MakeReady(iotimer)
  /\ IF timers' # <<>> /\ Expired(when[Head(timers')], ionow)
       THEN iotimer' = Head(timers') /\ UNCHANGED <<iopc, iofds, ionow>>
       ELSE iotimer' = Null /\ iopc' = "yield" /\ iofds' = 0 /\ ionow' = 0
  /\ UNCHANGED <<pollvars, cor, owner, at, when, now, io, due, stop>>

-----------------------------------------------------------------------------

Loop ==
  \/ LoopStart \/ LoopYield \/ LoopPoll \/ LoopExit \/ LoopAgain \/ LoopExpire \/ Expire
  \/ \E d \in Fd, dir \in {"R", "W"} : Callback(d, dir)

\* What a fiber does that ends in a switch or a return to the user's code.
Resume(f) == DelayReturn(f) \/ \E op \in Ops, d \in Fd : Return(f, op, d) \/ Again(f, op, d)

GiveUp(f) ==
  \/ Exit(f)
  \/ \E ms \in Delays : Delay(f, ms)
  \/ \E op \in Ops, d \in Fd : Block(f, op, d)

Next ==
  \/ \E f \in Fiber : Create(f) \/ IoCheck(f) \/ Yield(f) \/ Resume(f) \/ GiveUp(f)
  \/ \E f, g \in Fiber, s \in Signals : Signal(f, g, s)
  \/ \E f \in Fiber, op \in Ops, d \in Fd : Immediate(f, op, d)
  \/ \E f \in Fiber, d \in Fd : Close(f, d)
  \/ \E d \in Fd, dir \in {"R", "W"} : Arrive(d, dir)
  \/ Main \/ ScheduleStop \/ Tick \/ Loop

Spec == Init /\ [][Next]_vars

\* The I/O fiber and ct_corthread_schedule run on, time passes, calls return, no
\* fiber keeps the CPU for ever or its descriptors when it can do nothing else,
\* and the users stop creating fibers.
Fairness ==
  /\ WF_vars(Loop) /\ WF_vars(Main) /\ WF_vars(Tick)
  /\ WF_vars(\E f \in Fiber : Resume(f))
  /\ WF_vars(\E f \in Fiber : GiveUp(f) \/ (cpu \in Fiber /\ IoCheck(f)))
  /\ WF_vars(\E f \in Fiber, d \in Fd : Close(f, d))
  /\ <>[][\A f \in Fiber : ~Create(f)]_vars

FairSpec == Spec /\ Fairness

-----------------------------------------------------------------------------
(* Properties.                                                             *)

IsSuspended(f) == f \in heap /\ S!Suspended(f)

\* `me' links a fiber into ready, dead or ev_timer, and circle.c inserts it into
\* one without looking at the others: timers, wakeups, signals and exits together
\* never have it in two, nor in one while it executes.
OneRing ==
  /\ S!OnePlace
  /\ Distinct(timers)
  /\ ToSet(timers) \cap (ToSet(ready) \cup ToSet(dead) \cup {cpu}) = {}

\* ev_timer is sorted, though ct_corthread_delay searches it from the far end and
\* signals take timers out of its middle: the loop looks at the first one only.
TimersSorted == \A i, j \in DOMAIN timers : i < j => when[timers[i]] <= when[timers[j]]

\* Nobody is forgotten: whoever is suspended in a blocking call has the poller
\* watch the condition it waits for and is the one FILE_EVENT.corthread names;
\* whoever sleeps is in ev_timer; and, where nobody stops it, there is an I/O
\* fiber, ready or executing, to serve them, so that ct_corthread_schedule does not
\* return before they have been.
NobodyIsForgotten ==
  \A f \in Fiber : IsSuspended(f) =>
    /\ \A op \in Ops, d \in Fd : at[f] = <<op, d>> => DirOf(op) \in interest[d] /\ cor[d] = f
    /\ at[f] = <<"delay">> => f \in ToSet(timers)
    /\ ~stop.may => io # Null /\ io \in ToSet(ready) \cup {cpu}

\* The loop wakes a fiber only if it is suspended (the precondition of
\* ct_corthread_ready, which does not look) and in the very call that the
\* callback or the timer belongs to.
WakesTheWaiter ==
  [][ /\ \A d \in Fd, dir \in {"R", "W"} : Callback(d, dir) =>
           /\ IsSuspended(cor[d])
           /\ \E op \in Ops : at[cor[d]] = <<op, d>> /\ DirOf(op) = dir
      /\ Expire => IsSuspended(iotimer) /\ at[iotimer] = <<"delay">> ]_vars

\* ct_corthread_delay does not return before its time, unless a signal cut it
\* short: then the fiber keeps the signal's number.
NotEarly ==
  [][\A f \in Fiber : DelayReturn(f) => now >= when[f] \/ fib[f].signum # 0]_vars

\* A fiber that is killed in a blocking call comes back from it: it does not wait
\* once more for what may never happen.
KillEndsCall ==
  [][\A f \in Fiber : cpu = f /\ at[f] \in Calls /\ fib[f].killed => cpu' = f]_vars

\* With its I/O fiber, its timers and its callbacks the library is the scheduler
\* of CorSched: all its wakeups are legal uses of ct_corthread_ready.
ImplementsSched == S!Spec

\* Unless fibers yield all the time, a fiber in a blocking call gets to run once
\* what it waits for is there, whatever other fibers, timers and sockets do.
BlockedServed ==
  \A f \in Fiber, op \in Ops, d \in Fd :
    (at[f] = <<op, d>> /\ Holds(d, DirOf(op))) ~> cpu = f

\* Every sleeping fiber wakes up.
SleepersWake == \A f \in Fiber : (at[f] = <<"delay">>) ~> (at[f] # <<"delay">>)

\* "add the suspended corthread into resuming queue" (corThread_base.h:121 of the
\* demos), said of ct_corthread_ready: what the loop adds is suspended.
ReadiesSuspended ==
  [][\A d \in Fd, dir \in {"R", "W"} : Callback(d, dir) => IsSuspended(cor[d])]_vars

\* "stop the corthread schedule process, all corthreads will be stopped"
\* (corThread_base.h:172), said of ct_corthread_schedule_stop.
StopStops == (stop.on /\ scheduled /\ io # Null) ~> ~scheduled

=============================================================================
