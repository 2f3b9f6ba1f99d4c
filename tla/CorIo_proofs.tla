---------------------------- MODULE CorIo_proofs ----------------------------
(***************************************************************************)
(* With the I/O fiber, its timers and its callbacks the scheduler keeps    *)
(* its invariants and nobody is forgotten, for any fibers, descriptors and *)
(* times.  The fibers are those that close a descriptor on which a signal  *)
(* ended their wait before they do anything else (Tidy).                   *)
(***************************************************************************)
EXTENDS CorIo, RingSeq_proofs, FiniteSetTheorems, TLAPS

\* The scheduler with its theorems; S has the same definitions.
Sched == INSTANCE CorSched_proofs

\* The fibers that are suspended.
Parked == {f \in Fiber : S!Suspended(f)}

\* The types of the variables that are not the scheduler's.
IoTypes ==
  /\ interest \in [Fd -> SUBSET {"R", "W"}]
  /\ cor \in [Fd -> Fiber \cup {Null}] /\ owner \in [Fd -> Fiber \cup {Null}]
  /\ at \in [Fiber -> Calls \cup {User, <<"delay">>, <<"io">>}]
  /\ timers \in Seq(Fiber) /\ when \in [Fiber -> Nat] /\ now \in Nat
  /\ io \in Fiber \cup {Null} /\ iotimer \in Fiber \cup {Null}
  /\ iopc \in {"none", "start", "yield", "dispatch", "expire"}
  /\ due \subseteq Fd \X {"R", "W"}
  /\ stop \in [on : BOOLEAN, may : BOOLEAN]

\* Who is in a call is alive, and a blocking call keeps its descriptor.
InCall ==
  /\ \A f \in Fiber : at[f] # User => f \in S!Live
  /\ \A f \in Fiber, op \in Ops, d \in Fd :
       at[f] = <<op, d>> => owner[d] = f /\ cor[d] = f

\* Where the poller watches, the fiber that FILE_EVENT names waits, or it was
\* signalled and executes.
Watched ==
  \A d \in Fd : interest[d] # {} =>
    /\ cor[d] \in Fiber /\ owner[d] = cor[d]
    /\ cor[d] \in Parked \cup {cpu}
    /\ \/ cpu = cor[d] /\ at[cor[d]] = User
       \/ \E op \in Ops : at[cor[d]] = <<op, d>> /\ interest[d] = {DirOf(op)}

\* Whoever is suspended sleeps or waits.
Waits ==
  \A f \in Parked :
    \/ at[f] = <<"delay">> /\ f \in ToSet(timers)
    \/ \E op \in Ops, d \in Fd : at[f] = <<op, d>> /\ interest[d] = {DirOf(op)}

\* Timers are those of suspended sleepers.
Sleepers ==
  /\ Distinct(timers)
  /\ \A f \in ToSet(timers) : f \in Parked /\ at[f] = <<"delay">>

\* The I/O fiber is never suspended, and executes while it dispatches or expires.
IoRuns ==
  /\ io = Null <=> iopc = "none"
  /\ io # Null => io \in S!Live \ Parked /\ at[io] = <<"io">>
  /\ \A f \in Fiber : at[f] = <<"io">> => f = io
  /\ iopc \in {"dispatch", "expire"} => cpu = io

\* What the loop keeps over a round.
IoData ==
  /\ iopc # "dispatch" => due = {}
  /\ \A c \in due : c[2] \in interest[c[1]] /\ c \in level
  /\ iopc = "dispatch" => iotimer = IF timers = <<>> THEN Null ELSE Head(timers)
  /\ iopc = "dispatch" /\ iofds = 0 => \A d \in Fd : interest[d] = {}
  /\ iopc = "expire" => timers # <<>> /\ iotimer = Head(timers)

\* Without the I/O fiber, or where it may be stopped, nobody sleeps.
Stopping ==
  /\ stop.on => stop.may
  /\ stop.may \/ io = Null => timers = <<>>
  /\ ~stop.may /\ io = Null => Parked = {}

\* The inductive invariant.
Inv ==
  /\ Sched!Inv
  /\ IoTypes /\ InCall /\ Watched /\ Waits /\ Sleepers /\ IoRuns /\ IoData /\ Stopping
  /\ TimersSorted

-----------------------------------------------------------------------------
(* The scheduler's steps.                                                  *)

USE IoAssumption DEF IoAssumption

\* The operators on rings that the instances of the scheduler bring with them.
LEMMA SameRings ==
  /\ \A r : S!ToSet(r) = ToSet(r) /\ Sched!ToSet(r) = ToSet(r)
  /\ \A r : S!Distinct(r) = Distinct(r) /\ Sched!Distinct(r) = Distinct(r)
  /\ \A r, e : /\ S!RingPrepend(r, e) = RingPrepend(r, e)
               /\ Sched!RingPrepend(r, e) = RingPrepend(r, e)
  /\ \A r, e : /\ S!RingAppend(r, e) = RingAppend(r, e)
               /\ Sched!RingAppend(r, e) = RingAppend(r, e)
  /\ \A r, e : /\ S!RingDetach(r, e) = RingDetach(r, e)
               /\ Sched!RingDetach(r, e) = RingDetach(r, e)
  BY DEF S!ToSet, Sched!ToSet, ToSet, S!Distinct, Sched!Distinct, Distinct,
     S!RingPrepend, Sched!RingPrepend, RingPrepend, S!RingAppend, Sched!RingAppend, RingAppend,
     S!RingDetach, Sched!RingDetach, RingDetach, S!RemoveAt, Sched!RemoveAt, RemoveAt

\* The steps that S names are those that Sched has its theorems about, so they
\* preserve the scheduler's invariant.
LEMMA SchedInv == Sched!Inv /\ [S!Next]_schedvars => Sched!Inv'
<1> USE DEF S!Live, Sched!Live, S!MayCall, Sched!MayCall, S!tvars, Sched!tvars
<1>1. ASSUME NEW f, S!Create(f) PROVE Sched!Create(f)
  BY <1>1, SameRings DEF S!Create, Sched!Create, S!Allocated, Sched!Allocated, S!NextId,
     Sched!NextId, S!Fresh, Sched!Fresh
<1>2. ASSUME NEW f, S!Ready(f) PROVE Sched!Ready(f)
  BY <1>2, SameRings DEF S!Ready, Sched!Ready, S!Suspended, Sched!Suspended, S!MakeReady, Sched!MakeReady
<1>3. ASSUME NEW f, S!GiveUp(f) PROVE Sched!GiveUp(f)
  <2>1. CASE S!Suspend(f)
    BY <2>1 DEF Sched!GiveUp, S!Suspend, Sched!Suspend, S!SwitchTo, Sched!SwitchTo
  <2>2. CASE S!Yield(f)
    BY <2>2, SameRings DEF Sched!GiveUp, S!Yield, Sched!Yield, S!SwitchTo, Sched!SwitchTo
  <2>3. CASE S!Exit(f)
    BY <2>3, SameRings DEF Sched!GiveUp, S!Exit, Sched!Exit, S!SwitchTo, Sched!SwitchTo,
       S!Surplus, Sched!Surplus, S!Kicked, Sched!Kicked, S!SlotsWithout, Sched!SlotsWithout,
       S!CountWithout, Sched!CountWithout, S!Blank, Sched!Blank
  <2> QED BY <1>3, <2>1, <2>2, <2>3 DEF S!GiveUp
<1>4. ASSUME NEW f, S!System(f) PROVE Sched!System(f)
  BY <1>4 DEF S!System, Sched!System
<1>5. ASSUME NEW f, NEW g, NEW s, S!Signal(f, g, s) PROVE Sched!Signal(f, g, s)
  BY <1>5, SameRings DEF S!Signal, Sched!Signal, S!SwitchTo, Sched!SwitchTo
<1>6. ASSUME NEW on, S!ScheduleInit(on) PROVE Sched!ScheduleInit(on)
  BY <1>6 DEF S!ScheduleInit, Sched!ScheduleInit
<1>7. S!Schedule => Sched!Schedule
  BY DEF S!Schedule, Sched!Schedule
<1>8. S!ScheduleNext => Sched!ScheduleNext
  BY DEF S!ScheduleNext, Sched!ScheduleNext, S!SwitchTo, Sched!SwitchTo
<1>9. S!ScheduleEnd => Sched!ScheduleEnd
  BY SameRings DEF S!ScheduleEnd, Sched!ScheduleEnd, S!Blank, Sched!Blank
<1>10. S!Next => Sched!Next
  BY <1>1, <1>2, <1>3, <1>4, <1>5, <1>6, <1>7, <1>8, <1>9 DEF S!Next, Sched!Next
<1>11. UNCHANGED schedvars => UNCHANGED Sched!vars
  BY DEF schedvars, Sched!vars
<1> QED BY <1>10, <1>11, Sched!NextInv

\* What the invariant says of the rings, the table and the CPU; the suspended fibers
\* are the live ones that are not ready and do not execute.
Settled ==
  /\ ready \in Seq(Fiber) /\ Distinct(ready)
  /\ fib \in [Fiber -> S!Struct] /\ slots \in Seq(Fiber)
  /\ ToSet(ready) \subseteq S!Live /\ S!Live \subseteq Fiber
  /\ cpu \in S!Live \cup {Original} /\ cpu \notin ToSet(ready)
  /\ ToSet(dead) \cap S!Live = {} /\ S!Live \subseteq heap /\ dead \in Seq(Fiber)
  /\ \A f \in S!Live : fib[f].status # "EXITING"
  /\ Parked = S!Live \ (ToSet(ready) \cup {cpu})

\* It follows from the invariant, ...
LEMMA InvSettled == Sched!Inv => Settled
<1> SUFFICES ASSUME Sched!Inv PROVE Settled
  OBVIOUS
<1>1. /\ ready \in Seq(Fiber) /\ slots \in Seq(Fiber) /\ fib \in [Fiber -> S!Struct]
      /\ Distinct(ready) /\ ToSet(ready) \subseteq S!Live /\ S!Live \subseteq Fiber
      /\ cpu \in S!Live \cup {Original} /\ cpu \notin ToSet(ready)
      /\ ToSet(dead) \cap S!Live = {} /\ S!Live \subseteq heap /\ dead \in Seq(Fiber)
      /\ \A f \in S!Live : fib[f].status # "EXITING"
  BY SameRings
  DEF Sched!Inv, Sched!TypeOK, Sched!OnePlace, Sched!SlotTable, Sched!ExitingIsDead,
      Sched!Live, S!Live, S!Struct, Sched!Struct, S!Status, Sched!Status, ToSet
<1>2. Parked = S!Live \ (ToSet(ready) \cup {cpu})
  BY <1>1, SameRings DEF Parked, S!Suspended
<1> QED BY <1>1, <1>2 DEF Settled

\* ... so it holds after every step of the scheduler.
LEMMA StepSettled ==
  ASSUME Sched!Inv, [S!Next]_schedvars
  PROVE  Sched!Inv' /\ Settled /\ Settled'
<1>1. Sched!Inv'
  BY SchedInv
<1>2. Settled'
  BY <1>1, InvSettled, PTL
<1> QED BY <1>1, <1>2, InvSettled

\* Where a fiber is in no call it is in none.
LEMMA CallsDiffer ==
  ASSUME NEW op \in Ops, NEW d \in Fd
  PROVE  /\ <<op, d>> # User /\ <<op, d>> # <<"delay">> /\ <<op, d>> # <<"io">>
         /\ User # <<"delay">> /\ User # <<"io">> /\ <<"delay">> # <<"io">>
         /\ \A p \in Ops, e \in Fd : <<op, d>> = <<p, e>> => op = p /\ d = e
  BY DEF User

\* A call has a name and a descriptor.
LEMMA CallsArePairs == ASSUME NEW c \in Calls PROVE \E op \in Ops, d \in Fd : c = <<op, d>>
<1>1. c[1] \in Ops /\ c[2] \in Fd /\ c = <<c[1], c[2]>>
  BY DEF Calls
<1> QED BY <1>1

\* A ring of fibers with one more.
LEMMA RingOfFibers ==
  ASSUME NEW r \in Seq(Fiber), NEW e \in Fiber
  PROVE  /\ RingPrepend(r, e) \in Seq(Fiber) /\ ToSet(RingPrepend(r, e)) = ToSet(r) \cup {e}
         /\ RingAppend(r, e) \in Seq(Fiber) /\ ToSet(RingAppend(r, e)) = ToSet(r) \cup {e}
         /\ RingAppend(r, e) # <<>> /\ Head(RingAppend(r, e)) = e
<1>1. RingPrepend(r, e) \in Seq(Fiber) /\ ToSet(RingPrepend(r, e)) = ToSet(r) \cup {e}
  BY RingPrependProperties
<1>2. RingAppend(r, e) \in Seq(Fiber) /\ ToSet(RingAppend(r, e)) = ToSet(r) \cup {e}
  BY RingAppendProperties
<1>3. RingAppend(r, e) # <<>> /\ Head(RingAppend(r, e)) = e
  BY RingAppendProperties
<1> QED BY <1>1, <1>2, <1>3

\* ct_corthread_switch takes the CPU's next fiber out of the ring.
LEMMA SwitchSet ==
  ASSUME NEW r \in Seq(Fiber), S!SwitchTo(r)
  PROVE  /\ ToSet(r) \cup {Original} = ToSet(ready') \cup {cpu', Original}
         /\ r # <<>> => cpu' = Head(r)
<1>1. CASE r = <<>>
  BY <1>1, RingEmptyProperties DEF S!SwitchTo
<1>2. CASE r # <<>>
  <2>1. ToSet(r) = ToSet(Tail(r)) \cup {Head(r)}
    BY <1>2, RingPopProperties
  <2>2. cpu' = Head(r) /\ ready' = Tail(r)
    BY <1>2 DEF S!SwitchTo
  <2> QED BY <2>1, <2>2
<1> QED BY <1>1, <1>2

\* Who suspends itself is suspended, and nobody else is concerned.
LEMMA SuspendEffect ==
  ASSUME Sched!Inv, NEW f \in Fiber, S!Suspend(f)
  PROVE  /\ Sched!Inv' /\ S!Live' = S!Live /\ cpu = f /\ f \in S!Live
         /\ Parked' = Parked \cup {f} /\ f \notin Parked
<1>1. Sched!Inv' /\ Settled /\ Settled'
  BY StepSettled DEF S!Next, S!GiveUp
<1>2. cpu = f /\ S!Live' = S!Live /\ S!SwitchTo(ready)
  BY DEF S!Suspend, S!Live
<1>3. ToSet(ready) \cup {Original} = ToSet(ready') \cup {cpu', Original}
  BY <1>1, <1>2, SwitchSet DEF Settled
<1> QED BY <1>1, <1>2, <1>3 DEF Settled

\* Who yields runs again.
LEMMA YieldEffect ==
  ASSUME Sched!Inv, NEW f \in Fiber, S!Yield(f)
  PROVE  /\ Sched!Inv' /\ S!Live' = S!Live /\ cpu = f /\ f \in S!Live
         /\ Parked' = Parked
<1>1. Sched!Inv' /\ Settled /\ Settled'
  BY StepSettled DEF S!Next, S!GiveUp
<1>2. cpu = f /\ S!Live' = S!Live /\ S!SwitchTo(RingPrepend(ready, f))
  BY SameRings DEF S!Yield, S!Live
<1>3. RingPrepend(ready, f) \in Seq(Fiber) /\ ToSet(RingPrepend(ready, f)) = ToSet(ready) \cup {f}
  BY <1>1, RingOfFibers DEF Settled
<1>4. ToSet(ready) \cup {f, Original} = ToSet(ready') \cup {cpu', Original}
  BY <1>2, <1>3, SwitchSet
<1> QED BY <1>1, <1>2, <1>4 DEF Settled

\* Who exits is not alive any more.
LEMMA ExitEffect ==
  ASSUME Sched!Inv, NEW f \in Fiber, S!Exit(f)
  PROVE  /\ Sched!Inv' /\ S!Live' = S!Live \ {f} /\ cpu = f /\ f \in S!Live
         /\ Parked' = Parked
<1>1. Sched!Inv' /\ Settled /\ Settled'
  BY StepSettled DEF S!Next, S!GiveUp
<1>2. cpu = f /\ slots' = S!SlotsWithout(f) /\ S!SwitchTo(ready)
  BY DEF S!Exit
<1>3. f \in S!Live
  BY <1>1, <1>2 DEF Settled
<1>4. S!Live' = S!Live \ {f}
  <2>1. ToSet(Sched!SlotsWithout(f)) = ToSet(slots) \ {f}
    BY <1>3, SameRings, Sched!SlotsWithoutProperties DEF Sched!Inv, S!Live, Sched!Live
  <2>2. S!SlotsWithout(f) = Sched!SlotsWithout(f)
    BY DEF S!SlotsWithout, Sched!SlotsWithout
  <2> QED BY <1>2, <2>1, <2>2, SameRings DEF S!Live
<1>5. ToSet(ready) \cup {Original} = ToSet(ready') \cup {cpu', Original}
  BY <1>1, <1>2, SwitchSet DEF Settled
<1> QED BY <1>1, <1>2, <1>3, <1>4, <1>5 DEF Settled

\* A signal to another fiber gives it the CPU.
LEMMA SignalEffect ==
  ASSUME Sched!Inv, NEW f \in Fiber, NEW g \in Fiber, NEW s \in Signals, S!Signal(f, g, s)
  PROVE  /\ Sched!Inv' /\ S!Live' = S!Live /\ cpu = f /\ f \in S!Live /\ g \in S!Live
         /\ cpu' = g /\ Parked' = Parked \ {g}
<1>1. Sched!Inv' /\ Settled /\ Settled'
  BY StepSettled DEF S!Next
<1>2. cpu = f /\ S!Live' = S!Live /\ g \in S!Live
  BY DEF S!Signal, S!Live
<1>3. CASE g = f
  <2>1. UNCHANGED <<ready, cpu>>
    BY <1>3 DEF S!Signal
  <2> QED BY <1>1, <1>2, <1>3, <2>1 DEF Settled
<1>4. CASE g # f
  <2> DEFINE r == RingDetach(ready, g)
             q == RingAppend(r, f)
             p == RingAppend(q, g)
  <2>1. S!SwitchTo(p)
    BY <1>4, SameRings DEF S!Signal
  <2>2. r \in Seq(Fiber) /\ ToSet(r) = ToSet(ready) \ {g}
    BY <1>1, RingDetachProperties DEF Settled
  <2> HIDE DEF r
  <2>3. q \in Seq(Fiber) /\ ToSet(q) = ToSet(r) \cup {f}
    BY <2>2, RingOfFibers
  <2> HIDE DEF q
  <2>4. p \in Seq(Fiber) /\ p # <<>> /\ Head(p) = g /\ ToSet(p) = ToSet(q) \cup {g}
    BY <2>3, RingOfFibers
  <2> HIDE DEF p
  <2>5. cpu' = g /\ ToSet(p) \cup {Original} = ToSet(ready') \cup {cpu', Original}
    BY <2>1, <2>4, SwitchSet
  <2> QED BY <1>1, <1>2, <2>2, <2>3, <2>4, <2>5 DEF Settled
<1> QED BY <1>3, <1>4

\* A new fiber is ready.
LEMMA CreateEffect ==
  ASSUME Sched!Inv, NEW g \in Fiber, S!Create(g)
  PROVE  /\ Sched!Inv' /\ S!Live' = S!Live \cup {g} /\ g \notin S!Live
         /\ Parked' = Parked /\ cpu' = cpu
<1>1. Sched!Inv' /\ Settled /\ Settled'
  BY StepSettled DEF S!Next
<1>2. /\ cpu' = cpu /\ slots' = Append(slots, g) /\ ready' = RingPrepend(ready, g)
      /\ IF dead # <<>> THEN g = Head(dead) ELSE g \notin heap
  BY SameRings DEF S!Create, S!Allocated
<1>3. S!Live' = S!Live \cup {g}
  BY <1>1, <1>2, SameRings, RingOfFibers DEF Settled, S!Live, RingPrepend
<1>4. ToSet(ready') = ToSet(ready) \cup {g}
  BY <1>1, <1>2, RingOfFibers DEF Settled
<1>5. g \notin S!Live
  <2>1. CASE dead = <<>>
    BY <2>1, <1>1, <1>2 DEF Settled
  <2>2. CASE dead # <<>>
    <3>1. g \in ToSet(dead)
      BY <2>2, <1>1, <1>2, RingPopProperties DEF Settled
    <3> QED BY <3>1, <1>1 DEF Settled
  <2> QED BY <2>1, <2>2
<1> QED BY <1>1, <1>2, <1>3, <1>4, <1>5 DEF Settled

\* A suspended fiber is woken; the caller goes on.
LEMMA ReadyEffect ==
  ASSUME Sched!Inv, NEW g \in Parked, cpu \in Fiber, MakeReady(g)
  PROVE  /\ Sched!Inv' /\ S!Live' = S!Live /\ cpu' = cpu /\ Parked' = Parked \ {g}
         /\ S!Ready(g)
<1>1. S!Ready(g)
  BY DEF MakeReady, S!Ready, S!MayCall, Parked
<1>2. Sched!Inv' /\ Settled /\ Settled'
  BY <1>1, StepSettled DEF S!Next, Parked
<1>3. cpu' = cpu /\ S!Live' = S!Live
  BY DEF MakeReady, S!Live
<1>4. g \in Fiber /\ g \in S!Live
  BY DEF Parked, S!Suspended
<1>5. ready' = RingPrepend(ready, g)
  BY <1>2, <1>4, SameRings DEF Settled, MakeReady, S!MakeReady
<1>6. ToSet(ready') = ToSet(ready) \cup {g}
  <2>1. ready \in Seq(Fiber)
    BY <1>2 DEF Settled
  <2> QED BY <2>1, <1>4, <1>5, RingOfFibers
<1> QED BY <1>1, <1>2, <1>3, <1>6 DEF Settled

\* ct_corthread_schedule runs the next fiber or ends.
LEMMA MainEffect ==
  ASSUME Sched!Inv, S!Schedule \/ S!ScheduleNext \/ S!ScheduleEnd
  PROVE  Sched!Inv' /\ S!Live' = S!Live /\ cpu = Original /\ Parked' = Parked
<1>1. Sched!Inv' /\ Settled /\ Settled'
  BY StepSettled DEF S!Next
<1>2. cpu = Original /\ S!Live' = S!Live
  BY DEF S!Schedule, S!ScheduleNext, S!ScheduleEnd, S!Live, S!tvars
<1>3. ToSet(ready) \cup {Original} = ToSet(ready') \cup {cpu', Original}
  <2>1. CASE S!ScheduleNext
    BY <2>1, <1>1, SwitchSet DEF Settled, S!ScheduleNext
  <2>2. CASE S!Schedule \/ S!ScheduleEnd
    BY <2>2, <1>2 DEF S!Schedule, S!ScheduleEnd, S!tvars
  <2> QED BY <2>1, <2>2
<1>4. Original \notin S!Live
  BY <1>1 DEF Settled
<1> QED BY <1>1, <1>2, <1>3, <1>4 DEF Settled

\* corthread_system only marks the fiber.
LEMMA SystemEffect ==
  ASSUME Sched!Inv, NEW f \in Fiber, S!System(f)
  PROVE  Sched!Inv' /\ S!Live' = S!Live /\ cpu' = cpu /\ Parked' = Parked
<1>1. Sched!Inv' /\ Settled /\ Settled'
  BY StepSettled DEF S!Next
<1> QED BY <1>1 DEF S!System, Settled, S!Live

-----------------------------------------------------------------------------
(* Steps that leave the suspended fibers as they are.                      *)

\* The variables that are not the scheduler's, but the clock.
iovars == <<pollvars, cor, owner, at, timers, when, io, loopvars, stop>>

\* Nobody waits for what the fiber that executes waited for.
CpuIsTidy == \A d \in Fd : cor[d] = cpu => interest[d] = {}

\* The CPU moves on, fibers that are in no call come and go.
LEMMA MoveInv ==
  ASSUME Inv, Sched!Inv', UNCHANGED iovars, now' \in Nat, Parked' = Parked,
         \A f \in S!Live : at[f] # User => f \in S!Live',
         cpu' = cpu \/ (iopc \notin {"dispatch", "expire"} /\ CpuIsTidy)
  PROVE  Inv'
<1>1. UNCHANGED <<interest, level, cor, owner, at, timers, when, io, iopc, iotimer, iofds,
                  ionow, due, stop>>
  BY DEF iovars, pollvars, loopvars
<1>2. IoTypes'
  BY <1>1 DEF Inv, IoTypes
<1>3. InCall'
  BY <1>1 DEF Inv, InCall
<1>4. Watched'
  <2> SUFFICES ASSUME NEW d \in Fd, interest[d] # {}
               PROVE  /\ cor[d] \in Fiber /\ owner[d] = cor[d]
                      /\ cor[d] \in Parked \cup {cpu'}
                      /\ \/ cpu' = cor[d] /\ at[cor[d]] = User
                         \/ \E op \in Ops : at[cor[d]] = <<op, d>> /\ interest[d] = {DirOf(op)}
    BY <1>1 DEF Watched
  <2> QED BY DEF Inv, Watched, CpuIsTidy
<1>5. Waits' /\ Sleepers' /\ Stopping' /\ TimersSorted'
  BY <1>1 DEF Inv, Waits, Sleepers, Stopping, TimersSorted
<1>6. IoRuns'
  BY <1>1 DEF Inv, IoRuns, User
<1>7. IoData'
  BY <1>1 DEF Inv, IoData
<1> QED BY <1>2, <1>3, <1>4, <1>5, <1>6, <1>7 DEF Inv

\* A fiber that goes on with something else than closing left no interest behind.
LEMMA FreeIsTidy ==
  ASSUME Tidy, Inv, NEW f \in Fiber, Running(f), Free(f)
  PROVE  CpuIsTidy /\ iopc \notin {"dispatch", "expire"} /\ f # io
<1>1. CpuIsTidy
  BY DEF Free, Stale, Running, CpuIsTidy
<1>2. f # io
  BY DEF Inv, IoRuns, IoTypes, Running, User
<1> QED BY <1>1, <1>2 DEF Inv, IoRuns, Running

\* Nor do the thread's own code and the I/O fiber.
LEMMA OthersAreTidy ==
  ASSUME Inv, cpu \notin Fiber \/ (cpu = io /\ io # Null)
  PROVE  CpuIsTidy
<1> SUFFICES ASSUME NEW d \in Fd, cor[d] = cpu, interest[d] # {}
             PROVE  FALSE
  BY DEF CpuIsTidy
<1>1. cpu = io /\ at[io] = <<"io">> /\ io \in Fiber /\ io # Null
  BY DEF Inv, Watched, IoRuns, IoTypes
<1> QED BY <1>1, CallsDiffer DEF Inv, Watched, User

\* ct_corthread_yield.
LEMMA YieldInv == ASSUME Tidy, Inv, NEW f \in Fiber, Yield(f) PROVE Inv'
<1>1. Sched!Inv' /\ S!Live' = S!Live /\ Parked' = Parked
  BY YieldEffect DEF Inv, Yield
<1>2. Running(f) /\ Free(f) /\ UNCHANGED iovars /\ now' = now
  BY DEF Yield, iovars
<1>3. CpuIsTidy /\ iopc \notin {"dispatch", "expire"}
  BY <1>2, FreeIsTidy
<1> QED BY <1>1, <1>2, <1>3, MoveInv DEF Inv, IoTypes

\* The end of a fiber.
LEMMA ExitInv == ASSUME Tidy, Inv, NEW f \in Fiber, Exit(f) PROVE Inv'
<1>1. Sched!Inv' /\ S!Live' = S!Live \ {f} /\ Parked' = Parked
  BY ExitEffect DEF Inv, Exit
<1>2. Running(f) /\ Free(f) /\ UNCHANGED iovars /\ now' = now /\ at[f] = User
  BY DEF Exit, iovars, Running
<1>3. CpuIsTidy /\ iopc \notin {"dispatch", "expire"}
  BY <1>2, FreeIsTidy
<1> QED BY <1>1, <1>2, <1>3, MoveInv DEF Inv, IoTypes

\* ct_corthread_schedule.
LEMMA MainInv == ASSUME Inv, Main PROVE Inv'
<1>1. Sched!Inv' /\ S!Live' = S!Live /\ Parked' = Parked /\ cpu \notin Fiber
  BY MainEffect DEF Inv, Main
<1>2. UNCHANGED iovars /\ now' = now
  BY DEF Main, iovars
<1>3. CpuIsTidy
  BY <1>1, OthersAreTidy
<1>4. iopc \notin {"dispatch", "expire"}
  BY <1>1 DEF Inv, IoRuns, IoTypes
<1> QED BY <1>1, <1>2, <1>3, <1>4, MoveInv DEF Inv, IoTypes

\* The loop yields.
LEMMA LoopYieldInv == ASSUME Inv, LoopYield PROVE Inv'
<1>1. io \in Fiber /\ io # Null /\ cpu = io /\ iopc = "yield"
  BY DEF LoopYield, AtLoop, Inv, IoTypes
<1>2. Sched!Inv' /\ S!Live' = S!Live /\ Parked' = Parked
  BY <1>1, YieldEffect DEF Inv, LoopYield
<1>3. UNCHANGED iovars /\ now' = now
  BY DEF LoopYield, iovars
<1>4. CpuIsTidy
  BY <1>1, OthersAreTidy
<1> QED BY <1>1, <1>2, <1>3, <1>4, MoveInv DEF Inv, IoTypes

\* ct_corthread_create.
LEMMA CreateInv == ASSUME Inv, NEW g \in Fiber, Create(g) PROVE Inv'
<1>1. Sched!Inv' /\ S!Live' = S!Live \cup {g} /\ g \notin S!Live /\ Parked' = Parked /\ cpu' = cpu
  BY CreateEffect DEF Inv, Create
<1>2. at[g] = User /\ at \in [Fiber -> Calls \cup {User, <<"delay">>, <<"io">>}]
  BY <1>1 DEF Inv, InCall, IoTypes
<1>3. at' = [at EXCEPT ![g] = User]
  BY DEF Create
<1>4. at' = at
  BY <1>2, <1>3
<1>5. UNCHANGED iovars /\ now' = now
  BY <1>4 DEF Create, iovars
<1> QED BY <1>1, <1>5, MoveInv DEF Inv, IoTypes

\* Time passes.
LEMMA TickInv == ASSUME Inv, Tick PROVE Inv'
<1>1. UNCHANGED <<schedvars, iovars>> /\ now' = now + 1
  BY DEF Tick, iovars
<1>2. Sched!Inv'
  BY <1>1, SchedInv DEF Inv
<1>3. Parked' = Parked /\ S!Live' = S!Live /\ cpu' = cpu
  BY <1>1 DEF schedvars, Parked, S!Suspended, S!Live
<1> QED BY <1>1, <1>2, <1>3, MoveInv DEF Inv, IoTypes

\* Where the scheduler does nothing.
LEMMA SchedRests ==
  ASSUME Inv, UNCHANGED schedvars
  PROVE  Sched!Inv' /\ Parked' = Parked /\ S!Live' = S!Live /\ cpu' = cpu
<1>1. Sched!Inv'
  BY SchedInv DEF Inv
<1> QED BY <1>1 DEF schedvars, Parked, S!Suspended, S!Live

\* ct_corthread_schedule_stop.
LEMMA ScheduleStopInv == ASSUME Inv, ScheduleStop PROVE Inv'
<1>1. Sched!Inv' /\ Parked' = Parked /\ S!Live' = S!Live /\ cpu' = cpu
  BY SchedRests DEF ScheduleStop
<1>2. /\ UNCHANGED <<interest, level, cor, owner, at, timers, when, now, io, iopc, iotimer,
                     iofds, ionow, due>>
      /\ stop.may /\ stop' = [stop EXCEPT !.on = TRUE]
  BY DEF ScheduleStop, pollvars, loopvars
<1>3. stop' \in [on : BOOLEAN, may : BOOLEAN] /\ stop'.may
  BY <1>2 DEF Inv, IoTypes
<1>4. IoTypes' /\ Stopping'
  BY <1>1, <1>2, <1>3 DEF Inv, IoTypes, Stopping
<1>5. InCall' /\ Watched' /\ Waits'
  BY <1>1, <1>2 DEF Inv, InCall, Watched, Waits
<1>6. Sleepers' /\ IoRuns' /\ IoData' /\ TimersSorted'
  BY <1>1, <1>2 DEF Inv, Sleepers, IoRuns, IoData, TimersSorted
<1> QED BY <1>1, <1>4, <1>5, <1>6 DEF Inv

\* The fiber that executes comes back to the user's code.
LEMMA BackInv ==
  ASSUME Inv, NEW f \in Fiber, cpu = f, at[f] # User, f # io,
         UNCHANGED schedvars, at' = [at EXCEPT ![f] = User],
         when' \in [Fiber -> Nat], \A g \in Fiber \ {f} : when'[g] = when[g],
         UNCHANGED <<interest, cor, owner, timers, now, io, loopvars, stop>>
  PROVE  Inv'
<1>1. Sched!Inv' /\ Parked' = Parked /\ S!Live' = S!Live /\ cpu' = cpu
  BY SchedRests
<1>2. f \notin Parked /\ f \in S!Live
  BY DEF Inv, InCall, Parked, S!Suspended
<1>3. at'[f] = User /\ \A g \in Fiber \ {f} : at'[g] = at[g]
  BY DEF Inv, IoTypes
<1>4. IoTypes'
  BY DEF Inv, IoTypes, loopvars
<1>5. InCall'
  <2>1. \A g \in Fiber : at'[g] # User => at'[g] = at[g]
    BY <1>3
  <2>2. \A g \in Fiber, op \in Ops, d \in Fd : at'[g] = <<op, d>> => at[g] = <<op, d>>
    BY <2>1, CallsDiffer
  <2> QED BY <1>1, <2>1, <2>2 DEF Inv, InCall
<1>6. Watched'
  BY <1>1, <1>3 DEF Inv, Watched
<1>7. Waits'
  <2> SUFFICES ASSUME NEW g \in Parked
               PROVE  \/ at'[g] = <<"delay">> /\ g \in ToSet(timers)
                      \/ \E op \in Ops, d \in Fd : at'[g] = <<op, d>> /\ interest[d] = {DirOf(op)}
    BY <1>1 DEF Waits
  <2>1. at'[g] = at[g]
    BY <1>2, <1>3 DEF Parked
  <2> QED BY <2>1 DEF Inv, Waits
<1>8. Sleepers'
  <2>1. \A g \in Parked : g # f /\ g \in Fiber
    BY <1>2 DEF Parked
  <2> QED BY <1>1, <1>3, <2>1 DEF Inv, Sleepers
<1>9. IoRuns' /\ Stopping'
  BY <1>1, <1>3 DEF Inv, IoRuns, Stopping, loopvars, User, IoTypes
<1>10. IoData'
  <2>1. iopc # "dispatch"
    BY DEF Inv, IoRuns
  <2> QED BY <2>1 DEF Inv, IoData, loopvars
<1>11. TimersSorted'
  <2>1. \A i \in DOMAIN timers : timers[i] # f /\ timers[i] \in Fiber
    BY <1>2 DEF Inv, Sleepers, IoTypes, ToSet
  <2> QED BY <2>1 DEF Inv, TimersSorted
<1> QED BY <1>1, <1>4, <1>5, <1>6, <1>7, <1>8, <1>9, <1>10, <1>11 DEF Inv

\* ct_corthread_delay returns.
LEMMA DelayReturnInv == ASSUME Inv, NEW f \in Fiber, DelayReturn(f) PROVE Inv'
<1>1. at[f] # User /\ f # io
  BY DEF DelayReturn, Inv, IoRuns, IoTypes, User
<1>2. when' \in [Fiber -> Nat] /\ \A g \in Fiber \ {f} : when'[g] = when[g]
  BY DEF DelayReturn, Inv, IoTypes
<1> QED BY <1>1, <1>2, BackInv DEF DelayReturn, pollvars

\* A blocking call returns.
LEMMA ReturnInv ==
  ASSUME Inv, NEW f \in Fiber, NEW op \in Ops, NEW d \in Fd, Return(f, op, d) PROVE Inv'
<1>1. at[f] = <<op, d>> /\ at[f] # User /\ f # io
  BY CallsDiffer DEF Return, Inv, IoRuns, IoTypes
<1>2. when' \in [Fiber -> Nat] /\ \A g \in Fiber \ {f} : when'[g] = when[g]
  BY DEF Return, Inv, IoTypes
<1> QED BY <1>1, <1>2, BackInv DEF Return, Consumed, pollvars

\* A call that need not block.
LEMMA ImmediateInv ==
  ASSUME Inv, NEW f \in Fiber, NEW op \in Ops, NEW d \in Fd, Immediate(f, op, d) PROVE Inv'
<1>1. Sched!Inv' /\ Parked' = Parked /\ S!Live' = S!Live /\ cpu' = cpu
  BY SchedRests DEF Immediate
<1>2. /\ UNCHANGED <<interest, cor, at, timers, when, now, io, iopc, iotimer, iofds, ionow, due, stop>>
      /\ owner[d] \in {Null, f} /\ owner' = [owner EXCEPT ![d] = IF @ = Null THEN f ELSE @]
      /\ cpu = f /\ at[f] = User
  BY DEF Immediate, loopvars, Consumed, MayUse, FileOpen, Running
<1>3. \A e \in Fd : owner[e] # Null => owner'[e] = owner[e]
  BY <1>2 DEF Inv, IoTypes
<1>4. IoTypes'
  BY <1>2 DEF Inv, IoTypes
<1>5. InCall' /\ Watched'
  BY <1>1, <1>2, <1>3 DEF Inv, InCall, Watched
<1>6. IoData'
  <2>1. iopc # "dispatch"
    BY <1>2 DEF Inv, IoRuns, IoTypes, User
  <2> QED BY <1>2, <2>1 DEF Inv, IoData
<1> QED BY <1>1, <1>2, <1>4, <1>5, <1>6 DEF Inv, Waits, Sleepers, IoRuns, Stopping, TimersSorted

\* ct_corthread_close.
LEMMA CloseInv == ASSUME Inv, NEW f \in Fiber, NEW d \in Fd, Close(f, d) PROVE Inv'
<1>1. Sched!Inv' /\ Parked' = Parked /\ S!Live' = S!Live /\ cpu' = cpu
  BY SchedRests DEF Close
<1>2. /\ UNCHANGED <<at, timers, when, now, io, iopc, iotimer, iofds, ionow, due, stop>>
      /\ interest' = [interest EXCEPT ![d] = {}]
      /\ cor' = [cor EXCEPT ![d] = Null] /\ owner' = [owner EXCEPT ![d] = Null]
      /\ cpu = f /\ at[f] = User /\ owner[d] = f
  BY DEF Close, FileClose, P!Close, loopvars, Running
<1>3. /\ interest'[d] = {}
      /\ \A e \in Fd \ {d} : interest'[e] = interest[e] /\ cor'[e] = cor[e] /\ owner'[e] = owner[e]
  BY <1>2 DEF Inv, IoTypes
<1>4. \A g \in Fiber, op \in Ops : at[g] # <<op, d>>
  BY <1>2, CallsDiffer DEF Inv, InCall
<1>5. IoTypes'
  BY <1>2 DEF Inv, IoTypes
<1>6. InCall' /\ Watched'
  BY <1>1, <1>2, <1>3, <1>4 DEF Inv, InCall, Watched
<1>7. Waits'
  BY <1>1, <1>2, <1>3, <1>4 DEF Inv, Waits, Parked
<1>8. IoData'
  <2>1. iopc # "dispatch"
    BY <1>2 DEF Inv, IoRuns, IoTypes, User
  <2> QED BY <1>2, <2>1 DEF Inv, IoData
<1> QED BY <1>1, <1>2, <1>5, <1>6, <1>7, <1>8 DEF Inv, Sleepers, IoRuns, Stopping, TimersSorted

\* A peer sends, reads or connects.
LEMMA ArriveInv == ASSUME Inv, NEW d \in Fd, NEW dir \in {"R", "W"}, Arrive(d, dir) PROVE Inv'
<1>1. Sched!Inv' /\ Parked' = Parked /\ S!Live' = S!Live /\ cpu' = cpu
  BY SchedRests DEF Arrive
<1>2. /\ UNCHANGED <<interest, cor, owner, at, timers, when, now, io, iopc, iotimer, iofds,
                     ionow, due, stop>>
      /\ level \subseteq level'
  BY DEF Arrive, P!Arrive, loopvars
<1>3. IoData'
  BY <1>2 DEF Inv, IoData
<1>4. IoTypes'
  BY <1>2 DEF Inv, IoTypes
<1>5. Sleepers' /\ IoRuns' /\ Stopping' /\ TimersSorted'
  BY <1>1, <1>2 DEF Inv, Sleepers, IoRuns, Stopping, TimersSorted
<1>6. InCall'
  BY <1>1, <1>2 DEF Inv, InCall
<1>7. Watched'
  BY <1>1, <1>2 DEF Inv, Watched
<1>8. Waits'
  BY <1>1, <1>2 DEF Inv, Waits
<1> QED BY <1>1, <1>3, <1>4, <1>5, <1>6, <1>7, <1>8 DEF Inv

-----------------------------------------------------------------------------
(* The loop of the I/O fiber.                                              *)

\* The I/O fiber begins.
LEMMA LoopStartInv == ASSUME Inv, LoopStart PROVE Inv'
<1>1. Sched!Inv' /\ Parked' = Parked /\ S!Live' = S!Live /\ cpu' = cpu
  <2>1. CASE UNCHANGED schedvars
    BY <2>1, SchedRests
  <2>2. CASE S!System(io)
    BY <2>2, SystemEffect DEF Inv, IoTypes, LoopStart, AtLoop
  <2> QED BY <2>1, <2>2 DEF LoopStart
<1>2. /\ UNCHANGED <<interest, level, cor, owner, at, timers, when, now, io, iotimer, iofds,
                     ionow, due, stop>>
      /\ iopc = "start" /\ iopc' = "yield"
  BY DEF LoopStart, AtLoop, pollvars
<1>3. IoTypes' /\ IoData'
  BY <1>2 DEF Inv, IoTypes, IoData
<1>4. InCall' /\ Watched' /\ Waits'
  BY <1>1, <1>2 DEF Inv, InCall, Watched, Waits
<1>5. Sleepers' /\ IoRuns' /\ Stopping' /\ TimersSorted'
  BY <1>1, <1>2 DEF Inv, Sleepers, IoRuns, Stopping, TimersSorted
<1> QED BY <1>1, <1>3, <1>4, <1>5 DEF Inv

\* The loop goes from one of its parts to another without a switch.
LEMMA RoundInv ==
  ASSUME Inv, UNCHANGED <<schedvars, pollvars, cor, owner, at, timers, when, now, io, stop>>,
         cpu = io, io # Null, iopc' \in {"yield", "dispatch", "expire"}, IoTypes', IoData'
  PROVE  Inv'
<1>1. Sched!Inv' /\ Parked' = Parked /\ S!Live' = S!Live /\ cpu' = cpu
  BY SchedRests
<1>2. UNCHANGED <<interest, cor, owner, at, timers, when, io, stop>> /\ iopc' # "none"
  BY DEF pollvars
<1>4. InCall' /\ Watched' /\ Waits'
  BY <1>1, <1>2 DEF Inv, InCall, Watched, Waits
<1>5. Sleepers' /\ Stopping' /\ TimersSorted'
  BY <1>1, <1>2 DEF Inv, Sleepers, Stopping, TimersSorted
<1>6. IoRuns'
  BY <1>1, <1>2 DEF Inv, IoRuns
<1> QED BY <1>1, <1>4, <1>5, <1>6 DEF Inv

\* The first timer is looked up and select called.
LEMMA LoopPollInv == ASSUME Inv, LoopPoll PROVE Inv'
<1>1. /\ cpu = io /\ io # Null /\ iopc' = "dispatch"
      /\ UNCHANGED <<schedvars, pollvars, cor, owner, at, timers, when, now, io, ionow, stop>>
      /\ iotimer' = IF timers = <<>> THEN Null ELSE Head(timers)
      /\ iofds' = Cardinality({d \in Fd : interest[d] # {}})
      /\ due' = {c \in Fd \X {"R", "W"} : c[2] \in interest[c[1]] /\ c \in level}
  BY DEF LoopPoll, AtLoop
<1>2. UNCHANGED <<interest, level, timers>>
  BY <1>1 DEF pollvars
<1>3. IoTypes'
  <2>1. timers # <<>> => Head(timers) \in Fiber
    BY RingPopProperties DEF Inv, IoTypes
  <2> QED BY <1>1, <1>2, <2>1 DEF Inv, IoTypes
<1>4. IoData'
  <2>1. iofds' = 0 => \A d \in Fd : interest[d] = {}
    <3>1. IsFiniteSet({d \in Fd : interest[d] # {}})
      BY FS_Subset
    <3>2. iofds' = 0 => {d \in Fd : interest[d] # {}} = {}
      BY <1>1, <3>1, FS_EmptySet
    <3> QED BY <3>2
  <2> QED BY <1>1, <1>2, <2>1 DEF IoData
<1> QED BY <1>1, <1>3, <1>4, RoundInv

\* The loop goes on, ...
LEMMA LoopAgainInv == ASSUME Inv, LoopAgain PROVE Inv'
<1>1. /\ cpu = io /\ io # Null /\ iopc' = "yield" /\ due = {} /\ iotimer' = Null
      /\ UNCHANGED <<schedvars, pollvars, cor, owner, at, timers, when, now, io, stop, due>>
  BY DEF LoopAgain, AtLoop
<1>2. IoTypes'
  BY <1>1 DEF Inv, IoTypes, pollvars
<1>3. IoData'
  BY <1>1 DEF IoData
<1> QED BY <1>1, <1>2, <1>3, RoundInv

\* ... or looks after the timers.
LEMMA LoopExpireInv == ASSUME Inv, LoopExpire PROVE Inv'
<1>1. /\ cpu = io /\ io # Null /\ iopc' = "expire" /\ due = {} /\ iotimer # Null
      /\ iopc = "dispatch"
      /\ UNCHANGED <<schedvars, pollvars, cor, owner, at, timers, when, now, io, stop, due, iotimer>>
  BY DEF LoopExpire, AtLoop
<1>2. IoTypes'
  BY <1>1 DEF Inv, IoTypes, pollvars
<1>3. IoData'
  BY <1>1 DEF Inv, IoData
<1> QED BY <1>1, <1>2, <1>3, RoundInv

\* corthread_io_check creates the I/O fiber: where there is none nobody sleeps.
LEMMA IoCheckInv == ASSUME Inv, NEW g \in Fiber, IoCheck(g) PROVE Inv'
<1>1. Sched!Inv' /\ S!Live' = S!Live \cup {g} /\ g \notin S!Live /\ Parked' = Parked /\ cpu' = cpu
  BY CreateEffect DEF Inv, IoCheck
<1>2. /\ UNCHANGED <<interest, level, cor, owner, when, now, iotimer, iofds, ionow, due>>
      /\ io = Null /\ io' = g /\ at' = [at EXCEPT ![g] = <<"io">>]
      /\ iopc' = "start" /\ timers' = <<>> /\ stop' = [stop EXCEPT !.on = FALSE]
  BY DEF IoCheck, pollvars
<1>3. /\ timers = <<>> /\ timers' = timers /\ due = {} /\ iopc = "none"
      /\ ~stop.may => Parked = {}
  BY <1>2 DEF Inv, Stopping, IoRuns, IoData
<1>4. stop' \in [on : BOOLEAN, may : BOOLEAN] /\ ~stop'.on /\ stop'.may = stop.may
  BY <1>2 DEF Inv, IoTypes
<1>5. at'[g] = <<"io">> /\ at[g] = User /\ \A f \in Fiber \ {g} : at'[f] = at[f]
  BY <1>1, <1>2 DEF Inv, IoTypes, InCall
<1>6. \A f \in Parked \cup {cpu} : f # g
  <2>1. Parked \subseteq S!Live
    BY DEF Parked, S!Suspended
  <2>2. cpu = g => cpu \in S!Live
    BY InvSettled DEF Inv, Settled
  <2> QED BY <1>1, <2>1, <2>2
<1>7. IoTypes'
  BY <1>2, <1>4 DEF Inv, IoTypes
<1>8. InCall'
  <2>1. \A f \in Fiber, op \in Ops, d \in Fd : at'[f] = <<op, d>> => at[f] = <<op, d>>
    BY <1>5, CallsDiffer
  <2>2. \A f \in Fiber : at'[f] # User => f \in S!Live'
    BY <1>1, <1>5 DEF Inv, InCall
  <2> QED BY <1>2, <2>1, <2>2 DEF Inv, InCall
<1>9. Watched'
  <2> SUFFICES ASSUME NEW d \in Fd, interest[d] # {}
               PROVE  /\ cor[d] \in Fiber /\ owner[d] = cor[d]
                      /\ cor[d] \in Parked \cup {cpu}
                      /\ \/ cpu = cor[d] /\ at'[cor[d]] = User
                         \/ \E op \in Ops : at'[cor[d]] = <<op, d>> /\ interest[d] = {DirOf(op)}
    BY <1>1, <1>2 DEF Watched
  <2>1. cor[d] \in Fiber /\ cor[d] # g
    BY <1>6 DEF Inv, Watched
  <2> QED BY <1>5, <2>1 DEF Inv, Watched
<1>10. Waits'
  <2> SUFFICES ASSUME NEW f \in Parked
               PROVE  \/ at'[f] = <<"delay">> /\ f \in ToSet(timers)
                      \/ \E op \in Ops, d \in Fd : at'[f] = <<op, d>> /\ interest[d] = {DirOf(op)}
    BY <1>1, <1>2, <1>3 DEF Waits
  <2>1. at'[f] = at[f]
    BY <1>5, <1>6 DEF Parked
  <2> QED BY <2>1 DEF Inv, Waits
<1>11. Sleepers' /\ TimersSorted'
  BY <1>2, RingEmptyProperties DEF Sleepers, TimersSorted
<1>12. IoRuns'
  <2>1. \A f \in Fiber : at[f] # <<"io">>
    BY <1>2 DEF Inv, IoRuns
  <2>2. g \notin Parked
    BY <1>6
  <2> QED BY <1>1, <1>2, <1>5, <2>1, <2>2 DEF IoRuns
<1>13. IoData'
  BY <1>2, <1>3 DEF IoData
<1>14. Stopping'
  BY <1>1, <1>2, <1>3, <1>4 DEF Stopping
<1> QED BY <1>1, <1>7, <1>8, <1>9, <1>10, <1>11, <1>12, <1>13, <1>14 DEF Inv

\* The loop ends when it was stopped, or when nobody sleeps or waits.
LEMMA LoopExitInv == ASSUME Inv, LoopExit PROVE Inv'
<1>1. /\ UNCHANGED <<interest, level, cor, owner, timers, when, now, due, stop>>
      /\ io \in Fiber /\ io # Null /\ cpu = io /\ iopc = "dispatch" /\ due = {} /\ LoopEnds
      /\ io' = Null /\ iopc' = "none" /\ iotimer' = Null
      /\ at' = [at EXCEPT ![io] = User] /\ S!Exit(io)
  BY DEF LoopExit, AtLoop, pollvars, Inv, IoTypes
<1>2. Sched!Inv' /\ S!Live' = S!Live \ {io} /\ Parked' = Parked
  BY <1>1, ExitEffect DEF Inv
<1>3. at'[io] = User /\ \A f \in Fiber \ {io} : at'[f] = at[f]
  BY <1>1 DEF Inv, IoTypes
<1>4. CpuIsTidy
  BY <1>1, OthersAreTidy
<1>5. io \notin Parked /\ at[io] = <<"io">>
  BY <1>1 DEF Inv, IoRuns
<1>6. timers = <<>> /\ (~stop.may => Parked = {})
  <2>1. CASE stop.on
    BY <2>1 DEF Inv, Stopping
  <2>2. CASE ~stop.on
    <3>1. iotimer = Null /\ iofds = 0
      BY <1>1, <2>2 DEF LoopEnds
    <3>2. timers # <<>> => Head(timers) \in Fiber
      BY RingPopProperties DEF Inv, IoTypes
    <3>3. timers = <<>>
      BY <1>1, <3>1, <3>2 DEF Inv, IoData
    <3>4. \A d \in Fd : interest[d] = {}
      BY <1>1, <3>1 DEF Inv, IoData
    <3>5. Parked = {}
      BY <3>3, <3>4, RingEmptyProperties DEF Inv, Waits
    <3> QED BY <3>3, <3>5
  <2> QED BY <2>1, <2>2
<1>7. IoTypes'
  BY <1>1 DEF Inv, IoTypes
<1>8. InCall'
  <2>1. \A f \in Fiber, op \in Ops, d \in Fd : at'[f] = <<op, d>> => at[f] = <<op, d>>
    BY <1>3, CallsDiffer
  <2>2. \A f \in Fiber : at'[f] # User => f \in S!Live'
    BY <1>2, <1>3 DEF Inv, InCall
  <2> QED BY <1>1, <2>1, <2>2 DEF Inv, InCall
<1>9. Watched'
  <2> SUFFICES ASSUME NEW d \in Fd, interest[d] # {}
               PROVE  /\ cor[d] \in Fiber /\ owner[d] = cor[d] /\ cor[d] \in Parked
                      /\ \E op \in Ops : at'[cor[d]] = <<op, d>> /\ interest[d] = {DirOf(op)}
    BY <1>1, <1>2 DEF Watched
  <2>1. cor[d] # io
    BY <1>1, <1>4 DEF CpuIsTidy
  <2> QED BY <1>1, <1>3, <2>1 DEF Inv, Watched
<1>10. Waits'
  <2> SUFFICES ASSUME NEW f \in Parked
               PROVE  \/ at'[f] = <<"delay">> /\ f \in ToSet(timers)
                      \/ \E op \in Ops, d \in Fd : at'[f] = <<op, d>> /\ interest[d] = {DirOf(op)}
    BY <1>1, <1>2 DEF Waits
  <2>1. at'[f] = at[f]
    BY <1>3, <1>5 DEF Parked
  <2> QED BY <2>1 DEF Inv, Waits
<1>11. Sleepers' /\ TimersSorted'
  BY <1>1, <1>6, RingEmptyProperties DEF Sleepers, TimersSorted
<1>12. IoRuns'
  <2>1. \A f \in Fiber : at'[f] # <<"io">>
    BY <1>3 DEF Inv, IoRuns, User
  <2> QED BY <1>1, <2>1 DEF IoRuns
<1>13. IoData' /\ Stopping'
  BY <1>1, <1>2, <1>6 DEF Inv, IoData, Stopping
<1> QED BY <1>2, <1>7, <1>8, <1>9, <1>10, <1>11, <1>12, <1>13 DEF Inv

-----------------------------------------------------------------------------
(* The ring of timers.                                                    *)

\* A set of places in a ring that is not empty has a last one.
LEMMA LastExists ==
  ASSUME NEW n \in Nat, NEW T \in SUBSET (0 .. n), T # {}
  PROVE  \E x \in T : \A y \in T : y <= x
<1> PICK R : R = {p \in Nat \X Nat : p[1] < p[2]}
  OBVIOUS
<1>1. IsWellFoundedOn(R, Nat)
  BY NatLessThanWellFounded DEF OpToRel
<1> PICK M : M = {n - x : x \in T}
  OBVIOUS
<1>2. \A x \in T : n - x \in M /\ n - x \in Nat
  OBVIOUS
<1>3. M \subseteq Nat
  <2> SUFFICES ASSUME NEW m \in M PROVE m \in Nat
    OBVIOUS
  <2>1. PICK x \in T : m = n - x
    OBVIOUS
  <2> QED BY <1>2, <2>1
<1>4. M # {}
  BY <1>2
<1>5. PICK m \in M : \A k \in M : <<k, m>> \notin R
  BY <1>1, <1>3, <1>4, WFMin
<1>6. PICK x \in T : m = n - x
  OBVIOUS
<1>7. \A y \in T : y <= x
  <2> SUFFICES ASSUME NEW y \in T PROVE y <= x
    OBVIOUS
  <2>1. n - y \in M /\ n - y \in Nat /\ m \in Nat
    BY <1>2, <1>3
  <2>2. ~(n - y < m)
    BY <1>5, <2>1
  <2>3. x \in 0 .. n /\ y \in 0 .. n
    OBVIOUS
  <2> QED BY <2>2, <2>3, <1>6
<1> QED BY <1>7

\* The search of ct_corthread_delay: nothing behind the place it finds is earlier.
LEMMA TimerPlaceProperties ==
  ASSUME timers \in Seq(Fiber), when \in [Fiber -> Nat], NEW w \in Nat
  PROVE  /\ TimerPlace(w) \in 0 .. Len(timers)
         /\ TimerPlace(w) # 0 => when[timers[TimerPlace(w)]] <= w
         /\ \A i \in TimerPlace(w) + 1 .. Len(timers) : w <= when[timers[i]]
<1> DEFINE T == {0} \cup {i \in DOMAIN timers : when[timers[i]] <= w}
<1>1. DOMAIN timers = 1 .. Len(timers) /\ Len(timers) \in Nat
  OBVIOUS
<1>2. T \in SUBSET (0 .. Len(timers)) /\ T # {}
  BY <1>1
<1>3. PICK x \in T : \A y \in T : y <= x
  BY <1>1, <1>2, LastExists
<1>4. x \in 0 .. Len(timers) /\ T \subseteq Int
  BY <1>1, <1>2
<1>5. \A y \in T : x >= y
  BY <1>3, <1>4
<1>6. TimerPlace(w) \in T /\ \A y \in T : TimerPlace(w) >= y
  BY <1>5 DEF TimerPlace, Max
<1> DEFINE q == TimerPlace(w)
<1> HIDE DEF q
<1>7. q \in T /\ \A y \in T : q >= y
  BY <1>6 DEF q
<1>8. q \in 0 .. Len(timers) /\ (q # 0 => when[timers[q]] <= w)
  BY <1>1, <1>7
<1>9. ASSUME NEW i \in q + 1 .. Len(timers) PROVE w <= when[timers[i]]
  <2>1. i \in 1 .. Len(timers) /\ ~(q >= i)
    BY <1>8
  <2>2. i \notin T
    BY <1>7, <2>1
  <2>3. ~(when[timers[i]] <= w) /\ when[timers[i]] \in Nat
    BY <1>1, <2>1, <2>2
  <2> QED BY <2>3
<1> QED BY <1>8, <1>9 DEF q

-----------------------------------------------------------------------------
(* Steps that suspend or wake somebody.                                    *)

\* The timers without one of them.
LEMMA TimersDetach ==
  ASSUME Inv, NEW g
  PROVE  /\ RingDetach(timers, g) \in Seq(Fiber)
         /\ ToSet(RingDetach(timers, g)) = ToSet(timers) \ {g}
         /\ Distinct(RingDetach(timers, g))
         /\ Sorted(RingDetach(timers, g), when)
         /\ timers = <<>> => RingDetach(timers, g) = <<>>
<1>1. timers \in Seq(Fiber) /\ Distinct(timers) /\ Sorted(timers, when)
  BY DEF Inv, IoTypes, Sleepers, TimersSorted, Sorted
<1>2. /\ RingDetach(timers, g) \in Seq(Fiber)
      /\ ToSet(RingDetach(timers, g)) = ToSet(timers) \ {g}
      /\ Distinct(RingDetach(timers, g))
  BY <1>1, RingDetachProperties
<1>3. Sorted(RingDetach(timers, g), when)
  BY <1>1, DetachSorted
<1>4. timers = <<>> => RingDetach(timers, g) = <<>>
  BY RingEmptyProperties DEF RingDetach
<1> QED BY <1>2, <1>3, <1>4

\* ct_corthread_signal.
LEMMA SignalInv ==
  ASSUME Tidy, Inv, NEW f \in Fiber, NEW g \in Fiber, NEW s \in Signals, Signal(f, g, s)
  PROVE  Inv'
<1>1. /\ Sched!Inv' /\ S!Live' = S!Live /\ cpu = f /\ f \in S!Live /\ g \in S!Live
      /\ cpu' = g /\ Parked' = Parked \ {g}
  BY SignalEffect DEF Inv, Signal
<1>2. /\ Running(f) /\ Free(f) /\ g # io
      /\ timers' = IF g # f THEN RingDetach(timers, g) ELSE timers
      /\ UNCHANGED <<interest, level, cor, owner, at, when, now, io, iopc, iotimer, iofds,
                     ionow, due, stop>>
  BY DEF Signal, pollvars, loopvars
<1>3. CpuIsTidy /\ iopc \notin {"dispatch", "expire"}
  BY <1>2, FreeIsTidy
<1>4. cpu \notin Parked
  BY <1>1 DEF Parked, S!Suspended
<1>5. CASE g = f
  <2>1. UNCHANGED iovars /\ now' = now /\ Parked' = Parked /\ cpu' = cpu
    BY <1>1, <1>2, <1>4, <1>5 DEF iovars, pollvars, loopvars
  <2> QED BY <1>1, <2>1, MoveInv DEF Inv, IoTypes
<1>6. CASE g # f
  <2>1. /\ timers' \in Seq(Fiber) /\ ToSet(timers') = ToSet(timers) \ {g} /\ Distinct(timers')
        /\ Sorted(timers', when) /\ (timers = <<>> => timers' = <<>>)
    BY <1>2, <1>6, TimersDetach
  <2>2. IoTypes'
    BY <1>2, <2>1 DEF Inv, IoTypes
  <2>3. InCall'
    BY <1>1, <1>2 DEF Inv, InCall
  <2>4. Watched'
    <3> SUFFICES ASSUME NEW d \in Fd, interest[d] # {}
                 PROVE  /\ cor[d] \in Fiber /\ owner[d] = cor[d]
                        /\ cor[d] \in Parked' \cup {g}
                        /\ \E op \in Ops : at[cor[d]] = <<op, d>> /\ interest[d] = {DirOf(op)}
      BY <1>1, <1>2 DEF Watched
    <3>1. cor[d] # cpu
      BY <1>3 DEF CpuIsTidy
    <3> QED BY <1>1, <3>1 DEF Inv, Watched
  <2>5. Waits'
    <3> SUFFICES ASSUME NEW h \in Parked \ {g}
                 PROVE  \/ at[h] = <<"delay">> /\ h \in ToSet(timers')
                        \/ \E op \in Ops, d \in Fd : at[h] = <<op, d>> /\ interest[d] = {DirOf(op)}
      BY <1>1, <1>2 DEF Waits
    <3> QED BY <2>1 DEF Inv, Waits
  <2>6. Sleepers'
    BY <1>1, <1>2, <2>1 DEF Inv, Sleepers
  <2>7. IoRuns'
    BY <1>1, <1>2, <1>3 DEF Inv, IoRuns
  <2>8. IoData'
    BY <1>2, <1>3 DEF Inv, IoData
  <2>9. Stopping'
    BY <1>1, <1>2, <2>1 DEF Inv, Stopping
  <2>10. TimersSorted'
    BY <1>2, <2>1 DEF Sorted, TimersSorted
  <2> QED BY <1>1, <2>2, <2>3, <2>4, <2>5, <2>6, <2>7, <2>8, <2>9, <2>10 DEF Inv
<1> QED BY <1>5, <1>6

\* ct_corthread_delay: the sleeper is put among the timers.
LEMMA DelayInv ==
  ASSUME Tidy, Inv, NEW f \in Fiber, NEW ms \in Delays, Delay(f, ms)
  PROVE  Inv'
<1>1. /\ Sched!Inv' /\ S!Live' = S!Live /\ cpu = f /\ f \in S!Live
      /\ Parked' = Parked \cup {f} /\ f \notin Parked
  BY SuspendEffect DEF Inv, Delay
<1>2. /\ Running(f) /\ Free(f) /\ ~stop.may /\ io # Null
      /\ at' = [at EXCEPT ![f] = <<"delay">>] /\ when' = [when EXCEPT ![f] = now + ms]
      /\ timers' = InsertAt(timers, TimerPlace(now + ms) + 1, f)
      /\ UNCHANGED <<interest, level, cor, owner, now, io, iopc, iotimer, iofds, ionow, due, stop>>
  BY DEF Delay, pollvars, loopvars
<1>3. CpuIsTidy /\ iopc \notin {"dispatch", "expire"} /\ f # io
  BY <1>2, FreeIsTidy
<1>4. /\ timers \in Seq(Fiber) /\ when \in [Fiber -> Nat] /\ now + ms \in Nat
      /\ Distinct(timers) /\ Sorted(timers, when) /\ f \notin ToSet(timers)
  BY <1>1 DEF Inv, IoTypes, Sleepers, TimersSorted, Sorted
<1> DEFINE w == now + ms
           p == TimerPlace(w)
<1> HIDE DEF w
<1>5. p \in 0 .. Len(timers) /\ (p # 0 => when[timers[p]] <= w)
  BY <1>4, TimerPlaceProperties DEF w
<1>6. \A i \in p + 1 .. Len(timers) : w <= when[timers[i]]
  BY <1>4, TimerPlaceProperties DEF w
<1>7. timers' = InsertAt(timers, p + 1, f) /\ when' = [when EXCEPT ![f] = w] /\ w \in Nat
  BY <1>2, <1>4 DEF w
<1> HIDE DEF p
<1>8. timers' \in Seq(Fiber)
  BY <1>4, <1>5, <1>7, InsertProperties
<1>9. ToSet(timers') = ToSet(timers) \cup {f} /\ Distinct(timers')
  BY <1>4, <1>5, <1>7, InsertRing
<1>10. Sorted(timers', when')
  BY <1>4, <1>5, <1>6, <1>7, InsertSorted
<1>11. at'[f] = <<"delay">> /\ at[f] = User /\ \A g \in Fiber \ {f} : at'[g] = at[g]
  BY <1>2 DEF Inv, IoTypes, Running
<1>12. IoTypes'
  BY <1>2, <1>7, <1>8 DEF Inv, IoTypes
<1>13. InCall'
  <2>1. \A g \in Fiber, op \in Ops, d \in Fd : at'[g] = <<op, d>> => at[g] = <<op, d>>
    BY <1>11, CallsDiffer
  <2>2. \A g \in Fiber : at'[g] # User => g \in S!Live'
    BY <1>1, <1>11 DEF Inv, InCall
  <2> QED BY <1>2, <2>1, <2>2 DEF Inv, InCall
<1>14. Watched'
  <2> SUFFICES ASSUME NEW d \in Fd, interest[d] # {}
               PROVE  /\ cor[d] \in Fiber /\ owner[d] = cor[d] /\ cor[d] \in Parked
                      /\ \E op \in Ops : at'[cor[d]] = <<op, d>> /\ interest[d] = {DirOf(op)}
    BY <1>1, <1>2 DEF Watched
  <2>1. cor[d] # f
    BY <1>1, <1>3 DEF CpuIsTidy
  <2> QED BY <1>1, <1>11, <2>1 DEF Inv, Watched
<1>15. Waits'
  <2> SUFFICES ASSUME NEW h \in Parked \cup {f}
               PROVE  \/ at'[h] = <<"delay">> /\ h \in ToSet(timers')
                      \/ \E op \in Ops, d \in Fd : at'[h] = <<op, d>> /\ interest[d] = {DirOf(op)}
    BY <1>1, <1>2 DEF Waits
  <2>1. CASE h = f
    BY <1>9, <1>11, <2>1
  <2>2. CASE h # f
    <3>1. at'[h] = at[h] /\ h \in Parked
      BY <1>11, <2>2 DEF Parked
    <3> QED BY <1>9, <3>1 DEF Inv, Waits
  <2> QED BY <2>1, <2>2
<1>16. Sleepers'
  <2> SUFFICES ASSUME NEW h \in ToSet(timers) \cup {f}
               PROVE  h \in Parked' /\ at'[h] = <<"delay">>
    BY <1>9 DEF Sleepers
  <2>1. CASE h = f
    BY <1>1, <1>11, <2>1
  <2>2. CASE h # f
    <3>1. h \in Parked /\ at[h] = <<"delay">> /\ h \in Fiber
      BY <2>2 DEF Inv, Sleepers, Parked
    <3> QED BY <1>1, <1>11, <2>2, <3>1
  <2> QED BY <2>1, <2>2
<1>17. IoRuns'
  <2>1. \A h \in Fiber : at'[h] = <<"io">> => at[h] = <<"io">>
    BY <1>11
  <2>2. io \in Fiber /\ at'[io] = at[io]
    BY <1>2, <1>3, <1>11 DEF Inv, IoTypes
  <2> QED BY <1>1, <1>2, <1>3, <2>1, <2>2 DEF Inv, IoRuns
<1>18. IoData'
  BY <1>2, <1>3 DEF Inv, IoData
<1>19. Stopping'
  BY <1>2 DEF Inv, Stopping
<1>20. TimersSorted'
  BY <1>10 DEF Sorted, TimersSorted
<1> QED BY <1>1, <1>12, <1>13, <1>14, <1>15, <1>16, <1>17, <1>18, <1>19, <1>20 DEF Inv

\* The fiber that executes is suspended in a call on a descriptor of its own on which
\* nobody else waits.
LEMMA WaitInv ==
  ASSUME Inv, NEW f \in Fiber, NEW op \in Ops, NEW d \in Fd, Wait(f, op, d),
         io # Null, f # io, iopc \notin {"dispatch", "expire"},
         \A e \in Fd \ {d} : cor[e] = f => interest[e] = {},
         interest[d] \subseteq {DirOf(op)},
         at[f] \in {User, <<op, d>>}, at' = [at EXCEPT ![f] = <<op, d>>],
         owner[d] \in {Null, f}, owner' = [owner EXCEPT ![d] = f],
         \A g \in Fiber \ {f}, p \in Ops : at[g] # <<p, d>>,
         UNCHANGED <<timers, when, now, io, loopvars, stop>>
  PROVE  Inv'
<1>1. /\ Sched!Inv' /\ S!Live' = S!Live /\ cpu = f /\ f \in S!Live
      /\ Parked' = Parked \cup {f} /\ f \notin Parked
  BY SuspendEffect DEF Inv, Wait
<1>2. /\ cor' = [cor EXCEPT ![d] = f] /\ interest' = [interest EXCEPT ![d] = @ \cup {DirOf(op)}]
      /\ UNCHANGED <<level, timers, when, now, io, iopc, iotimer, iofds, ionow, due, stop>>
  BY DEF Wait, P!Arm, loopvars
<1>3. /\ at'[f] = <<op, d>> /\ cor'[d] = f /\ owner'[d] = f /\ interest'[d] = {DirOf(op)}
      /\ \A g \in Fiber \ {f} : at'[g] = at[g]
      /\ \A e \in Fd \ {d} : cor'[e] = cor[e] /\ owner'[e] = owner[e] /\ interest'[e] = interest[e]
  BY <1>2 DEF Inv, IoTypes
<1>4. DirOf(op) \in {"R", "W"}
  BY DEF DirOf
<1>5. IoTypes'
  <2>1. at' \in [Fiber -> Calls \cup {User, <<"delay">>, <<"io">>}]
    BY DEF Inv, IoTypes, Calls
  <2>2. interest' \in [Fd -> SUBSET {"R", "W"}]
    BY <1>2, <1>4 DEF Inv, IoTypes
  <2>3. cor' \in [Fd -> Fiber \cup {Null}] /\ owner' \in [Fd -> Fiber \cup {Null}]
    BY <1>2 DEF Inv, IoTypes
  <2> QED BY <1>2, <2>1, <2>2, <2>3 DEF Inv, IoTypes
<1>6. InCall'
  <2>1. \A g \in Fiber : at'[g] # User => g \in S!Live'
    BY <1>1, <1>3 DEF Inv, InCall
  <2>2. ASSUME NEW g \in Fiber, NEW p \in Ops, NEW e \in Fd, at'[g] = <<p, e>>
        PROVE  owner'[e] = g /\ cor'[e] = g
    <3>1. CASE g = f
      BY <1>3, <2>2, <3>1, CallsDiffer
    <3>2. CASE g # f
      <4>1. at[g] = <<p, e>> /\ e # d
        BY <1>3, <2>2, <3>2
      <4> QED BY <1>3, <4>1 DEF Inv, InCall
    <3> QED BY <3>1, <3>2
  <2> QED BY <2>1, <2>2 DEF InCall
<1>7. Watched'
  <2> SUFFICES ASSUME NEW e \in Fd, interest'[e] # {}
               PROVE  /\ cor'[e] \in Fiber /\ owner'[e] = cor'[e] /\ cor'[e] \in Parked'
                      /\ \E p \in Ops : at'[cor'[e]] = <<p, e>> /\ interest'[e] = {DirOf(p)}
    BY DEF Watched
  <2>1. CASE e = d
    BY <1>1, <1>3, <2>1
  <2>2. CASE e # d
    <3>1. cor[e] # f /\ cor'[e] = cor[e] /\ interest'[e] = interest[e] /\ interest[e] # {}
      BY <1>3, <2>2
    <3>2. /\ cor[e] \in Fiber /\ owner[e] = cor[e] /\ cor[e] \in Parked
          /\ \E p \in Ops : at[cor[e]] = <<p, e>> /\ interest[e] = {DirOf(p)}
      BY <1>1, <3>1 DEF Inv, Watched
    <3>3. owner'[e] = owner[e] /\ at'[cor[e]] = at[cor[e]] /\ cor[e] \in Parked'
      BY <1>1, <1>3, <2>2, <3>1, <3>2
    <3> QED BY <3>1, <3>2, <3>3
  <2> QED BY <2>1, <2>2
<1>8. Waits'
  <2> SUFFICES ASSUME NEW h \in Parked \cup {f}
               PROVE  \/ at'[h] = <<"delay">> /\ h \in ToSet(timers)
                      \/ \E p \in Ops, e \in Fd : at'[h] = <<p, e>> /\ interest'[e] = {DirOf(p)}
    BY <1>1, <1>2 DEF Waits
  <2>1. CASE h = f
    BY <1>3, <2>1
  <2>2. CASE h # f
    <3>1. at'[h] = at[h] /\ h \in Parked /\ h \in Fiber
      BY <1>3, <2>2 DEF Parked
    <3>2. CASE at[h] = <<"delay">> /\ h \in ToSet(timers)
      BY <3>1, <3>2
    <3>3. ASSUME NEW p \in Ops, NEW e \in Fd, at[h] = <<p, e>>, interest[e] = {DirOf(p)}
          PROVE  at'[h] = <<p, e>> /\ interest'[e] = {DirOf(p)}
      <4>1. e # d
        BY <2>2, <3>1, <3>3
      <4> QED BY <1>3, <3>1, <3>3, <4>1
    <3> QED BY <3>1, <3>2, <3>3 DEF Inv, Waits
  <2> QED BY <2>1, <2>2
<1>9. Sleepers'
  <2> SUFFICES ASSUME NEW h \in ToSet(timers) PROVE h \in Parked' /\ at'[h] = <<"delay">>
    BY <1>2 DEF Inv, Sleepers
  <2>1. h \in Parked /\ at[h] = <<"delay">> /\ h \in Fiber /\ h # f
    BY <1>1 DEF Inv, Sleepers, Parked
  <2> QED BY <1>1, <1>3, <2>1
<1>10. IoRuns'
  <2>1. \A h \in Fiber : at'[h] = <<"io">> => at[h] = <<"io">>
    BY <1>3, CallsDiffer
  <2>2. io \in Fiber /\ at'[io] = at[io]
    BY <1>3 DEF Inv, IoTypes
  <2> QED BY <1>1, <1>2, <2>1, <2>2 DEF Inv, IoRuns
<1>11. IoData'
  BY <1>2 DEF Inv, IoData
<1>12. Stopping'
  BY <1>2 DEF Inv, Stopping
<1>13. TimersSorted'
  BY <1>2 DEF Inv, TimersSorted
<1> QED BY <1>1, <1>5, <1>6, <1>7, <1>8, <1>9, <1>10, <1>11, <1>12, <1>13 DEF Inv

\* A call that blocks.
LEMMA BlockInv ==
  ASSUME Tidy, Inv, NEW f \in Fiber, NEW op \in Ops, NEW d \in Fd, Block(f, op, d)
  PROVE  Inv'
<1>1. /\ Running(f) /\ Free(f) /\ io # Null /\ owner[d] \in {Null, f} /\ Wait(f, op, d)
      /\ owner' = [owner EXCEPT ![d] = IF @ = Null THEN f ELSE @]
      /\ at' = [at EXCEPT ![f] = <<op, d>>]
      /\ UNCHANGED <<timers, when, now, io, loopvars, stop>>
  BY DEF Block, MayUse, FileOpen
<1>2. CpuIsTidy /\ iopc \notin {"dispatch", "expire"} /\ f # io
  BY <1>1, FreeIsTidy
<1>3. cpu = f /\ at[f] = User
  BY <1>1 DEF Running
<1>4. owner' = [owner EXCEPT ![d] = f]
  BY <1>1 DEF Inv, IoTypes
<1>5. \A e \in Fd : cor[e] = f => interest[e] = {}
  BY <1>2, <1>3 DEF CpuIsTidy
<1>6. interest[d] = {}
  <2> SUFFICES ASSUME interest[d] # {} PROVE FALSE
    OBVIOUS
  <2>1. cor[d] \in Fiber /\ owner[d] = cor[d]
    BY DEF Inv, Watched
  <2> QED BY <1>1, <1>5, <2>1
<1>7. \A g \in Fiber \ {f}, p \in Ops : at[g] # <<p, d>>
  BY <1>1 DEF Inv, InCall
<1> QED BY <1>1, <1>2, <1>3, <1>4, <1>5, <1>6, <1>7, WaitInv

\* The call blocks again.
LEMMA AgainInv ==
  ASSUME Inv, NEW f \in Fiber, NEW op \in Ops, NEW d \in Fd, Again(f, op, d)
  PROVE  Inv'
<1>1. /\ cpu = f /\ at[f] = <<op, d>> /\ io # Null /\ Wait(f, op, d)
      /\ UNCHANGED <<owner, at, timers, when, now, io, loopvars, stop>>
  BY DEF Again
<1>2. f # io
  BY <1>1, CallsDiffer DEF Inv, IoRuns
<1>3. iopc \notin {"dispatch", "expire"}
  BY <1>1, <1>2 DEF Inv, IoRuns
<1>4. owner[d] = f /\ cor[d] = f
  BY <1>1 DEF Inv, InCall
<1>5. owner' = [owner EXCEPT ![d] = f] /\ at' = [at EXCEPT ![f] = <<op, d>>]
  <2>1. owner = [owner EXCEPT ![d] = f]
    BY <1>4 DEF Inv, IoTypes
  <2>2. at = [at EXCEPT ![f] = <<op, d>>]
    BY <1>1 DEF Inv, IoTypes
  <2> QED BY <1>1, <2>1, <2>2
<1>6. ASSUME NEW e \in Fd, cor[e] = f, interest[e] # {}
      PROVE  e = d /\ interest[e] = {DirOf(op)}
  <2>1. at[f] # User
    BY <1>1, CallsDiffer
  <2>2. PICK p \in Ops : at[f] = <<p, e>> /\ interest[e] = {DirOf(p)}
    BY <1>6, <2>1 DEF Inv, Watched
  <2>3. p = op /\ e = d
    BY <1>1, <2>2, CallsDiffer
  <2> QED BY <2>2, <2>3
<1>7. interest[d] \subseteq {DirOf(op)} /\ \A e \in Fd \ {d} : cor[e] = f => interest[e] = {}
  BY <1>4, <1>6
<1>8. \A g \in Fiber \ {f}, p \in Ops : at[g] # <<p, d>>
  BY <1>4 DEF Inv, InCall
<1> QED BY <1>1, <1>2, <1>3, <1>4, <1>5, <1>7, <1>8, WaitInv

-----------------------------------------------------------------------------
(* The loop wakes those who wait.                                          *)

\* What select found belongs to a fiber that is suspended in a call on it.
LEMMA DueWaits ==
  ASSUME Inv, NEW d \in Fd, NEW dir \in {"R", "W"}, AtLoop("dispatch"), <<d, dir>> \in due
  PROVE  /\ cor[d] \in Parked
         /\ \E op \in Ops : at[cor[d]] = <<op, d>> /\ DirOf(op) = dir
         /\ interest[d] = {dir}
<1>1. cpu = io /\ io # Null /\ dir \in interest[d]
  BY DEF AtLoop, Inv, IoData
<1>2. CpuIsTidy
  BY <1>1, OthersAreTidy
<1>3. cor[d] # cpu
  BY <1>1, <1>2 DEF CpuIsTidy
<1>4. cor[d] \in Parked
  BY <1>1, <1>3 DEF Inv, Watched
<1>5. PICK op \in Ops : at[cor[d]] = <<op, d>> /\ interest[d] = {DirOf(op)}
  BY <1>1, <1>3 DEF Inv, Watched
<1>6. DirOf(op) = dir
  BY <1>1, <1>5
<1> QED BY <1>4, <1>5, <1>6

\* The timer at hand is that of a fiber that is suspended in ct_corthread_delay.
LEMMA TimerSleeps ==
  ASSUME Inv, AtLoop("expire")
  PROVE  timers # <<>> /\ iotimer = Head(timers) /\ iotimer \in Parked /\ at[iotimer] = <<"delay">>
<1>1. timers # <<>> /\ iotimer = Head(timers)
  BY DEF AtLoop, Inv, IoData
<1>2. timers \in Seq(Fiber)
  BY DEF Inv, IoTypes
<1>3. iotimer \in ToSet(timers)
  BY <1>1, <1>2, RingPopProperties
<1> QED BY <1>1, <1>3 DEF Inv, Sleepers

\* read_callback and write_callback.
LEMMA CallbackInv ==
  ASSUME Inv, NEW d \in Fd, NEW dir \in {"R", "W"}, Callback(d, dir)
  PROVE  Inv'
<1>1. /\ AtLoop("dispatch") /\ <<d, dir>> \in due /\ due' = due \ {<<d, dir>>}
      /\ interest' = [interest EXCEPT ![d] = @ \ {dir}] /\ MakeReady(cor[d])
      /\ UNCHANGED <<level, cor, owner, at, timers, when, now, io, iopc, iotimer, iofds, ionow, stop>>
  BY DEF Callback, P!Deliver
<1>2. /\ cor[d] \in Parked /\ interest[d] = {dir}
      /\ \E op \in Ops : at[cor[d]] = <<op, d>> /\ DirOf(op) = dir
  BY <1>1, DueWaits
<1>3. cpu = io /\ io \in Fiber /\ io # Null /\ iopc = "dispatch"
  BY <1>1 DEF AtLoop, Inv, IoTypes
<1>4. Sched!Inv' /\ S!Live' = S!Live /\ cpu' = cpu /\ Parked' = Parked \ {cor[d]}
  BY <1>1, <1>2, <1>3, ReadyEffect DEF Inv
<1>5. interest'[d] = {} /\ \A e \in Fd \ {d} : interest'[e] = interest[e]
  BY <1>1, <1>2 DEF Inv, IoTypes
<1>6. IoTypes'
  <2>1. interest' \in [Fd -> SUBSET {"R", "W"}]
    BY <1>1 DEF Inv, IoTypes
  <2> QED BY <1>1, <2>1 DEF Inv, IoTypes
<1>7. InCall'
  BY <1>1, <1>4 DEF Inv, InCall
<1>8. Watched'
  <2> SUFFICES ASSUME NEW e \in Fd, e # d, interest[e] # {}
               PROVE  /\ cor[e] \in Fiber /\ owner[e] = cor[e] /\ cor[e] \in Parked'
                      /\ \E p \in Ops : at[cor[e]] = <<p, e>> /\ interest[e] = {DirOf(p)}
    <3>1. UNCHANGED <<cor, owner, at>>
      BY <1>1
    <3>2. \A e \in Fd : interest'[e] # {} => e # d /\ interest'[e] = interest[e]
      BY <1>5
    <3> QED BY <3>1, <3>2 DEF Watched
  <2>1. cor[e] # cpu
    BY <1>3, OthersAreTidy DEF CpuIsTidy
  <2>2. /\ cor[e] \in Fiber /\ owner[e] = cor[e] /\ cor[e] \in Parked
        /\ \E p \in Ops : at[cor[e]] = <<p, e>> /\ interest[e] = {DirOf(p)}
    BY <2>1 DEF Inv, Watched
  <2>3. cor[e] # cor[d]
    BY <1>2, <2>2, CallsDiffer
  <2> QED BY <1>4, <2>2, <2>3
<1>9. Waits'
  <2> SUFFICES ASSUME NEW h \in Parked \ {cor[d]}
               PROVE  \/ at[h] = <<"delay">> /\ h \in ToSet(timers)
                      \/ \E p \in Ops, e \in Fd : at[h] = <<p, e>> /\ interest'[e] = {DirOf(p)}
    BY <1>1, <1>4 DEF Waits
  <2>1. ASSUME NEW p \in Ops, NEW e \in Fd, at[h] = <<p, e>>
        PROVE  interest'[e] = interest[e]
    <3>1. cor[e] = h
      BY <2>1 DEF Inv, InCall, Parked
    <3> QED BY <1>5, <3>1
  <2> QED BY <2>1 DEF Inv, Waits
<1>10. Sleepers'
  <2>1. at[cor[d]] # <<"delay">>
    BY <1>2, CallsDiffer
  <2> QED BY <1>1, <1>4, <2>1 DEF Inv, Sleepers
<1>11. IoRuns'
  BY <1>1, <1>4 DEF Inv, IoRuns
<1>12. IoData'
  <2>1. due \subseteq Fd \X {"R", "W"}
    BY DEF Inv, IoTypes
  <2>2. ASSUME NEW c \in due' PROVE c[2] \in interest'[c[1]] /\ c \in level
    <3>1. c \in due /\ c[2] \in interest[c[1]] /\ c \in level /\ c[1] \in Fd /\ c = <<c[1], c[2]>>
      BY <1>1, <2>1 DEF Inv, IoData
    <3>2. c[1] # d
      BY <1>1, <1>2, <3>1
    <3> QED BY <1>5, <3>1, <3>2
  <2>3. iofds # 0
    BY <1>2, <1>3 DEF Inv, IoData
  <2> QED BY <1>1, <1>3, <2>2, <2>3 DEF Inv, IoData
<1>13. Stopping'
  BY <1>1, <1>4 DEF Inv, Stopping
<1>14. TimersSorted'
  BY <1>1 DEF Inv, TimersSorted
<1> QED BY <1>4, <1>6, <1>7, <1>8, <1>9, <1>10, <1>11, <1>12, <1>13, <1>14 DEF Inv

\* The timer at hand is woken.
LEMMA ExpireInv == ASSUME Inv, Expire PROVE Inv'
<1>1. /\ AtLoop("expire") /\ timers' = RingDetach(timers, iotimer) /\ MakeReady(iotimer)
      /\ \/ timers' # <<>> /\ iotimer' = Head(timers') /\ iopc' = iopc
         \/ iotimer' = Null /\ iopc' = "yield"
      /\ UNCHANGED <<interest, level, cor, owner, at, when, now, io, due, stop>>
  BY DEF Expire, pollvars
<1>2. timers # <<>> /\ iotimer \in Parked /\ at[iotimer] = <<"delay">>
  BY <1>1, TimerSleeps
<1>3. cpu = io /\ io \in Fiber /\ io # Null /\ iopc = "expire"
  BY <1>1 DEF AtLoop, Inv, IoTypes
<1>4. Sched!Inv' /\ S!Live' = S!Live /\ cpu' = cpu /\ Parked' = Parked \ {iotimer}
  BY <1>1, <1>2, <1>3, ReadyEffect DEF Inv
<1>5. /\ timers' \in Seq(Fiber) /\ ToSet(timers') = ToSet(timers) \ {iotimer}
      /\ Distinct(timers') /\ Sorted(timers', when)
  BY <1>1, TimersDetach
<1>6. iotimer' \in Fiber \cup {Null}
  BY <1>1, <1>5, RingPopProperties
<1>7. IoTypes'
  BY <1>1, <1>3, <1>5, <1>6 DEF Inv, IoTypes
<1>8. InCall'
  BY <1>1, <1>4 DEF Inv, InCall
<1>9. Watched'
  <2> SUFFICES ASSUME NEW e \in Fd, interest[e] # {}
               PROVE  /\ cor[e] \in Fiber /\ owner[e] = cor[e] /\ cor[e] \in Parked'
                      /\ \E p \in Ops : at[cor[e]] = <<p, e>> /\ interest[e] = {DirOf(p)}
    BY <1>1, <1>4 DEF Watched
  <2>1. cor[e] # cpu
    BY <1>3, OthersAreTidy DEF CpuIsTidy
  <2>2. /\ cor[e] \in Fiber /\ owner[e] = cor[e] /\ cor[e] \in Parked
        /\ \E p \in Ops : at[cor[e]] = <<p, e>> /\ interest[e] = {DirOf(p)}
    BY <2>1 DEF Inv, Watched
  <2>3. cor[e] # iotimer
    BY <1>2, <2>2, CallsDiffer
  <2> QED BY <1>4, <2>2, <2>3
<1>10. Waits'
  <2> SUFFICES ASSUME NEW h \in Parked \ {iotimer}
               PROVE  \/ at[h] = <<"delay">> /\ h \in ToSet(timers')
                      \/ \E p \in Ops, e \in Fd : at[h] = <<p, e>> /\ interest[e] = {DirOf(p)}
    BY <1>1, <1>4 DEF Waits
  <2> QED BY <1>5 DEF Inv, Waits
<1>11. Sleepers'
  BY <1>1, <1>4, <1>5 DEF Inv, Sleepers
<1>12. IoRuns'
  BY <1>1, <1>3, <1>4 DEF Inv, IoRuns
<1>13. IoData'
  BY <1>1, <1>3 DEF Inv, IoData
<1>14. Stopping'
  BY <1>1, <1>2, <1>3, <1>4 DEF Inv, Stopping
<1>15. TimersSorted'
  BY <1>1, <1>5 DEF Sorted, TimersSorted
<1> QED BY <1>4, <1>7, <1>8, <1>9, <1>10, <1>11, <1>12, <1>13, <1>14, <1>15 DEF Inv

-----------------------------------------------------------------------------
(* The invariant.                                                          *)

\* It holds when the thread has called nothing yet, ...
LEMMA InitInv == ASSUME Init PROVE Inv
<1>1. Sched!Inv
  <2>1. Sched!Init
    BY DEF Init, S!Init, Sched!Init, S!Blank, Sched!Blank
  <2> QED BY <2>1, Sched!InitInv
<1>2. Parked = {}
  BY DEF Init, S!Init, Parked, S!Suspended, S!Live, S!ToSet
<1>3. /\ interest = [f \in Fd |-> {}] /\ cor = [d \in Fd |-> Null] /\ owner = [d \in Fd |-> Null]
      /\ at = [f \in Fiber |-> User] /\ timers = <<>> /\ when = [f \in Fiber |-> 0] /\ now = 0
      /\ io = Null /\ iotimer = Null /\ due = {} /\ iopc = "none"
      /\ stop \in [on : {FALSE}, may : Stops]
  BY DEF Init, P!Init
<1>4. stop \in [on : BOOLEAN, may : BOOLEAN] /\ ~stop.on
  BY <1>3
<1>5. IoTypes
  BY <1>3, <1>4 DEF IoTypes
<1>6. InCall /\ Waits
  BY <1>2, <1>3, CallsDiffer DEF InCall, Waits
<1>7. Watched
  BY <1>3 DEF Watched
<1>8. Sleepers /\ TimersSorted
  BY <1>3, RingEmptyProperties DEF Sleepers, TimersSorted
<1>9. IoRuns /\ IoData /\ Stopping
  BY <1>2, <1>3, <1>4 DEF IoRuns, IoData, Stopping, User
<1> QED BY <1>1, <1>5, <1>6, <1>7, <1>8, <1>9 DEF Inv

\* ... and after every step of a fiber, of the thread's own code, of a peer or of
\* the clock.
LEMMA NextInv == ASSUME Tidy, Inv, [Next]_vars PROVE Inv'
<1>1. CASE \E f \in Fiber : Create(f) \/ IoCheck(f) \/ Yield(f)
  BY <1>1, CreateInv, IoCheckInv, YieldInv
<1>2. CASE \E f \in Fiber : Resume(f)
  BY <1>2, DelayReturnInv, ReturnInv, AgainInv DEF Resume
<1>3. CASE \E f \in Fiber : GiveUp(f)
  BY <1>3, ExitInv, DelayInv, BlockInv DEF GiveUp
<1>4. CASE \E f, g \in Fiber, s \in Signals : Signal(f, g, s)
  BY <1>4, SignalInv
<1>5. CASE \E f \in Fiber, op \in Ops, d \in Fd : Immediate(f, op, d)
  BY <1>5, ImmediateInv
<1>6. CASE \E f \in Fiber, d \in Fd : Close(f, d)
  BY <1>6, CloseInv
<1>7. CASE \E d \in Fd, dir \in {"R", "W"} : Arrive(d, dir)
  BY <1>7, ArriveInv
<1>8. CASE Main \/ ScheduleStop \/ Tick
  BY <1>8, MainInv, ScheduleStopInv, TickInv
<1>9. CASE Loop
  BY <1>9, LoopStartInv, LoopYieldInv, LoopPollInv, LoopExitInv, LoopAgainInv, LoopExpireInv,
     ExpireInv, CallbackInv DEF Loop
<1>10. CASE UNCHANGED vars
  <2>1. UNCHANGED schedvars /\ UNCHANGED iovars /\ now' = now
    BY <1>10 DEF vars, iovars
  <2>2. Sched!Inv' /\ Parked' = Parked /\ S!Live' = S!Live /\ cpu' = cpu
    BY <2>1, SchedRests
  <2> QED BY <2>1, <2>2, MoveInv DEF Inv, IoTypes
<1> QED BY <1>1, <1>2, <1>3, <1>4, <1>5, <1>6, <1>7, <1>8, <1>9, <1>10 DEF Next

\* Whatever fibers do with sockets, sleeps, signals, kills and the stop, the rings,
\* the timers, FILE_EVENT and the loop's own variables agree with one another.
THEOREM Invariance == ASSUME Tidy PROVE Spec => []Inv
<1> USE Tidy
<1> QED BY InitInv, NextInv, PTL DEF Spec

-----------------------------------------------------------------------------
(* What follows from it.                                                   *)

\* `me' links a fiber into one ring at most, whatever timers, wakeups, signals and
\* exits do: circle.c, which does not look, never corrupts one.
THEOREM InOneRing == ASSUME Tidy PROVE Spec => []OneRing
<1>1. Inv => OneRing
  <2> SUFFICES ASSUME Inv PROVE OneRing
    OBVIOUS
  <2>1. Settled
    BY InvSettled DEF Inv
  <2>2. S!OnePlace
    BY SameRings DEF Inv, Sched!Inv, Sched!OnePlace, S!OnePlace
  <2>3. \A f \in ToSet(timers) : f \in S!Live \ (ToSet(ready) \cup {cpu}) /\ f \notin ToSet(dead)
    BY <2>1 DEF Inv, Sleepers, Settled
  <2> QED BY <2>2, <2>3 DEF OneRing, Inv, Sleepers
<1> QED BY <1>1, Invariance, PTL

\* ev_timer stays sorted, wherever ct_corthread_delay inserts and signals remove.
THEOREM TimersStaySorted == ASSUME Tidy PROVE Spec => []TimersSorted
<1>1. Inv => TimersSorted
  BY DEF Inv
<1> QED BY <1>1, Invariance, PTL

\* Whoever is suspended is watched for or timed, and the I/O fiber serves him.
THEOREM NobodyStaysForgotten == ASSUME Tidy PROVE Spec => []NobodyIsForgotten
<1>1. Inv => NobodyIsForgotten
  <2> SUFFICES ASSUME Inv, NEW f \in Fiber, IsSuspended(f)
               PROVE  /\ \A op \in Ops, d \in Fd :
                           at[f] = <<op, d>> => DirOf(op) \in interest[d] /\ cor[d] = f
                      /\ at[f] = <<"delay">> => f \in ToSet(timers)
                      /\ ~stop.may => io # Null /\ io \in ToSet(ready) \cup {cpu}
    BY DEF NobodyIsForgotten
  <2>1. f \in Parked
    BY DEF IsSuspended, Parked
  <2>2. ASSUME NEW op \in Ops, NEW d \in Fd, at[f] = <<op, d>>
        PROVE  DirOf(op) \in interest[d] /\ cor[d] = f
    <3>1. at[f] # <<"delay">>
      BY <2>2, CallsDiffer
    <3>2. PICK p \in Ops, e \in Fd : at[f] = <<p, e>> /\ interest[e] = {DirOf(p)}
      BY <2>1, <3>1 DEF Inv, Waits
    <3>3. p = op /\ e = d
      BY <2>2, <3>2, CallsDiffer
    <3> QED BY <2>2, <3>2, <3>3 DEF Inv, InCall
  <2>3. at[f] = <<"delay">> => f \in ToSet(timers)
    BY <2>1, CallsDiffer DEF Inv, Waits
  <2>4. ASSUME ~stop.may PROVE io # Null /\ io \in ToSet(ready) \cup {cpu}
    <3>1. io # Null
      BY <2>1, <2>4 DEF Inv, Stopping
    <3>2. io \in S!Live \ Parked
      BY <3>1 DEF Inv, IoRuns
    <3>3. Settled
      BY InvSettled DEF Inv
    <3> QED BY <3>1, <3>2, <3>3 DEF Settled
  <2> QED BY <2>2, <2>3, <2>4
<1> QED BY <1>1, Invariance, PTL

\* The loop wakes whoever is suspended in the very call the wakeup belongs to.
THEOREM EveryWakeupIsRight == ASSUME Tidy PROVE Spec => WakesTheWaiter
<1>1. Inv /\ [Next]_vars =>
        [ /\ \A d \in Fd, dir \in {"R", "W"} : Callback(d, dir) =>
               /\ IsSuspended(cor[d])
               /\ \E op \in Ops : at[cor[d]] = <<op, d>> /\ DirOf(op) = dir
          /\ Expire => IsSuspended(iotimer) /\ at[iotimer] = <<"delay">> ]_vars
  <2> SUFFICES ASSUME Inv
               PROVE  /\ \A d \in Fd, dir \in {"R", "W"} : Callback(d, dir) =>
                           /\ IsSuspended(cor[d])
                           /\ \E op \in Ops : at[cor[d]] = <<op, d>> /\ DirOf(op) = dir
                      /\ Expire => IsSuspended(iotimer) /\ at[iotimer] = <<"delay">>
    OBVIOUS
  <2>1. \A f \in Parked : IsSuspended(f)
    BY InvSettled DEF Inv, Settled, IsSuspended, Parked
  <2>2. ASSUME NEW d \in Fd, NEW dir \in {"R", "W"}, Callback(d, dir)
        PROVE  /\ IsSuspended(cor[d])
               /\ \E op \in Ops : at[cor[d]] = <<op, d>> /\ DirOf(op) = dir
    BY <2>1, <2>2, DueWaits DEF Callback
  <2>3. Expire => IsSuspended(iotimer) /\ at[iotimer] = <<"delay">>
    BY <2>1, TimerSleeps DEF Expire
  <2> QED BY <2>2, <2>3
<1> QED BY <1>1, Invariance, PTL DEF Spec, WakesTheWaiter

\* Who is in a call gives up the CPU only when he waits once more.
LEMMA InCallKeepsCpu ==
  ASSUME Inv, [Next]_vars, NEW f \in Fiber, cpu = f, at[f] \in Calls, cpu' # f
  PROVE  \E op \in Ops, d \in Fd : Again(f, op, d)
<1>1. /\ at[f] # User /\ at[f] # <<"delay">> /\ at[f] # <<"io">>
  <2>1. PICK op \in Ops, d \in Fd : at[f] = <<op, d>>
    BY CallsArePairs
  <2> QED BY <2>1, CallsDiffer
<1>2. f # io /\ ~(cpu = io /\ io # Null)
  BY <1>1 DEF Inv, IoRuns, IoTypes
<1>3. ~Running(f) /\ cpu # Original
  BY <1>1 DEF Running
<1>4. CASE \E g \in Fiber : Create(g) \/ IoCheck(g) \/ Yield(g) \/ GiveUp(g)
  <2>1. ~Running(cpu) /\ cpu \in Fiber /\ \A g \in Fiber : ~Running(g)
    BY <1>3 DEF Running
  <2>2. ASSUME NEW g \in Fiber, IoCheck(g) PROVE cpu' = cpu
    BY <2>2, CreateEffect DEF IoCheck, Inv
  <2> QED BY <1>4, <2>1, <2>2 DEF Create, Yield, GiveUp, Exit, Delay, Block
<1>5. CASE \E g \in Fiber : Resume(g)
  <2>1. PICK g \in Fiber : Resume(g)
    BY <1>5
  <2>2. CASE DelayReturn(g) \/ \E op \in Ops, d \in Fd : Return(g, op, d)
    BY <2>2 DEF DelayReturn, Return, schedvars
  <2>3. CASE \E op \in Ops, d \in Fd : Again(g, op, d)
    BY <2>3 DEF Again
  <2> QED BY <2>1, <2>2, <2>3 DEF Resume
<1>6. CASE \E g, h \in Fiber, s \in Signals : Signal(g, h, s)
  BY <1>3, <1>6 DEF Signal, Running
<1>7. CASE \/ \E g \in Fiber, op \in Ops, d \in Fd : Immediate(g, op, d)
           \/ \E g \in Fiber, d \in Fd : Close(g, d)
           \/ \E d \in Fd, dir \in {"R", "W"} : Arrive(d, dir)
           \/ ScheduleStop \/ Tick \/ UNCHANGED vars
  BY <1>7 DEF Immediate, Close, Arrive, ScheduleStop, Tick, vars, schedvars
<1>8. CASE Main
  BY <1>3, <1>8, MainEffect DEF Main, Inv
<1>9. CASE Loop
  BY <1>2, <1>9 DEF Loop, LoopStart, LoopYield, LoopPoll, LoopExit, LoopAgain, LoopExpire,
     Expire, Callback, AtLoop
<1> QED BY <1>4, <1>5, <1>6, <1>7, <1>8, <1>9 DEF Next

\* A fiber that was killed in a blocking call comes back from it, whatever the
\* descriptor's FILE_EVENT has seen since.
THEOREM KillEndsTheCall == ASSUME Tidy PROVE Spec => KillEndsCall
<1>1. Inv /\ [Next]_vars =>
        [\A f \in Fiber : cpu = f /\ at[f] \in Calls /\ fib[f].killed => cpu' = f]_vars
  <2> SUFFICES ASSUME Inv, [Next]_vars, NEW f \in Fiber, cpu = f, at[f] \in Calls, fib[f].killed,
                      cpu' # f
               PROVE  FALSE
    OBVIOUS
  <2>1. PICK op \in Ops, d \in Fd : Again(f, op, d)
    BY InCallKeepsCpu
  <2>2. cor[d] = f
    BY <2>1 DEF Again, Inv, InCall
  <2> QED BY <2>1, <2>2 DEF Again, Over, Killed
<1> QED BY <1>1, Invariance, PTL DEF Spec, KillEndsCall

\* What the library does to the scheduler is one of the scheduler's steps.
LEMMA StepSchedules == ASSUME Inv, [Next]_vars PROVE [S!Next]_(S!vars)
<1>1. ASSUME UNCHANGED schedvars PROVE [S!Next]_(S!vars)
  BY <1>1 DEF schedvars, S!vars
<1>2. CASE \E f \in Fiber : Create(f) \/ IoCheck(f)
  BY <1>2 DEF Create, IoCheck, S!Next
<1>3. CASE \E f \in Fiber : Yield(f) \/ GiveUp(f)
  BY <1>3 DEF Yield, GiveUp, Exit, Delay, Block, Wait, S!Next, S!GiveUp
<1>4. CASE \E f \in Fiber : Resume(f)
  BY <1>1, <1>4 DEF Resume, DelayReturn, Return, Again, Wait, S!Next, S!GiveUp
<1>5. CASE \E f, g \in Fiber, s \in Signals : Signal(f, g, s)
  BY <1>5 DEF Signal, S!Next
<1>6. CASE \/ \E f \in Fiber, op \in Ops, d \in Fd : Immediate(f, op, d)
           \/ \E f \in Fiber, d \in Fd : Close(f, d)
           \/ \E d \in Fd, dir \in {"R", "W"} : Arrive(d, dir)
           \/ ScheduleStop \/ Tick
  BY <1>1, <1>6 DEF Immediate, Close, Arrive, ScheduleStop, Tick
<1>7. CASE Main
  BY <1>7 DEF Main, S!Next
<1>8. CASE Loop
  <2>1. io # Null /\ cpu = io => io \in Fiber
    BY DEF Inv, IoTypes
  <2>2. CASE LoopStart \/ LoopYield \/ LoopExit
    BY <1>1, <2>1, <2>2 DEF LoopStart, LoopYield, LoopExit, AtLoop, S!Next, S!GiveUp
  <2>3. CASE LoopPoll \/ LoopAgain \/ LoopExpire
    BY <1>1, <2>3 DEF LoopPoll, LoopAgain, LoopExpire
  <2>4. ASSUME NEW g \in Parked, cpu \in Fiber, MakeReady(g) PROVE S!Next
    <3>1. S!Ready(g) /\ g \in Fiber
      BY <2>4, ReadyEffect DEF Inv, Parked
    <3> QED BY <3>1 DEF S!Next
  <2>5. CASE Expire
    BY <2>1, <2>4, <2>5, TimerSleeps DEF Expire, AtLoop
  <2>6. CASE \E d \in Fd, dir \in {"R", "W"} : Callback(d, dir)
    <3>1. PICK d \in Fd, dir \in {"R", "W"} : Callback(d, dir)
      BY <2>6
    <3>2. cor[d] \in Parked
      BY <3>1, DueWaits DEF Callback
    <3> QED BY <2>1, <2>4, <3>1, <3>2 DEF Callback, AtLoop
  <2> QED BY <1>8, <2>2, <2>3, <2>5, <2>6 DEF Loop
<1>9. CASE UNCHANGED vars
  BY <1>1, <1>9 DEF vars
<1> QED BY <1>2, <1>3, <1>4, <1>5, <1>6, <1>7, <1>8, <1>9 DEF Next

\* The I/O layer uses the scheduler as its interface demands: every theorem about
\* fibers holds of fibers that sleep, block, are woken by the loop and killed.
THEOREM ImplementsTheScheduler == ASSUME Tidy PROVE Spec => ImplementsSched
<1>1. Init => S!Init
  BY DEF Init
<1> QED BY <1>1, Invariance, StepSchedules, PTL DEF Spec, ImplementsSched, S!Spec

-----------------------------------------------------------------------------
(* The clock.                                                              *)

\* A sleeper that is not suspended any more has slept long enough or was signalled,
\* and the loop wakes nobody before the time it has read.
Punctual ==
  /\ \A f \in Fiber : at[f] = <<"delay">> /\ f \notin Parked => now >= when[f] \/ fib[f].signum # 0
  /\ iopc = "expire" => ionow \in Nat /\ ionow <= now /\ when[iotimer] <= ionow

\* Setting a status leaves the signal's number.
LEMMA StatusSignum ==
  ASSUME fib \in [Fiber -> S!Struct], NEW f \in Fiber, NEW g \in Fiber, NEW status \in S!Status,
         fib' = [fib EXCEPT ![g].status = status]
  PROVE  fib'[f].signum = fib[f].signum
<1>1. CASE f = g
  BY <1>1 DEF S!Struct
<1>2. CASE f # g
  BY <1>2
<1> QED BY <1>1, <1>2

\* The signal reaches its target.
LEMMA SignalMarks ==
  ASSUME fib \in [Fiber -> S!Struct], NEW g \in Fiber, NEW h \in Fiber, NEW s \in Signals,
         S!Signal(g, h, s), s # 0
  PROVE  fib'[h].signum # 0
<1> DEFINE hit == [fib[h] EXCEPT !.signum = s, !.killed = @ \/ s = SIGTERM]
<1>1. hit.signum = s /\ [hit EXCEPT !.status = "READY"].signum = s
  BY DEF S!Struct
<1>2. fib'[h] = hit \/ fib'[h] = [hit EXCEPT !.status = "READY"]
  <2> HIDE DEF hit
  <2>1. CASE g = h
    BY <2>1 DEF S!Signal, hit
  <2>2. CASE g # h
    BY <2>2 DEF S!Signal, hit
  <2> QED BY <2>1, <2>2
<1> HIDE DEF hit
<1> QED BY <1>1, <1>2

\* A signal's number stays as long as the fiber lives, but for another one.
LEMMA SignumStays ==
  ASSUME 0 \notin Signals, Sched!Inv, S!Next, NEW f \in S!Live, fib[f].signum # 0
  PROVE  fib'[f].signum # 0
<1>1. Settled
  BY InvSettled
<1>2. fib \in [Fiber -> S!Struct] /\ f \in Fiber /\ f \notin ToSet(dead) /\ dead \in Seq(Fiber)
  BY <1>1 DEF Settled
<1>3. ASSUME NEW g \in Fiber, S!Create(g) PROVE fib'[f].signum # 0
  <2>1. g # f
    BY <1>3, CreateEffect
  <2> QED BY <1>2, <1>3, <2>1 DEF S!Create
<1>4. ASSUME NEW g \in Fiber, S!Ready(g) PROVE fib'[f].signum # 0
  <2>1. fib' = [fib EXCEPT ![g].status = "READY"] \/ fib' = fib
    BY <1>4 DEF S!Ready, S!MakeReady
  <2> QED BY <1>2, <2>1, StatusSignum DEF S!Status
<1>5. ASSUME NEW g \in Fiber, S!Exit(g) PROVE fib'[f].signum # 0
  <2>1. S!Surplus \in 0 .. Len(dead)
    BY <1>2 DEF S!Surplus
  <2>2. ToSet(SubSeq(dead, 1, S!Surplus)) \subseteq ToSet(dead)
    BY <1>2, <2>1, RingCutProperties
  <2>3. f \notin S!Kicked
    BY <1>2, <2>2, SameRings DEF S!Kicked
  <2> HIDE DEF S!Kicked
  <2>4. fib'[f] \in {[fib[g] EXCEPT !.status = "EXITING"], [fib[f] EXCEPT !.slot = fib[g].slot], fib[f]}
        /\ (g = f => fib'[f] = [fib[g] EXCEPT !.status = "EXITING"])
        /\ (g # f => fib'[f] \in {[fib[f] EXCEPT !.slot = fib[g].slot], fib[f]})
    BY <1>2, <1>5, <2>3 DEF S!Exit
  <2> QED BY <1>2, <2>4 DEF S!Struct
<1>6. ASSUME NEW g \in Fiber, S!Suspend(g) \/ S!Yield(g) \/ S!System(g) PROVE fib'[f].signum # 0
  <2>1. CASE S!Suspend(g) \/ S!Yield(g)
    <3>1. fib' = [fib EXCEPT ![g].status = "READY"] \/ fib' = fib
      BY <2>1 DEF S!Suspend, S!Yield
    <3> QED BY <1>2, <3>1, StatusSignum DEF S!Status
  <2>2. CASE S!System(g)
    <3>1. fib' = [fib EXCEPT ![g].sys = TRUE]
      BY <2>2 DEF S!System
    <3>2. CASE f = g
      BY <1>2, <3>1, <3>2 DEF S!Struct
    <3>3. CASE f # g
      BY <1>2, <3>1, <3>3
    <3> QED BY <3>2, <3>3
  <2> QED BY <1>6, <2>1, <2>2
<1>7. ASSUME NEW g \in Fiber, NEW h \in Fiber, NEW s \in Signals, S!Signal(g, h, s)
      PROVE  fib'[f].signum # 0
  <2>1. s # 0
    OBVIOUS
  <2>2. fib'[h].signum # 0
    BY <1>2, <1>7, <2>1, SignalMarks
  <2>3. CASE f # h
    <3>1. \/ f = g /\ fib'[f] = [fib[f] EXCEPT !.status = "READY"]
          \/ fib'[f] = fib[f]
      BY <1>2, <1>7, <2>3 DEF S!Signal
    <3> QED BY <1>2, <3>1 DEF S!Struct
  <2> QED BY <2>2, <2>3
<1>8. CASE S!Schedule \/ S!ScheduleNext
  <2>1. CASE S!Schedule
    BY <2>1 DEF S!Schedule
  <2>2. CASE S!ScheduleNext
    <3>1. ready # <<>> /\ fib' = [fib EXCEPT ![Head(ready)].status = "READY"]
      BY <2>2 DEF S!ScheduleNext
    <3>2. Head(ready) \in Fiber
      BY <1>1, <3>1 DEF Settled
    <3> QED BY <1>2, <3>1, <3>2, StatusSignum DEF S!Status
  <2> QED BY <1>8, <2>1, <2>2
<1>9. CASE S!ScheduleEnd
  BY <1>2, <1>9, SameRings DEF S!ScheduleEnd
<1>10. CASE \E on \in BOOLEAN : S!ScheduleInit(on)
  BY <1>10 DEF S!ScheduleInit
<1> QED BY <1>3, <1>4, <1>5, <1>6, <1>7, <1>8, <1>9, <1>10 DEF S!Next, S!GiveUp

LEMMA StepSignum ==
  ASSUME 0 \notin Signals, Inv, [Next]_vars, NEW f \in S!Live, fib[f].signum # 0
  PROVE  fib'[f].signum # 0
<1>1. [S!Next]_(S!vars)
  BY StepSchedules
<1>2. CASE UNCHANGED S!vars
  BY <1>2 DEF S!vars
<1> QED BY <1>1, <1>2, SignumStays DEF Inv

\* Steps after which nobody sleeps who did not, and who is woken is awake in time.
LEMMA KeepPunctual ==
  ASSUME 0 \notin Signals, Inv, Punctual, [Next]_vars, now' >= now, now' \in Nat,
         \A f \in Fiber : at'[f] = <<"delay">> /\ f \notin Parked' =>
                            /\ at[f] = <<"delay">> /\ when'[f] = when[f]
                            /\ f \in Parked => now >= when[f] \/ fib'[f].signum # 0,
         iopc' = "expire" => ionow' \in Nat /\ ionow' <= now' /\ when'[iotimer'] <= ionow'
  PROVE  Punctual'
<1>1. ASSUME NEW f \in Fiber, at'[f] = <<"delay">>, f \notin Parked'
      PROVE  now' >= when'[f] \/ fib'[f].signum # 0
  <2>1. at[f] = <<"delay">> /\ when'[f] = when[f] /\ when[f] \in Nat /\ now \in Nat
    BY <1>1 DEF Inv, IoTypes
  <2>2. CASE f \in Parked
    BY <1>1, <2>1, <2>2
  <2>3. CASE f \notin Parked
    <3>1. f \in S!Live
      BY <2>1 DEF Inv, InCall, User
    <3>2. fib[f].signum # 0 => fib'[f].signum # 0
      BY <3>1, StepSignum
    <3> QED BY <2>1, <2>3, <3>2 DEF Punctual
  <2> QED BY <2>2, <2>3
<1> QED BY <1>1 DEF Punctual

\* No step of the loop, of a signal or of a sleeper itself comes between.
LEMMA QuietPunctual ==
  ASSUME 0 \notin Signals, Inv, Punctual, [Next]_vars, now' >= now, now' \in Nat, when' = when,
         Parked \subseteq Parked',
         \A f \in Fiber : at'[f] = <<"delay">> /\ f \notin Parked' => at[f] = <<"delay">>,
         iopc' = "expire" => UNCHANGED <<iopc, ionow, iotimer>>
  PROVE  Punctual'
<1>1. iopc' = "expire" => ionow' \in Nat /\ ionow' <= now' /\ when'[iotimer'] <= ionow'
  BY DEF Punctual, Inv, IoTypes
<1> QED BY <1>1, KeepPunctual

LEMMA InitPunctual == ASSUME Init PROVE Punctual
  BY DEF Init, Punctual, User

LEMMA NextPunctual ==
  ASSUME Tidy, 0 \notin Signals, Inv, Punctual, [Next]_vars PROVE Punctual'
<1>0. now \in Nat /\ when \in [Fiber -> Nat] /\ at \in [Fiber -> Calls \cup {User, <<"delay">>, <<"io">>}]
  BY DEF Inv, IoTypes
<1>1. ASSUME NEW g \in Fiber, Create(g) \/ IoCheck(g) PROVE Punctual'
  <2>1. Parked' = Parked
    BY <1>1, CreateEffect DEF Create, IoCheck, Inv
  <2>2. /\ when' = when /\ now' = now
        /\ \A f \in Fiber : at'[f] = <<"delay">> => at[f] = <<"delay">>
        /\ iopc' = "expire" => UNCHANGED <<iopc, ionow, iotimer>>
    BY <1>0, <1>1 DEF Create, IoCheck, loopvars, User
  <2> QED BY <1>0, <2>1, <2>2, QuietPunctual
<1>2. ASSUME NEW g \in Fiber, Yield(g) PROVE Punctual'
  <2>1. Parked' = Parked /\ UNCHANGED <<at, when, now, iopc, ionow, iotimer>>
    BY <1>2, YieldEffect DEF Yield, Inv, loopvars
  <2> QED BY <1>0, <2>1, QuietPunctual
<1>3. ASSUME NEW g \in Fiber, Exit(g) PROVE Punctual'
  <2>1. Parked' = Parked /\ UNCHANGED <<at, when, now, iopc, ionow, iotimer>>
    BY <1>3, ExitEffect DEF Exit, Inv, loopvars
  <2> QED BY <1>0, <2>1, QuietPunctual
<1>4. ASSUME NEW g \in Fiber, NEW ms \in Delays, Delay(g, ms) PROVE Punctual'
  <2>1. Parked' = Parked \cup {g} /\ UNCHANGED <<now, iopc, ionow, iotimer>>
    BY <1>4, SuspendEffect DEF Delay, Inv, loopvars
  <2>2. \A f \in Fiber : f # g => at'[f] = at[f] /\ when'[f] = when[f]
    BY <1>0, <1>4 DEF Delay
  <2>3. iopc # "expire"
    BY <1>4, FreeIsTidy DEF Delay
  <2> QED BY <1>0, <2>1, <2>2, <2>3, KeepPunctual
<1>5. ASSUME NEW g \in Fiber, NEW op \in Ops, NEW d \in Fd, Block(g, op, d) \/ Again(g, op, d)
      PROVE  Punctual'
  <2>1. Parked' = Parked \cup {g} /\ UNCHANGED <<now, when, iopc, ionow, iotimer>>
    BY <1>5, SuspendEffect DEF Block, Again, Wait, Inv, loopvars
  <2>2. \A f \in Fiber : at'[f] = <<"delay">> => at[f] = <<"delay">>
    BY <1>0, <1>5, CallsDiffer DEF Block, Again
  <2> QED BY <1>0, <2>1, <2>2, QuietPunctual
<1>6. ASSUME NEW g \in Fiber, DelayReturn(g) PROVE Punctual'
  <2>1. Parked' = Parked /\ UNCHANGED <<now, iopc, ionow, iotimer>>
    BY <1>6, SchedRests DEF DelayReturn, Inv, loopvars
  <2>2. \A f \in Fiber : at'[f] = <<"delay">> => at[f] = <<"delay">> /\ when'[f] = when[f]
    BY <1>0, <1>6 DEF DelayReturn, User
  <2>3. iopc # "expire"
    BY <1>6 DEF DelayReturn, Inv, IoRuns
  <2> QED BY <1>0, <2>1, <2>2, <2>3, KeepPunctual
<1>7. ASSUME NEW g \in Fiber, NEW op \in Ops, NEW d \in Fd, Return(g, op, d) PROVE Punctual'
  <2>1. Parked' = Parked /\ UNCHANGED <<now, when, iopc, ionow, iotimer>>
    BY <1>7, SchedRests DEF Return, Inv, loopvars
  <2>2. \A f \in Fiber : at'[f] = <<"delay">> => at[f] = <<"delay">>
    BY <1>0, <1>7 DEF Return, User
  <2> QED BY <1>0, <2>1, <2>2, QuietPunctual
<1>8. ASSUME NEW g \in Fiber, NEW h \in Fiber, NEW s \in Signals, Signal(g, h, s) PROVE Punctual'
  <2>1. Parked' = Parked \ {h} /\ UNCHANGED <<at, now, when, iopc, ionow, iotimer>>
    BY <1>8, SignalEffect DEF Signal, Inv, loopvars
  <2>2. fib'[h].signum # 0
    <3>1. s # 0 /\ fib \in [Fiber -> S!Struct]
      BY InvSettled DEF Inv, Settled
    <3>2. S!Signal(g, h, s)
      BY <1>8 DEF Signal
    <3> QED BY <3>1, <3>2, SignalMarks
  <2>3. iopc # "expire"
    BY <1>8, FreeIsTidy DEF Signal
  <2> QED BY <1>0, <2>1, <2>2, <2>3, KeepPunctual
<1>9. CASE \/ \E f \in Fiber, op \in Ops, d \in Fd : Immediate(f, op, d)
           \/ \E f \in Fiber, d \in Fd : Close(f, d)
           \/ \E d \in Fd, dir \in {"R", "W"} : Arrive(d, dir)
           \/ ScheduleStop \/ Tick \/ UNCHANGED vars
  <2>1. UNCHANGED <<schedvars, at, when, iopc, ionow, iotimer>>
    BY <1>9 DEF Immediate, Close, Arrive, ScheduleStop, Tick, vars, loopvars
  <2>2. now' \in Nat /\ now' >= now
    BY <1>0, <1>9 DEF Immediate, Close, Arrive, ScheduleStop, Tick, vars
  <2>3. Parked' = Parked
    BY <2>1, SchedRests DEF Inv
  <2> QED BY <2>1, <2>2, <2>3, QuietPunctual
<1>10. CASE Main
  <2>1. Parked' = Parked /\ UNCHANGED <<at, when, now, iopc, ionow, iotimer>>
    BY <1>10, MainEffect DEF Main, Inv, loopvars
  <2> QED BY <1>0, <2>1, QuietPunctual
<1>11. CASE Loop
  <2>0. io # Null /\ cpu = io => io \in Fiber
    BY DEF Inv, IoTypes
  <2>1. CASE LoopStart
    <3>1. Parked' = Parked
      BY <2>0, <2>1, SystemEffect, SchedRests DEF LoopStart, AtLoop, Inv
    <3>2. UNCHANGED <<at, when, now>> /\ iopc' # "expire"
      BY <2>1 DEF LoopStart
    <3> QED BY <1>0, <3>1, <3>2, QuietPunctual
  <2>2. CASE LoopYield
    <3>1. Parked' = Parked /\ UNCHANGED <<at, when, now, iopc, ionow, iotimer>>
      BY <2>0, <2>2, YieldEffect DEF LoopYield, AtLoop, Inv, loopvars
    <3> QED BY <1>0, <3>1, QuietPunctual
  <2>3. CASE LoopExit
    <3>1. Parked' = Parked
      BY <2>0, <2>3, ExitEffect DEF LoopExit, AtLoop, Inv
    <3>2. /\ UNCHANGED <<when, now>> /\ iopc' # "expire"
          /\ \A f \in Fiber : at'[f] = <<"delay">> => at[f] = <<"delay">>
      BY <1>0, <2>3 DEF LoopExit, User
    <3> QED BY <1>0, <3>1, <3>2, QuietPunctual
  <2>4. CASE LoopPoll \/ LoopAgain
    <3>1. UNCHANGED <<schedvars, at, when, now>> /\ iopc' # "expire"
      BY <2>4 DEF LoopPoll, LoopAgain
    <3>2. Parked' = Parked
      BY <3>1, SchedRests DEF Inv
    <3> QED BY <1>0, <3>1, <3>2, QuietPunctual
  <2>5. CASE LoopExpire
    <3>1. /\ UNCHANGED <<schedvars, at, when, now, iotimer>> /\ ionow' = now
          /\ iotimer # Null /\ now >= when[iotimer]
      BY <2>5 DEF LoopExpire, Expired
    <3>2. Parked' = Parked
      BY <3>1, SchedRests DEF Inv
    <3>3. iotimer \in Fiber /\ when[iotimer] \in Nat
      BY <3>1 DEF Inv, IoTypes
    <3> QED BY <1>0, <3>1, <3>2, <3>3, KeepPunctual
  <2>6. CASE \E d \in Fd, dir \in {"R", "W"} : Callback(d, dir)
    <3>1. PICK d \in Fd, dir \in {"R", "W"} : Callback(d, dir)
      BY <2>6
    <3>2. cor[d] \in Parked /\ \E op \in Ops : at[cor[d]] = <<op, d>>
      BY <3>1, DueWaits DEF Callback
    <3>3. Parked' = Parked \ {cor[d]}
      BY <2>0, <3>1, <3>2, ReadyEffect DEF Callback, AtLoop, Inv
    <3>4. UNCHANGED <<at, when, now, iopc, ionow, iotimer>>
      BY <3>1 DEF Callback
    <3>5. at[cor[d]] # <<"delay">>
      BY <3>2, CallsDiffer
    <3>6. iopc # "expire"
      BY <3>1 DEF Callback, AtLoop
    <3> QED BY <1>0, <3>3, <3>4, <3>5, <3>6, KeepPunctual
  <2>7. CASE Expire
    <3>1. iotimer \in Parked
      BY <2>7, TimerSleeps DEF Expire
    <3>2. Parked' = Parked \ {iotimer}
      BY <2>0, <2>7, <3>1, ReadyEffect DEF Expire, AtLoop, Inv
    <3>3. UNCHANGED <<at, when, now>>
      BY <2>7 DEF Expire
    <3>4. ionow \in Nat /\ ionow <= now /\ when[iotimer] <= ionow
      BY <2>7 DEF Expire, AtLoop, Punctual
    <3>5. now >= when[iotimer]
      <4>1. iotimer \in Fiber
        BY <3>1 DEF Parked
      <4> QED BY <1>0, <3>4, <4>1
    <3>6. iopc' = "expire" => ionow' = ionow /\ ionow >= when[iotimer']
      BY <2>7 DEF Expire, Expired
    <3>7. iopc' = "expire" => when[iotimer'] \in Nat
      <4>1. iopc' = "expire" => iotimer' \in Fiber
        <5>1. Inv'
          BY ExpireInv, <2>7
        <5>2. iopc' = "expire" => timers' # <<>> /\ iotimer' = Head(timers') /\ timers' \in Seq(Fiber)
          BY <5>1 DEF Inv, IoData, IoTypes
        <5> QED BY <5>2, RingPopProperties
      <4> QED BY <1>0, <4>1
    <3> QED BY <1>0, <3>2, <3>3, <3>4, <3>5, <3>6, <3>7, KeepPunctual
  <2> QED BY <1>11, <2>1, <2>2, <2>3, <2>4, <2>5, <2>6, <2>7 DEF Loop
<1> QED BY <1>1, <1>2, <1>3, <1>4, <1>5, <1>6, <1>7, <1>8, <1>9, <1>10, <1>11 DEF Next, Resume, GiveUp

\* ct_corthread_delay returns when its time has come or a signal ended it, however
\* many timers expire at once, are inserted and taken out; 0 is no signal, by which
\* a signalled fiber could not be told from another.
THEOREM SleepsLongEnough == ASSUME Tidy, 0 \notin Signals PROVE Spec => NotEarly
<1> USE Tidy, 0 \notin Signals
<1>1. Inv /\ Punctual /\ [Next]_vars => (Inv /\ Punctual)'
  BY NextInv, NextPunctual
<1>2. Inv /\ Punctual =>
        [\A f \in Fiber : DelayReturn(f) => now >= when[f] \/ fib[f].signum # 0]_vars
  BY DEF DelayReturn, Punctual, Parked, S!Suspended
<1> QED BY <1>1, <1>2, InitInv, InitPunctual, PTL DEF Spec, NotEarly

=============================================================================
