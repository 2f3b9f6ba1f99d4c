--------------------------- MODULE CorSched_proofs ---------------------------
(* The invariants of CorSched for any number of fibers, any size of the    *)
(* cache of dead ones and any width of the ids, and the refinement of      *)
(* CoopTasks that follows from them.                                       *)
EXTENDS CorSched, RingSeq_proofs

\* The parts keep one another: a fiber may be linked into a ring because the
\* statuses, the table and the CPU say that it is in none, and these are kept by
\* what moves the fibers between the rings.
Inv ==
  /\ TypeOK /\ OnePlace /\ SlotTable /\ ExitingIsDead /\ RunningIsCpu
  /\ CacheBound /\ IdsAreNotZero

USE SchedAssumption DEF SchedAssumption

\* What calloc leaves is a struct.
LEMMA BlankType == Blank \in Struct
  BY DEF Blank, Struct, Status

\* Before the first call nothing is linked, listed or allocated.
LEMMA InitInv == Init => Inv
<1>1. SUFFICES ASSUME Init PROVE Inv
  OBVIOUS
<1>2. TypeOK
  <2>1. fib \in [Fiber -> Struct]
    BY <1>1, BlankType DEF Init
  <2>2. 0 \in 0 .. IdMod - 1
    OBVIOUS
  <2>3. ready \in Seq(Fiber) /\ dead \in Seq(Fiber) /\ slots \in Seq(Fiber)
    BY <1>1 DEF Init
  <2>4. size \in Nat /\ count \in Int /\ heap \subseteq Fiber
    BY <1>1 DEF Init
  <2>5. running \in Fiber \cup {Null} /\ cpu \in Fiber \cup {Original}
    BY <1>1 DEF Init
  <2>6. scheduled \in BOOLEAN /\ auto \in BOOLEAN
    BY <1>1 DEF Init
  <2>7. QED
    BY <1>1, <2>1, <2>2, <2>3, <2>4, <2>5, <2>6 DEF Init, TypeOK
<1>3. OnePlace /\ ExitingIsDead /\ RunningIsCpu /\ CacheBound /\ IdsAreNotZero
  BY <1>1, RingEmptyProperties
  DEF Init, OnePlace, ExitingIsDead, RunningIsCpu, CacheBound, IdsAreNotZero
<1>4. SlotTable
  BY <1>1, RingEmptyProperties DEF Init, SlotTable, Live
<1>5. QED
  BY <1>2, <1>3, <1>4 DEF Inv

-----------------------------------------------------------------------------
(* Helpers.                                                                *)

\* Whoever gets the CPU comes out of the ring it is taken from.
LEMMA SwitchProperties ==
  ASSUME NEW r \in Seq(Fiber), Distinct(r), running \in Fiber \cup {Null}, SwitchTo(r)
  PROVE  /\ ready' \in Seq(Fiber) /\ Distinct(ready')
         /\ ToSet(ready') \subseteq ToSet(r)
         /\ cpu' \in ToSet(r) \cup {Original} /\ cpu' \in Fiber \cup {Original}
         /\ cpu' \notin ToSet(ready')
         /\ running' \in Fiber \cup {Null}
         /\ cpu' \in Fiber => running' = cpu'
<1>1. CASE r = <<>>
  BY <1>1, RingEmptyProperties DEF SwitchTo
<1>2. CASE r # <<>>
  <2>1. /\ Head(r) \in Fiber /\ Tail(r) \in Seq(Fiber) /\ Distinct(Tail(r))
        /\ ToSet(r) = ToSet(Tail(r)) \cup {Head(r)} /\ Head(r) \notin ToSet(Tail(r))
    BY <1>2, RingPopProperties
  <2>2. cpu' = Head(r) /\ running' = Head(r) /\ ready' = Tail(r)
    BY <1>2 DEF SwitchTo
  <2>3. QED
    BY <2>1, <2>2
<1>3. QED
  BY <1>1, <1>2

\* The table lists nobody twice, and a fiber in it where its slot says.
LEMMA SlotOfLive ==
  ASSUME TypeOK, SlotTable, NEW f \in Live
  PROVE  fib[f].slot \in 1 .. Len(slots) /\ slots[fib[f].slot] = f /\ f \in Fiber
<1>1. PICK k \in 1 .. Len(slots) : f = slots[k]
  BY DEF Live, ToSet, TypeOK
<1>2. fib[f].slot = k
  BY <1>1 DEF SlotTable, TypeOK
<1>3. QED
  BY <1>1, <1>2 DEF TypeOK

\* corthread_swap takes the fiber out of the table and no other.
LEMMA SlotsWithoutProperties ==
  ASSUME TypeOK, SlotTable, NEW f \in Live
  PROVE  /\ SlotsWithout(f) \in Seq(Fiber)
         /\ Len(SlotsWithout(f)) = Len(slots) - 1
         /\ ToSet(SlotsWithout(f)) = Live \ {f}
<1> DEFINE n == Len(slots)
           p == fib[f].slot
           t == SlotsWithout(f)
<1>1. slots \in Seq(Fiber) /\ n \in Nat /\ p \in 1 .. n /\ slots[p] = f
  BY SlotOfLive DEF TypeOK
<1>2. n \in Nat \ {0} /\ n - 1 \in Nat
  BY <1>1
<1>3. t = [i \in 1 .. n - 1 |-> IF i = p THEN slots[n] ELSE slots[i]]
  BY DEF SlotsWithout
<1>4. t \in Seq(Fiber) /\ Len(t) = n - 1 /\ DOMAIN t = 1 .. n - 1
  <2>1. \A i \in 1 .. n - 1 : (IF i = p THEN slots[n] ELSE slots[i]) \in Fiber
    BY <1>1
  <2>2. QED
    BY <1>2, <1>3, <2>1
<1>5. \A i, j \in 1 .. n : slots[i] = slots[j] => i = j
  BY <1>1 DEF SlotTable
<1>6. ASSUME NEW x \in ToSet(t) PROVE x \in Live \ {f}
  <2>1. PICK i \in 1 .. n - 1 : x = t[i]
    BY <1>4 DEF ToSet
  <2>2. PICK j \in 1 .. n : x = slots[j] /\ j # p
    <3>1. CASE i = p
      BY <1>1, <1>3, <2>1, <3>1
    <3>2. CASE i # p
      BY <1>1, <1>3, <2>1, <3>2
    <3>3. QED
      BY <3>1, <3>2
  <2>3. QED
    BY <1>1, <1>5, <2>2 DEF Live, ToSet
<1>7. ASSUME NEW x \in Live, x # f PROVE x \in ToSet(t)
  <2>1. PICK j \in 1 .. n : x = slots[j]
    BY DEF Live, ToSet
  <2>2. j # p
    BY <1>1, <1>7, <2>1
  <2>3. CASE j = n
    <3>1. p \in 1 .. n - 1 /\ t[p] = x
      BY <1>1, <1>3, <2>1, <2>2, <2>3
    <3>2. QED
      BY <1>4, <3>1 DEF ToSet
  <2>4. CASE j # n
    <3>1. j \in 1 .. n - 1 /\ t[j] = x
      BY <1>1, <1>3, <2>1, <2>2, <2>4
    <3>2. QED
      BY <1>4, <3>1 DEF ToSet
  <2>5. QED
    BY <2>3, <2>4
<1>8. QED
  BY <1>4, <1>6, <1>7

\* idgen wraps past 0.
LEMMA NextIdProperties ==
  ASSUME idgen \in 0 .. IdMod - 1
  PROVE  NextId \in 1 .. IdMod - 1
<1>1. idgen + 1 \in 1 .. IdMod
  OBVIOUS
<1>2. CASE idgen + 1 = IdMod
  <2>1. (idgen + 1) % IdMod = 0
    BY <1>2
  <2>2. QED
    BY <2>1 DEF NextId
<1>3. CASE idgen + 1 < IdMod
  <2>1. (idgen + 1) % IdMod = idgen + 1
    BY <1>1, <1>3
  <2>2. QED
    BY <1>1, <1>3, <2>1 DEF NextId
<1>4. QED
  BY <1>1, <1>2, <1>3

-----------------------------------------------------------------------------
(* One lemma per operation.                                                *)

\* The struct is taken out of the dead ring or comes from the heap: in both
\* cases it is in no ring and not in the table before.
LEMMA CreateInv ==
  ASSUME Inv, NEW f \in Fiber, Create(f)
  PROVE  Inv'
<1> USE DEF Inv
<1>1. /\ f \notin Live /\ f \notin ToSet(ready) /\ f # cpu
      /\ Live \subseteq heap /\ Live \cap ToSet(dead) = {}
  <2>1. CASE dead = <<>>
    BY <2>1, RingEmptyProperties DEF Create, Allocated, SlotTable
  <2>2. CASE dead # <<>>
    BY <2>2, RingPopProperties DEF Create, Allocated, SlotTable, TypeOK
  <2>3. QED
    BY <2>1, <2>2
<1>2. /\ dead' \in Seq(Fiber) /\ Distinct(dead') /\ Len(dead') <= Len(dead)
      /\ ToSet(dead') = ToSet(dead) \ {f}
  <2>1. CASE dead = <<>>
    BY <2>1, RingEmptyProperties DEF Create, TypeOK, OnePlace
  <2>2. CASE dead # <<>>
    <3>1. dead' = Tail(dead) /\ f = Head(dead) /\ dead \in Seq(Fiber) /\ Distinct(dead)
      BY <2>2 DEF Create, Allocated, TypeOK, OnePlace
    <3>2. Len(Tail(dead)) <= Len(dead)
      BY <2>2, <3>1
    <3>3. QED
      BY <2>2, <3>1, <3>2, RingPopProperties
  <2>3. QED
    BY <2>1, <2>2
<1>3. /\ slots' \in Seq(Fiber) /\ Len(slots') = Len(slots) + 1
      /\ slots'[Len(slots) + 1] = f
      /\ \A k \in 1 .. Len(slots) : slots'[k] = slots[k] /\ slots[k] \in Live
  BY DEF Create, TypeOK, Live, ToSet
<1>4. Live' = Live \cup {f}
  BY RingPrependProperties DEF Create, Live, TypeOK, RingPrepend
<1>5. /\ fib'[f] = Fresh(f)
      /\ \A g \in Fiber \ {f} : fib'[g] = fib[g]
      /\ DOMAIN fib' = Fiber
  BY DEF Create, TypeOK
<1>6. /\ Fresh(f) \in Struct /\ Fresh(f).status = "READY"
      /\ Fresh(f).slot = Len(slots) + 1 /\ Fresh(f).id # 0
  <2>1. fib[f] \in Struct /\ NextId \in 1 .. IdMod - 1 /\ Len(slots) + 1 \in Nat
    BY NextIdProperties DEF TypeOK
  <2>2. fib[f].sys \in BOOLEAN
    BY <2>1 DEF Struct
  <2>3. QED
    BY <2>1, <2>2 DEF Fresh, Struct, Status
<1>7. /\ ready' \in Seq(Fiber) /\ Distinct(ready') /\ ToSet(ready') = ToSet(ready) \cup {f}
  <2>1. ready' = RingPrepend(ready, f) /\ ready \in Seq(Fiber) /\ Distinct(ready)
    BY DEF Create, TypeOK, OnePlace
  <2>2. QED
    BY <1>1, <2>1, RingPrependProperties
<1>8. heap' = heap \cup {f} /\ cpu' = cpu /\ running' = running /\ auto' = auto
  BY DEF Create
<1>9. TypeOK'
  <2>1. fib' \in [Fiber -> Struct]
    BY <1>5, <1>6 DEF Create, TypeOK
  <2>2. size' \in Nat /\ idgen' \in 0 .. IdMod - 1 /\ count' \in Int /\ scheduled' \in BOOLEAN
    BY NextIdProperties DEF Create, TypeOK
  <2>3. QED
    BY <1>2, <1>3, <1>7, <1>8, <2>1, <2>2 DEF TypeOK
<1>10. OnePlace'
  BY <1>1, <1>2, <1>7, <1>8 DEF OnePlace
<1>11. SlotTable'
  <2>1. \A k \in DOMAIN slots' : fib'[slots'[k]].slot = k
    <3>1. ASSUME NEW k \in 1 .. Len(slots) PROVE fib'[slots'[k]].slot = k
      BY <1>1, <1>3, <1>5 DEF SlotTable, TypeOK
    <3>2. QED
      BY <1>3, <1>5, <1>6, <3>1 DEF TypeOK
  <2>2. Len(slots') <= size'
    BY <1>3 DEF Create, TypeOK, SlotTable
  <2>3. QED
    BY <1>1, <1>2, <1>4, <1>7, <1>8, <2>1, <2>2 DEF SlotTable
<1>12. ExitingIsDead'
  BY <1>1, <1>2, <1>5, <1>6, <1>8 DEF ExitingIsDead, TypeOK
<1>13. RunningIsCpu'
  BY <1>8 DEF RunningIsCpu, Create
<1>14. CacheBound'
  BY <1>2 DEF CacheBound, TypeOK
<1>15. IdsAreNotZero'
  BY <1>5, <1>6, <1>8 DEF IdsAreNotZero, TypeOK
<1>16. QED
  BY <1>9, <1>10, <1>11, <1>12, <1>13, <1>14, <1>15

\* What an operation that moves live fibers may do to their structs.
Touched ==
  /\ fib' \in [Fiber -> Struct]
  /\ \A g \in Fiber : /\ fib'[g].slot = fib[g].slot /\ fib'[g].id = fib[g].id
                      /\ \/ fib'[g].status = fib[g].status
                         \/ g \in Live /\ fib'[g].status = "READY"

\* The CPU goes to a fiber out of a ring of live fibers.
LEMMA SwitchInv ==
  ASSUME Inv, NEW r \in Seq(Fiber), Distinct(r), ToSet(r) \subseteq Live, SwitchTo(r),
         scheduled, Touched,
         UNCHANGED <<dead, slots, size, idgen, count, scheduled, auto, heap>>
  PROVE  Inv'
<1> USE DEF Inv
<1>1. /\ ready' \in Seq(Fiber) /\ Distinct(ready') /\ ToSet(ready') \subseteq ToSet(r)
      /\ cpu' \in ToSet(r) \cup {Original} /\ cpu' \in Fiber \cup {Original}
      /\ cpu' \notin ToSet(ready')
      /\ running' \in Fiber \cup {Null}
      /\ cpu' \in Fiber => running' = cpu'
  BY SwitchProperties DEF TypeOK
<1>2. Live' = Live /\ ToSet(dead) \subseteq Fiber /\ Live \cap ToSet(dead) = {}
  BY DEF Live, SlotTable, TypeOK
<1>3. TypeOK'
  BY <1>1 DEF TypeOK, Touched
<1>4. OnePlace'
  BY <1>1, <1>2 DEF OnePlace
<1>5. SlotTable'
  <2>1. \A k \in DOMAIN slots : slots[k] \in Fiber
    BY DEF TypeOK
  <2>2. \A k \in DOMAIN slots' : fib'[slots'[k]].slot = k
    BY <2>1 DEF SlotTable, Touched
  <2>3. QED
    BY <1>1, <1>2, <2>2 DEF SlotTable
<1>6. ExitingIsDead'
  BY <1>2 DEF ExitingIsDead, Touched, TypeOK
<1>7. RunningIsCpu' /\ CacheBound'
  BY <1>1 DEF RunningIsCpu, CacheBound
<1>8. IdsAreNotZero'
  BY DEF IdsAreNotZero, Touched, TypeOK
<1>9. QED
  BY <1>3, <1>4, <1>5, <1>6, <1>7, <1>8

\* The fiber that executes is alive, and the scheduler runs.
LEMMA CpuProperties ==
  ASSUME Inv, cpu \in Fiber
  PROVE  cpu \in Live /\ scheduled /\ cpu \notin ToSet(ready) /\ cpu \in heap
  BY DEF Inv, SlotTable, RunningIsCpu, OnePlace

\* The fields of a struct one by one.
LEMMA StructProperties ==
  ASSUME NEW x \in Struct
  PROVE  /\ [x EXCEPT !.status = "READY"] \in Struct
         /\ [x EXCEPT !.status = "EXITING"] \in Struct
         /\ [x EXCEPT !.sys = TRUE] \in Struct
         /\ \A n \in Nat : [x EXCEPT !.slot = n] \in Struct
  BY DEF Struct, Status

LEMMA SuspendInv ==
  ASSUME Inv, NEW f \in Fiber, Suspend(f)
  PROVE  Inv'
<1>1. Touched
  BY DEF Suspend, Touched, Inv, TypeOK
<1>2. ready \in Seq(Fiber) /\ Distinct(ready) /\ ToSet(ready) \subseteq Live
  BY DEF Inv, TypeOK, OnePlace, SlotTable
<1>3. QED
  BY <1>1, <1>2, CpuProperties, SwitchInv DEF Suspend

\* The caller is linked again: it was not, as it has the CPU.
LEMMA YieldInv ==
  ASSUME Inv, NEW f \in Fiber, Yield(f)
  PROVE  Inv'
<1> DEFINE r == RingPrepend(ready, f)
<1>1. f \in Live /\ f \notin ToSet(ready) /\ scheduled
  BY CpuProperties DEF Yield
<1>2. ready \in Seq(Fiber) /\ Distinct(ready) /\ ToSet(ready) \subseteq Live
  BY DEF Inv, TypeOK, OnePlace, SlotTable
<1>3. r \in Seq(Fiber) /\ Distinct(r) /\ ToSet(r) = ToSet(ready) \cup {f}
  BY <1>1, <1>2, RingPrependProperties
<1>4. Touched
  <2>1. fib[f] \in Struct /\ [fib[f] EXCEPT !.status = "READY"] \in Struct
    BY StructProperties DEF Inv, TypeOK
  <2>2. QED
    BY <1>1, <2>1 DEF Yield, Touched, Inv, TypeOK, Struct
<1>5. SwitchTo(r) /\ UNCHANGED <<dead, slots, size, idgen, count, scheduled, auto, heap>>
  BY DEF Yield
<1> HIDE DEF r
<1>6. QED
  BY <1>1, <1>2, <1>3, <1>4, <1>5, SwitchInv

\* The CPU stays where it is; live fibers may be linked into the ready ring.
LEMMA KeepInv ==
  ASSUME Inv, Touched,
         ready' \in Seq(Fiber), Distinct(ready'), ToSet(ready') \subseteq Live,
         cpu \notin ToSet(ready'),
         count' \in Int, auto' \in BOOLEAN, scheduled' \in BOOLEAN, scheduled => scheduled',
         UNCHANGED <<dead, slots, size, running, idgen, heap, cpu>>
  PROVE  Inv'
<1> USE DEF Inv
<1>1. Live' = Live /\ ToSet(dead) \subseteq Fiber /\ Live \cap ToSet(dead) = {}
  BY DEF Live, SlotTable, TypeOK
<1>2. TypeOK'
  BY DEF TypeOK, Touched
<1>3. OnePlace'
  BY <1>1 DEF OnePlace
<1>4. SlotTable'
  <2>1. \A k \in DOMAIN slots : slots[k] \in Fiber
    BY DEF TypeOK
  <2>2. \A k \in DOMAIN slots' : fib'[slots'[k]].slot = k
    BY <2>1 DEF SlotTable, Touched
  <2>3. QED
    BY <1>1, <2>2 DEF SlotTable
<1>5. ExitingIsDead'
  BY <1>1 DEF ExitingIsDead, Touched, TypeOK
<1>6. RunningIsCpu' /\ CacheBound'
  BY DEF RunningIsCpu, CacheBound
<1>7. IdsAreNotZero'
  BY DEF IdsAreNotZero, Touched, TypeOK
<1>8. QED
  BY <1>2, <1>3, <1>4, <1>5, <1>6, <1>7

\* What OnePlace and SlotTable say of the ready ring.
LEMMA ReadyProperties ==
  ASSUME Inv
  PROVE  /\ ready \in Seq(Fiber) /\ Distinct(ready) /\ ToSet(ready) \subseteq Live
         /\ cpu \notin ToSet(ready)
  BY DEF Inv, TypeOK, OnePlace, SlotTable

LEMMA PrependFiber ==
  ASSUME NEW r \in Seq(Fiber), NEW e \in Fiber
  PROVE  /\ RingPrepend(r, e) \in Seq(Fiber)
         /\ ToSet(RingPrepend(r, e)) = ToSet(r) \cup {e}
         /\ Distinct(r) /\ e \notin ToSet(r) => Distinct(RingPrepend(r, e))
  BY RingPrependProperties

\* Operations that set flags only.
LEMMA FlagsInv ==
  ASSUME Inv, (\E on \in BOOLEAN : ScheduleInit(on)) \/ Schedule
  PROVE  Inv'
<1>1. UNCHANGED <<ready, dead, slots, size, running, idgen, count, heap, fib, cpu>>
  BY DEF ScheduleInit, Schedule, tvars
<1>2. auto' \in BOOLEAN /\ scheduled' \in BOOLEAN /\ (scheduled => scheduled')
  BY DEF ScheduleInit, Schedule, Inv, TypeOK
<1>3. Touched
  BY <1>1 DEF Touched, Inv, TypeOK
<1>4. count' \in Int
  BY <1>1 DEF Inv, TypeOK
<1>5. QED
  BY <1>1, <1>2, <1>3, <1>4, KeepInv, ReadyProperties

LEMMA SystemInv ==
  ASSUME Inv, NEW f \in Fiber, System(f)
  PROVE  Inv'
<1>1. Touched
  <2>1. fib \in [Fiber -> Struct] /\ [fib[f] EXCEPT !.sys = TRUE] \in Struct
    BY StructProperties DEF Inv, TypeOK
  <2>2. QED
    BY <2>1 DEF System, Touched, Struct
<1>2. count' \in Int /\ auto' \in BOOLEAN /\ scheduled' \in BOOLEAN
  BY DEF System, Inv, TypeOK
<1>3. QED
  BY <1>1, <1>2, KeepInv, ReadyProperties DEF System

\* The fiber is suspended: it is alive and in no ring.
LEMMA ReadyInv ==
  ASSUME Inv, NEW g \in Fiber, Ready(g)
  PROVE  Inv'
<1>1. g \in Live /\ g # cpu /\ g \notin ToSet(ready)
  BY DEF Ready, Suspended
<1>2. fib[g].status # "EXITING"
  BY <1>1 DEF Inv, ExitingIsDead, SlotTable
<1>3. ready' = RingPrepend(ready, g) /\ fib' = [fib EXCEPT ![g].status = "READY"]
  BY <1>2 DEF Ready, MakeReady
<1>4. /\ ready' \in Seq(Fiber) /\ Distinct(ready') /\ ToSet(ready') = ToSet(ready) \cup {g}
  <2>1. ready \in Seq(Fiber) /\ Distinct(ready)
    BY ReadyProperties
  <2>2. QED
    BY <1>1, <1>3, <2>1, PrependFiber
<1>5. Touched
  <2>1. fib \in [Fiber -> Struct] /\ [fib[g] EXCEPT !.status = "READY"] \in Struct
    BY StructProperties DEF Inv, TypeOK
  <2>2. QED
    BY <1>1, <1>3, <2>1 DEF Touched, Struct
<1>6. ToSet(ready') \subseteq Live /\ cpu \notin ToSet(ready')
  BY <1>1, <1>4, ReadyProperties
<1>7. count' \in Int /\ auto' \in BOOLEAN /\ scheduled' \in BOOLEAN
  BY DEF Ready, Inv, TypeOK
<1>8. QED
  BY <1>4, <1>5, <1>6, <1>7, KeepInv DEF Ready

\* The ready ring is a ring of live fibers.
LEMMA ScheduleNextInv ==
  ASSUME Inv, ScheduleNext
  PROVE  Inv'
<1> DEFINE h == Head(ready)
<1>1. h \in Fiber /\ h \in Live
  BY RingPopProperties, ReadyProperties DEF ScheduleNext
<1>2. Touched
  <2>1. fib \in [Fiber -> Struct] /\ [fib[h] EXCEPT !.status = "READY"] \in Struct
    BY <1>1, StructProperties DEF Inv, TypeOK
  <2> HIDE DEF h
  <2>2. fib' = [fib EXCEPT ![h].status = "READY"]
    BY DEF ScheduleNext, h
  <2>3. QED
    BY <1>1, <2>1, <2>2 DEF Touched, Struct
<1>3. QED
  BY <1>2, ReadyProperties, SwitchInv DEF ScheduleNext

\* The ready ring ct_corthread_signal switches with.
LEMMA SignalRing ==
  ASSUME NEW r \in Seq(Fiber), Distinct(r),
         NEW f \in Fiber, NEW g \in Fiber, f # g, f \notin ToSet(r)
  PROVE  LET q == RingAppend(RingAppend(RingDetach(r, g), f), g)
         IN  q \in Seq(Fiber) /\ Distinct(q) /\ ToSet(q) = (ToSet(r) \ {g}) \cup {f, g}
<1>1. PICK d \in Seq(Fiber) :
        d = RingDetach(r, g) /\ Distinct(d) /\ ToSet(d) = ToSet(r) \ {g}
  BY RingDetachProperties
<1>2. PICK c \in Seq(Fiber) :
        c = RingAppend(d, f) /\ Distinct(c) /\ ToSet(c) = ToSet(d) \cup {f}
  BY <1>1, RingAppendProperties
<1>3. Distinct(c) /\ g \notin ToSet(c)
  BY <1>1, <1>2
<1>4. PICK q \in Seq(Fiber) :
        q = RingAppend(c, g) /\ Distinct(q) /\ ToSet(q) = ToSet(c) \cup {g}
  BY <1>3, RingAppendProperties
<1>5. QED
  BY <1>1, <1>2, <1>4

\* The target leaves the ready ring before it and the caller are linked.
LEMMA SignalInv ==
  ASSUME Inv, NEW f \in Fiber, NEW g \in Fiber, NEW s \in Signals, Signal(f, g, s)
  PROVE  Inv'
<1> DEFINE hit == [fib[g] EXCEPT !.signum = s, !.killed = @ \/ s = SIGTERM]
<1>1. g \in Live /\ f \in Live /\ f = cpu /\ f \notin ToSet(ready) /\ scheduled
  BY CpuProperties DEF Signal
<1>2. fib \in [Fiber -> Struct] /\ fib[g] \in Struct /\ fib[g].status # "EXITING"
  BY <1>1 DEF Inv, TypeOK, ExitingIsDead, SlotTable
<1>3. /\ hit \in Struct /\ hit.slot = fib[g].slot /\ hit.id = fib[g].id
      /\ hit.status = fib[g].status
  BY <1>2 DEF Struct
<1> HIDE DEF hit
<1>4. CASE g = f
  <2>1. /\ fib' = [fib EXCEPT ![g] = hit]
        /\ UNCHANGED <<ready, dead, slots, size, running, idgen, count, scheduled, auto,
                       heap, cpu>>
    BY <1>4 DEF Signal, hit
  <2>2. Touched
    BY <1>2, <1>3, <2>1 DEF Touched
  <2>3. count' \in Int /\ auto' \in BOOLEAN /\ scheduled' \in BOOLEAN
    BY <2>1 DEF Inv, TypeOK
  <2>4. QED
    BY <2>1, <2>2, <2>3, KeepInv, ReadyProperties
<1>5. CASE g # f
  <2> DEFINE r == RingAppend(RingAppend(RingDetach(ready, g), f), g)
  <2>1. /\ fib' = [fib EXCEPT ![g] = [hit EXCEPT !.status = "READY"], ![f].status = "READY"]
        /\ SwitchTo(r)
        /\ UNCHANGED <<dead, slots, size, idgen, count, scheduled, auto, heap>>
    BY <1>5 DEF Signal, hit
  <2>2. r \in Seq(Fiber) /\ Distinct(r) /\ ToSet(r) = (ToSet(ready) \ {g}) \cup {f, g}
    BY <1>1, <1>5, ReadyProperties, SignalRing
  <2>3. ToSet(r) \subseteq Live
    BY <1>1, <2>2, ReadyProperties
  <2>4. Touched
    <3>1. /\ [hit EXCEPT !.status = "READY"] \in Struct
          /\ [fib[f] EXCEPT !.status = "READY"] \in Struct
      BY <1>2, <1>3, StructProperties
    <3>2. /\ fib'[g] = [hit EXCEPT !.status = "READY"]
          /\ fib'[f] = [fib[f] EXCEPT !.status = "READY"]
          /\ \A h \in Fiber \ {f, g} : fib'[h] = fib[h]
          /\ fib' \in [Fiber -> Struct]
      BY <1>2, <1>5, <2>1, <3>1
    <3>3. QED
      BY <1>1, <1>2, <1>3, <3>2 DEF Touched, Struct
  <2> HIDE DEF r
  <2>5. QED
    BY <1>1, <2>1, <2>2, <2>3, <2>4, SwitchInv
<1>6. QED
  BY <1>4, <1>5

\* Every dead struct is freed.
LEMMA ScheduleEndInv ==
  ASSUME Inv, ScheduleEnd
  PROVE  Inv'
<1> USE DEF Inv
<1>1. /\ ready' = ready /\ slots' = slots /\ cpu' = cpu /\ cpu = Original /\ running' = Null
      /\ dead' = <<>> /\ heap' = heap \ ToSet(dead) /\ size' = size /\ ~scheduled'
      /\ fib' = [g \in Fiber |-> IF g \in ToSet(dead) THEN Blank ELSE fib[g]]
  BY DEF ScheduleEnd
<1>2. ToSet(dead') = {} /\ Distinct(dead') /\ dead' \in Seq(Fiber) /\ Len(dead') = 0
  BY <1>1, RingEmptyProperties
<1>3. Live' = Live /\ heap' = Live
  BY <1>1 DEF Live, SlotTable
<1>4. \A g \in Live : fib'[g] = fib[g]
  BY <1>1 DEF SlotTable, TypeOK
<1>5. TypeOK'
  <2>1. fib' \in [Fiber -> Struct]
    BY <1>1, BlankType DEF TypeOK
  <2>2. QED
    BY <1>1, <1>2, <2>1 DEF TypeOK, ScheduleEnd
<1>6. OnePlace'
  BY <1>1, <1>2 DEF OnePlace
<1>7. SlotTable'
  <2>1. \A k \in DOMAIN slots : slots[k] \in Live
    BY DEF Live, ToSet
  <2>2. \A k \in DOMAIN slots' : fib'[slots'[k]].slot = k
    BY <1>1, <1>4, <2>1 DEF SlotTable
  <2>3. QED
    BY <1>1, <1>2, <1>3, <2>2 DEF SlotTable
<1>8. ExitingIsDead'
  BY <1>2, <1>3, <1>4 DEF ExitingIsDead, SlotTable
<1>9. RunningIsCpu' /\ CacheBound'
  BY <1>1, <1>2 DEF RunningIsCpu, CacheBound
<1>10. IdsAreNotZero'
  BY <1>3, <1>4 DEF IdsAreNotZero, SlotTable
<1>11. QED
  BY <1>5, <1>6, <1>7, <1>8, <1>9, <1>10

\* What corthread_kick frees is the front of the dead ring.
LEMMA KickProperties ==
  ASSUME Inv
  PROVE  LET back == SubSeq(dead, Surplus + 1, Len(dead))
         IN  /\ back \in Seq(Fiber) /\ Distinct(back) /\ Len(back) <= MaxCache
             /\ ToSet(dead) = Kicked \cup ToSet(back)
             /\ Kicked \cap ToSet(back) = {}
<1> DEFINE back == SubSeq(dead, Surplus + 1, Len(dead))
<1>1. dead \in Seq(Fiber) /\ Distinct(dead) /\ Len(dead) \in Nat
  BY DEF Inv, TypeOK, OnePlace
<1>2. Surplus \in 0 .. Len(dead) /\ Len(dead) - Surplus <= MaxCache
  BY <1>1 DEF Surplus
<1>3. Len(back) = Len(dead) - Surplus
  BY <1>1, <1>2
<1>4. /\ back \in Seq(Fiber) /\ Distinct(back)
      /\ ToSet(dead) = Kicked \cup ToSet(back) /\ Kicked \cap ToSet(back) = {}
  BY <1>1, <1>2, RingCutProperties DEF Kicked
<1>5. QED
  BY <1>2, <1>3, <1>4

\* The fiber goes from the table to the dead ring, the last entry of the table
\* to its slot, and the surplus of the dead ring to the heap.
LEMMA ExitInv ==
  ASSUME Inv, NEW f \in Fiber, Exit(f)
  PROVE  Inv'
<1> USE DEF Inv
<1> DEFINE n == Len(slots)
           p == fib[f].slot
           last == slots[n]
           back == SubSeq(dead, Surplus + 1, Len(dead))
<1>1. f \in Live /\ f = cpu /\ scheduled /\ f \notin ToSet(ready) /\ f \in heap
  BY CpuProperties DEF Exit
<1>2. /\ f \notin ToSet(dead) /\ Live \cap ToSet(dead) = {}
      /\ Live = heap \ ToSet(dead) /\ ToSet(dead) \subseteq heap
  BY <1>1 DEF OnePlace, SlotTable
<1>3. /\ back \in Seq(Fiber) /\ Distinct(back) /\ Len(back) <= MaxCache
      /\ ToSet(dead) = Kicked \cup ToSet(back) /\ Kicked \cap ToSet(back) = {}
  BY KickProperties
<1>4. dead' = RingPrepend(back, f) /\ f \notin ToSet(back) /\ f \notin Kicked
  BY <1>2, <1>3 DEF Exit
<1> HIDE DEF back
<1>5. /\ dead' \in Seq(Fiber) /\ Distinct(dead') /\ ToSet(dead') = ToSet(back) \cup {f}
      /\ Len(dead') <= MaxCache + 1
  <2>1. PICK b \in Seq(Fiber) : b = back
    BY <1>3
  <2>2. Distinct(b) /\ f \notin ToSet(b) /\ Len(b) <= MaxCache
    BY <1>3, <1>4, <2>1
  <2>3. /\ RingPrepend(b, f) \in Seq(Fiber) /\ Distinct(RingPrepend(b, f))
        /\ ToSet(RingPrepend(b, f)) = ToSet(b) \cup {f}
    BY <2>2, RingPrependProperties
  <2>4. Len(RingPrepend(b, f)) <= MaxCache + 1
    BY <2>2 DEF RingPrepend
  <2>5. QED
    BY <1>4, <2>1, <2>3, <2>4
<1>6. /\ slots' = SlotsWithout(f) /\ slots' \in Seq(Fiber) /\ Len(slots') = n - 1
      /\ Live' = Live \ {f}
  BY <1>1, SlotsWithoutProperties DEF Exit, Live
<1>7. slots \in Seq(Fiber) /\ n \in Nat /\ p \in 1 .. n /\ slots[p] = f
  BY <1>1, SlotOfLive DEF TypeOK
<1>8. /\ DOMAIN fib' = Fiber
      /\ \A g \in Kicked : g \in Fiber => fib'[g] = Blank
      /\ fib'[f] = [fib[f] EXCEPT !.status = "EXITING"]
      /\ \A g \in Fiber \ (Kicked \cup {f}) :
           fib'[g] = IF g = last THEN [fib[g] EXCEPT !.slot = p] ELSE fib[g]
  BY <1>4 DEF Exit
<1>9. /\ ready' \in Seq(Fiber) /\ Distinct(ready') /\ ToSet(ready') \subseteq ToSet(ready)
      /\ cpu' \in ToSet(ready) \cup {Original} /\ cpu' \in Fiber \cup {Original}
      /\ cpu' \notin ToSet(ready')
      /\ running' \in Fiber \cup {Null}
      /\ cpu' \in Fiber => running' = cpu'
  BY ReadyProperties, SwitchProperties DEF TypeOK, Exit
<1>10. heap' = heap \ Kicked /\ size' = size /\ scheduled' = scheduled
  BY DEF Exit
<1>11. Live' = heap' \ ToSet(dead') /\ ToSet(dead') \subseteq heap'
  BY <1>1, <1>2, <1>3, <1>4, <1>5, <1>6, <1>10
<1>12. \A g \in Fiber \ (Kicked \cup {f}) : /\ fib'[g] \in Struct
                                          /\ fib'[g].status = fib[g].status
                                          /\ fib'[g].id = fib[g].id
  <2>1. SUFFICES ASSUME NEW g \in Fiber \ (Kicked \cup {f})
                 PROVE  /\ fib'[g] \in Struct /\ fib'[g].status = fib[g].status
                        /\ fib'[g].id = fib[g].id
    OBVIOUS
  <2>2. fib[g] \in Struct /\ p \in Nat
    BY <1>7 DEF TypeOK
  <2>3. CASE g = last
    <3>1. fib'[g] = [fib[g] EXCEPT !.slot = p]
      BY <1>8, <2>3
    <3>2. QED
      BY <2>2, <3>1, StructProperties DEF Struct
  <2>4. CASE g # last
    BY <1>8, <2>2, <2>4
  <2>5. QED
    BY <2>3, <2>4
<1>13. fib'[f] \in Struct /\ fib'[f].status = "EXITING" /\ fib'[f].id = fib[f].id
  <2>1. fib[f] \in Struct
    BY DEF TypeOK
  <2>2. QED
    <3>1. fib'[f] = [fib[f] EXCEPT !.status = "EXITING"] /\ fib'[f] \in Struct
      BY <1>8, <2>1, StructProperties
    <3>2. QED
      BY <2>1, <3>1 DEF Struct
<1>14. TypeOK'
  <2>1. \A g \in Fiber : fib'[g] \in Struct
    BY <1>8, <1>12, <1>13, BlankType
  <2>2. fib' \in [Fiber -> Struct]
    BY <2>1 DEF Exit
  <2>3. count' \in Int
    BY DEF Exit, CountWithout, TypeOK
  <2>4. QED
    BY <1>5, <1>6, <1>9, <1>10, <2>2, <2>3 DEF TypeOK, Exit
<1>15. OnePlace'
  BY <1>1, <1>2, <1>3, <1>5, <1>9, ReadyProperties DEF OnePlace, SlotTable, TypeOK
<1>16. \A k \in DOMAIN slots' : fib'[slots'[k]].slot = k
  <2>1. SUFFICES ASSUME NEW k \in 1 .. n - 1 PROVE fib'[slots'[k]].slot = k
    BY <1>6, <1>7
  <2>2. slots'[k] = IF k = p THEN last ELSE slots[k]
    BY <1>6 DEF SlotsWithout
  <2>3. /\ \A j \in 1 .. n : slots[j] \in Live /\ slots[j] \in Fiber /\ fib[slots[j]].slot = j
        /\ \A j \in 1 .. n : slots[j] \notin Kicked
    <3>1. \A j \in 1 .. n : fib[slots[j]].slot = j
      BY <1>7 DEF SlotTable
    <3>2. \A j \in 1 .. n : slots[j] \in Live /\ slots[j] \in Fiber
      BY <1>7 DEF Live, ToSet
    <3>3. QED
      BY <1>2, <1>3, <3>1, <3>2
  <2>4. n \in 1 .. n /\ k \in 1 .. n /\ k # n
    BY <1>7
  <2>5. CASE k = p
    <3>1. last # f /\ last \in Fiber \ (Kicked \cup {f})
      BY <2>3, <2>4, <2>5
    <3>2. fib'[last] = [fib[last] EXCEPT !.slot = p] /\ fib[last] \in Struct
      BY <1>8, <3>1 DEF TypeOK
    <3>3. fib'[last].slot = p
      BY <3>2 DEF Struct
    <3>4. QED
      BY <2>2, <2>5, <3>3
  <2>6. CASE k # p
    <3>1. slots[k] # f /\ slots[k] # last /\ slots[k] \in Fiber \ (Kicked \cup {f})
      BY <1>7, <2>3, <2>4, <2>6
    <3>2. QED
      BY <1>8, <2>2, <2>3, <2>4, <2>6, <3>1
  <2>7. QED
    BY <2>5, <2>6
<1>17. SlotTable'
  <2>1. ToSet(ready') \subseteq Live' /\ cpu' \in Live' \cup {Original}
    BY <1>1, <1>6, <1>9, ReadyProperties
  <2>2. Len(slots') <= size'
    BY <1>6, <1>7, <1>10 DEF SlotTable, TypeOK
  <2>3. QED
    BY <1>11, <1>16, <2>1, <2>2 DEF SlotTable
<1>18. ExitingIsDead'
  <2>1. SUFFICES ASSUME NEW g \in heap' PROVE fib'[g].status = "EXITING" <=> g \in ToSet(dead')
    BY DEF ExitingIsDead
  <2>2. g \in heap /\ g \in Fiber /\ g \notin Kicked
    BY <1>10 DEF TypeOK
  <2>3. CASE g = f
    BY <1>5, <1>13, <2>3
  <2>4. CASE g # f
    <3>1. fib'[g].status = fib[g].status
      BY <1>12, <2>2, <2>4
    <3>2. g \in ToSet(dead') <=> g \in ToSet(dead)
      BY <1>3, <1>5, <2>2, <2>4
    <3>3. QED
      BY <2>2, <3>1, <3>2 DEF ExitingIsDead
  <2>5. QED
    BY <2>3, <2>4
<1>19. RunningIsCpu' /\ CacheBound'
  BY <1>1, <1>5, <1>9, <1>10 DEF RunningIsCpu, CacheBound, Exit
<1>20. IdsAreNotZero'
  BY <1>1, <1>10, <1>12, <1>13 DEF IdsAreNotZero, TypeOK
<1>21. QED
  BY <1>14, <1>15, <1>17, <1>18, <1>19, <1>20

-----------------------------------------------------------------------------
(* Theorems.                                                               *)

LEMMA NextInv == Inv /\ [Next]_vars => Inv'
<1>1. SUFFICES ASSUME Inv, [Next]_vars PROVE Inv'
  OBVIOUS
<1>2. ASSUME NEW f \in Fiber, Create(f) \/ Ready(f) \/ GiveUp(f) \/ System(f) PROVE Inv'
  BY <1>1, <1>2, CreateInv, ReadyInv, SuspendInv, YieldInv, ExitInv, SystemInv DEF GiveUp
<1>3. ASSUME NEW f \in Fiber, NEW g \in Fiber, NEW s \in Signals, Signal(f, g, s)
      PROVE  Inv'
  BY <1>1, <1>3, SignalInv
<1>4. CASE (\E on \in BOOLEAN : ScheduleInit(on)) \/ Schedule
  BY <1>1, <1>4, FlagsInv
<1>5. CASE ScheduleNext
  BY <1>1, <1>5, ScheduleNextInv
<1>6. CASE ScheduleEnd
  BY <1>1, <1>6, ScheduleEndInv
<1>7. CASE UNCHANGED vars
  BY <1>1, <1>7
  DEF vars, Inv, TypeOK, OnePlace, SlotTable, ExitingIsDead, RunningIsCpu, CacheBound,
      IdsAreNotZero, Live
<1>8. QED
  BY <1>1, <1>2, <1>3, <1>4, <1>5, <1>6, <1>7 DEF Next

\* The inductive invariant holds in every state of the scheduler.
THEOREM Invariance == Spec => []Inv
  BY InitInv, NextInv, PTL DEF Spec

\* The variables of THREAD and of the fibers have their types.
THEOREM TypeCorrect == Spec => []TypeOK
<1>1. Inv => TypeOK
  BY DEF Inv
<1>2. QED
  BY <1>1, Invariance, PTL

\* No operation links a fiber into a ring while it is in one, and no fiber that
\* executes can be switched to, reused or freed.
THEOREM InOnePlace == Spec => []OnePlace
<1>1. Inv => OnePlace
  BY DEF Inv
<1>2. QED
  BY <1>1, Invariance, PTL

\* The table of fibers stays right however its entries are moved by exits.
THEOREM TableIsRight == Spec => []SlotTable
<1>1. Inv => SlotTable
  BY DEF Inv
<1>2. QED
  BY <1>1, Invariance, PTL

\* No wakeup of a live fiber is dropped by the test of EXITING.
THEOREM NoWakeupDropped == Spec => []ExitingIsDead
<1>1. Inv => ExitingIsDead
  BY DEF Inv
<1>2. QED
  BY <1>1, Invariance, PTL

\* ct_corthread_running tells the truth, after any signal, exit and return of
\* ct_corthread_schedule.
THEOREM RunningIsRight == Spec => []RunningIsCpu
<1>1. Inv => RunningIsCpu
  BY DEF Inv
<1>2. QED
  BY <1>1, Invariance, PTL

\* corthread_kick bounds the cache of dead structs for every MAX_CACHE.
THEOREM CacheIsBounded == Spec => []CacheBound
<1>1. Inv => CacheBound
  BY DEF Inv
<1>2. QED
  BY <1>1, Invariance, PTL

\* Ids are never 0, for every width of idgen.
THEOREM IdsNeverZero == Spec => []IdsAreNotZero
<1>1. Inv => IdsAreNotZero
  BY DEF Inv
<1>2. QED
  BY <1>1, Invariance, PTL

-----------------------------------------------------------------------------
(* The refinement of CoopTasks.  The invariant says where a fiber is before a *)
(* step, so that the rings, the heap and the CPU together are its task.       *)

\* Under the invariant the state of a task can be told from one test each.
LEMMA TaskOfFiber ==
  ASSUME Inv, NEW f \in Fiber
  PROVE  /\ f \notin heap => TaskOf[f] = "none"
         /\ f = cpu => TaskOf[f] = "running"
         /\ f \in ToSet(dead) => TaskOf[f] = "finished"
         /\ f \in ToSet(ready) => TaskOf[f] = "ready"
         /\ f \in Live /\ f # cpu /\ f \notin ToSet(ready) => TaskOf[f] = "suspended"
<1>1. TaskOf[f] = IF f \notin heap THEN "none"
                  ELSE IF f = cpu THEN "running"
                  ELSE IF f \in ToSet(dead) THEN "finished"
                  ELSE IF f \in ToSet(ready) THEN "ready" ELSE "suspended"
  BY DEF TaskOf
<1>2. /\ cpu \notin ToSet(ready) \cup ToSet(dead) /\ ToSet(ready) \cap ToSet(dead) = {}
      /\ Live = heap \ ToSet(dead) /\ ToSet(dead) \subseteq heap
      /\ ToSet(ready) \subseteq Live /\ cpu \in Live \cup {Original}
  BY DEF Inv, OnePlace, SlotTable
<1>3. QED
  BY <1>1, <1>2

\* The first ready fiber gets the CPU and the others stay ready.
LEMMA SwitchExact ==
  ASSUME NEW r \in Seq(Fiber), Distinct(r), SwitchTo(r)
  PROVE  \/ cpu' = Original /\ r = <<>> /\ ToSet(r) = {} /\ ToSet(ready') = {}
         \/ /\ r # <<>> /\ cpu' = Head(r) /\ cpu' \in ToSet(r) /\ cpu' \in Fiber
            /\ ToSet(ready') = ToSet(r) \ {cpu'}
<1>1. CASE r = <<>>
  BY <1>1, RingEmptyProperties DEF SwitchTo
<1>2. CASE r # <<>>
  <2>1. /\ Head(r) \in Fiber
        /\ ToSet(r) = ToSet(Tail(r)) \cup {Head(r)} /\ Head(r) \notin ToSet(Tail(r))
    BY <1>2, RingPopProperties
  <2>2. cpu' = Head(r) /\ ready' = Tail(r)
    BY <1>2 DEF SwitchTo
  <2>3. QED
    BY <1>2, <2>1, <2>2
<1>3. QED
  BY <1>1, <1>2

\* The fibers' tasks change one by one: TaskOf' is the function that gives them.
LEMMA TaskOfNext ==
  TaskOf' = [u \in Fiber |->
               IF u \notin heap' THEN "none"
               ELSE IF u = cpu' THEN "running"
               ELSE IF u \in ToSet(dead') THEN "finished"
               ELSE IF u \in ToSet(ready') THEN "ready" ELSE "suspended"]
  BY DEF TaskOf

\* A created fiber was a struct of the heap or a dead one.
LEMMA CreateSpawns ==
  ASSUME Inv, NEW f \in Fiber, Create(f)
  PROVE  Tasks!Spawn(f)
<1>1. /\ f \notin ToSet(ready) /\ f # cpu /\ TaskOf[f] \in {"none", "finished"}
      /\ ToSet(dead') = ToSet(dead) \ {f}
  <2>1. CASE dead = <<>>
    <3>1. f \notin heap /\ dead' = dead /\ ToSet(dead) = {}
      BY <2>1, RingEmptyProperties DEF Create, Allocated
    <3>2. ToSet(ready) \subseteq heap /\ (cpu \in Fiber => cpu \in heap)
      BY ReadyProperties, CpuProperties DEF Inv, SlotTable
    <3>3. QED
      BY <3>1, <3>2, TaskOfFiber
  <2>2. CASE dead # <<>>
    <3>1. dead' = Tail(dead) /\ f = Head(dead) /\ dead \in Seq(Fiber) /\ Distinct(dead)
      BY <2>2 DEF Create, Allocated, Inv, TypeOK, OnePlace
    <3>2. f \in ToSet(dead) /\ ToSet(dead') = ToSet(dead) \ {f}
      BY <2>2, <3>1, RingPopProperties
    <3>3. QED
      BY <3>2, TaskOfFiber DEF Inv, OnePlace
  <2>3. QED
    BY <2>1, <2>2
<1>2. ToSet(ready') = ToSet(ready) \cup {f}
  <2>1. ready' = RingPrepend(ready, f) /\ ready \in Seq(Fiber)
    BY ReadyProperties DEF Create
  <2>2. QED
    BY <2>1, PrependFiber
<1>3. heap' = heap \cup {f} /\ cpu' = cpu
  BY DEF Create
<1>4. TaskOf' = [TaskOf EXCEPT ![f] = "ready"]
  BY <1>1, <1>2, <1>3, TaskOfNext DEF TaskOf
<1>5. QED
  BY <1>1, <1>3, <1>4 DEF Tasks!Spawn

\* ct_corthread_ready of a suspended fiber.
LEMMA ReadyWakes ==
  ASSUME Inv, NEW g \in Fiber, Ready(g)
  PROVE  Tasks!Wake(g)
<1>1. g \in Live /\ g # cpu /\ g \notin ToSet(ready)
  BY DEF Ready, Suspended
<1>2. g \in heap /\ g \notin ToSet(dead) /\ fib[g].status # "EXITING"
  BY <1>1 DEF Inv, ExitingIsDead, SlotTable
<1>3. ToSet(ready') = ToSet(ready) \cup {g}
  <2>1. ready' = RingPrepend(ready, g) /\ ready \in Seq(Fiber)
    BY <1>2, ReadyProperties DEF Ready, MakeReady
  <2>2. QED
    BY <2>1, PrependFiber
<1>4. heap' = heap /\ cpu' = cpu /\ dead' = dead
  BY DEF Ready
<1>5. TaskOf' = [TaskOf EXCEPT ![g] = "ready"]
  BY <1>1, <1>2, <1>3, <1>4, TaskOfNext DEF TaskOf
<1>6. QED
  BY <1>1, <1>4, <1>5, TaskOfFiber DEF Tasks!Wake

\* The loop of ct_corthread_schedule runs the first ready fiber.
LEMMA ScheduleNextDispatches ==
  ASSUME Inv, ScheduleNext
  PROVE  \E t \in Fiber : Tasks!Dispatch(t)
<1>1. PICK t \in Fiber : cpu' = t /\ t \in ToSet(ready) /\ ToSet(ready') = ToSet(ready) \ {t}
  BY SwitchExact, ReadyProperties DEF ScheduleNext
<1>2. cpu = Original /\ heap' = heap /\ dead' = dead /\ t \in heap
  BY <1>1, ReadyProperties DEF ScheduleNext, Inv, SlotTable
<1>3. TaskOf' = [TaskOf EXCEPT ![t] = "running"]
  BY <1>1, <1>2, TaskOfNext DEF TaskOf
<1>4. QED
  BY <1>1, <1>2, <1>3, TaskOfFiber DEF Tasks!Dispatch

\* ct_corthread_schedule frees the dead fibers before it returns.
LEMMA ScheduleEndReaps ==
  ASSUME Inv, ScheduleEnd
  PROVE  Tasks!Reap(ToSet(dead)) /\ ToSet(dead) \subseteq Fiber
<1>1. /\ cpu = Original /\ cpu' = cpu /\ ready' = ready /\ dead' = <<>>
      /\ heap' = heap \ ToSet(dead)
  BY DEF ScheduleEnd
<1>2. ToSet(dead) \subseteq Fiber /\ ToSet(dead') = {}
  BY <1>1, RingEmptyProperties DEF Inv, TypeOK, SlotTable
<1>3. TaskOf' = [u \in Fiber |-> IF u \in ToSet(dead) THEN "none" ELSE TaskOf[u]]
  BY <1>1, <1>2, TaskOfNext DEF TaskOf
<1>4. QED
  BY <1>1, <1>2, <1>3, TaskOfFiber DEF Tasks!Reap

-----------------------------------------------------------------------------
(* The fiber that executes leaves the CPU.                                 *)

\* The caller f switches with the ring r: the ready fibers, f itself when it stays
\* ready and, at the head, the fiber it signals.
LEMMA SwitchLeaves ==
  ASSUME Inv, NEW f \in Fiber, cpu = f, NEW r \in Seq(Fiber), Distinct(r), SwitchTo(r),
         ToSet(r) \subseteq Live,
         \A u \in ToSet(r) : u = f \/ u \in ToSet(ready) \/ u = Head(r),
         \A u \in ToSet(ready) : u \in ToSet(r),
         UNCHANGED <<dead, heap>>
  PROVE  Tasks!Leave(f, IF f \in ToSet(r) THEN "ready" ELSE "suspended", {})
<1> DEFINE s == IF f \in ToSet(r) THEN "ready" ELSE "suspended"
           left == [u \in Fiber |-> IF u = f THEN s
                                    ELSE IF u \in {} THEN "none" ELSE TaskOf[u]]
<1>1. f \in heap /\ f \notin ToSet(dead)
  BY CpuProperties DEF Inv, OnePlace
<1>2. \A u \in Fiber \ {f} : left[u] = TaskOf[u]
  OBVIOUS
<1>3. cpu' \in Fiber \cup {Original}
  BY SwitchExact
<1>4. ASSUME cpu' \in Fiber
      PROVE  left[cpu'] = "ready" \/ (cpu' # f /\ left[cpu'] = "suspended")
  <2>1. cpu' \in ToSet(r) /\ cpu' \in Live
    BY <1>4, SwitchExact
  <2>2. CASE cpu' = f
    BY <2>1, <2>2
  <2>3. CASE cpu' # f
    BY <1>2, <1>4, <2>1, <2>3, TaskOfFiber
  <2>4. QED
    BY <2>2, <2>3
<1>5. ASSUME NEW u \in Fiber
      PROVE  TaskOf'[u] = IF u = cpu' THEN "running" ELSE left[u]
  <2>1. heap' = heap /\ dead' = dead
    OBVIOUS
  <2>2. CASE u = cpu'
    <3>1. u \in heap
      BY <2>2, SwitchExact DEF Inv, SlotTable
    <3>2. QED
      BY <2>1, <2>2, <3>1, TaskOfNext
  <2>3. CASE u # cpu'
    <3>1. u \in ToSet(ready') <=> u \in ToSet(r)
      BY <2>3, SwitchExact
    <3>2. u # f => (u \in ToSet(r) <=> u \in ToSet(ready))
      BY <2>3, <3>1, SwitchExact
    <3>3. QED
      BY <1>1, <2>1, <2>3, <3>1, <3>2, TaskOfNext DEF TaskOf
  <2>4. QED
    BY <2>2, <2>3
<1>6. TaskOf' = [u \in Fiber |-> IF u = cpu' THEN "running" ELSE left[u]]
  BY <1>5, TaskOfNext
<1>7. QED
  BY <1>3, <1>4, <1>6 DEF Tasks!Leave

\* ct_corthread_switch.
LEMMA SuspendLeaves ==
  ASSUME Inv, NEW f \in Fiber, Suspend(f)
  PROVE  Tasks!Leave(f, "suspended", {})
<1>1. f \notin ToSet(ready) /\ cpu = f /\ SwitchTo(ready) /\ UNCHANGED <<dead, heap>>
  BY CpuProperties DEF Suspend
<1>2. Tasks!Leave(f, IF f \in ToSet(ready) THEN "ready" ELSE "suspended", {})
  BY <1>1, ReadyProperties, SwitchLeaves
<1>3. QED
  BY <1>1, <1>2

\* ct_corthread_yield.
LEMMA YieldLeaves ==
  ASSUME Inv, NEW f \in Fiber, Yield(f)
  PROVE  Tasks!Leave(f, "ready", {})
<1> DEFINE r == RingPrepend(ready, f)
<1>1. f \notin ToSet(ready) /\ cpu = f /\ f \in Live
  BY CpuProperties DEF Yield
<1>2. r \in Seq(Fiber) /\ Distinct(r) /\ ToSet(r) = ToSet(ready) \cup {f}
  <2>1. ready \in Seq(Fiber) /\ Distinct(ready) /\ f \notin ToSet(ready)
    BY <1>1, ReadyProperties
  <2>2. QED
    BY <2>1, PrependFiber
<1>3. SwitchTo(r) /\ UNCHANGED <<dead, heap>>
  BY DEF Yield
<1> HIDE DEF r
<1>4. ToSet(r) \subseteq Live
  BY <1>1, <1>2, ReadyProperties
<1>5. Tasks!Leave(f, IF f \in ToSet(r) THEN "ready" ELSE "suspended", {})
  BY <1>1, <1>2, <1>3, <1>4, SwitchLeaves
<1>6. QED
  BY <1>2, <1>5

\* ct_corthread_signal of another fiber: the target runs at once, suspended or not.
LEMMA SignalLeaves ==
  ASSUME Inv, NEW f \in Fiber, NEW g \in Fiber, NEW s \in Signals, Signal(f, g, s), g # f
  PROVE  Tasks!Leave(f, "ready", {})
<1> DEFINE c == RingAppend(RingDetach(ready, g), f)
           r == RingAppend(c, g)
<1>1. f \notin ToSet(ready) /\ cpu = f /\ f \in Live /\ g \in Live
  BY CpuProperties DEF Signal
<1>2. r \in Seq(Fiber) /\ Distinct(r) /\ ToSet(r) = (ToSet(ready) \ {g}) \cup {f, g}
  BY <1>1, SignalRing, ReadyProperties
<1>3. Head(r) = g
  <2>1. RingDetach(ready, g) \in Seq(Fiber)
    BY RingDetachProperties, ReadyProperties
  <2>2. c \in Seq(Fiber)
    BY <2>1, RingAppendProperties
  <2>3. QED
    BY <2>2, RingAppendProperties
<1>4. SwitchTo(r) /\ UNCHANGED <<dead, heap>>
  BY DEF Signal
<1> HIDE DEF r
<1>5. ToSet(r) \subseteq Live
  BY <1>1, <1>2, ReadyProperties
<1>6. Tasks!Leave(f, IF f \in ToSet(r) THEN "ready" ELSE "suspended", {})
  BY <1>1, <1>2, <1>3, <1>4, <1>5, SwitchLeaves
<1>7. QED
  BY <1>2, <1>6

\* corthread_exit: what corthread_kick frees were finished tasks.
LEMMA ExitLeaves ==
  ASSUME Inv, NEW f \in Fiber, Exit(f)
  PROVE  Tasks!Leave(f, "finished", Kicked) /\ Kicked \subseteq Fiber
<1> DEFINE back == SubSeq(dead, Surplus + 1, Len(dead))
           left == [u \in Fiber |-> IF u = f THEN "finished"
                                    ELSE IF u \in Kicked THEN "none" ELSE TaskOf[u]]
<1>1. f \in heap /\ f \notin ToSet(dead) /\ f \notin ToSet(ready) /\ cpu = f
  BY CpuProperties DEF Inv, OnePlace, Exit
<1>2. /\ back \in Seq(Fiber) /\ ToSet(dead) = Kicked \cup ToSet(back)
      /\ Kicked \cap ToSet(back) = {}
  BY KickProperties
<1>3. ToSet(dead') = (ToSet(dead) \ Kicked) \cup {f}
  <2>1. PICK b \in Seq(Fiber) : b = back
    BY <1>2
  <2>2. dead' = RingPrepend(b, f)
    BY <2>1 DEF Exit
  <2>3. ToSet(RingPrepend(b, f)) = ToSet(b) \cup {f}
    BY RingPrependProperties
  <2>4. ToSet(back) = ToSet(dead) \ Kicked
    BY <1>2
  <2>5. QED
    BY <2>1, <2>2, <2>3, <2>4
<1> HIDE DEF back
<1>4. /\ \A u \in Kicked : u \in Fiber /\ TaskOf[u] = "finished"
      /\ f \notin Kicked /\ ToSet(ready) \cap Kicked = {}
  <2>1. Kicked \subseteq ToSet(dead) /\ ToSet(dead) \subseteq heap /\ heap \subseteq Fiber
    BY <1>2 DEF Inv, SlotTable, TypeOK
  <2>2. QED
    BY <1>1, <2>1, TaskOfFiber DEF Inv, OnePlace
<1>5. heap' = heap \ Kicked /\ SwitchTo(ready)
  BY DEF Exit
<1>6. \/ cpu' = Original /\ ToSet(ready) = {} /\ ToSet(ready') = {}
      \/ cpu' \in ToSet(ready) /\ cpu' \in Fiber /\ ToSet(ready') = ToSet(ready) \ {cpu'}
  BY <1>5, SwitchExact, ReadyProperties
<1>7. cpu' \in Fiber \cup {Original} /\ (cpu' \in Fiber => left[cpu'] = "ready")
  BY <1>1, <1>4, <1>6, TaskOfFiber
<1>8. ASSUME NEW u \in Fiber
      PROVE  TaskOf'[u] = IF u = cpu' THEN "running" ELSE left[u]
  <2>1. CASE u = cpu'
    <3>1. u \in heap'
      BY <1>4, <1>5, <1>6, <2>1, ReadyProperties DEF Inv, SlotTable
    <3>2. QED
      BY <2>1, <3>1, TaskOfNext
  <2>2. CASE u # cpu' /\ u = f
    BY <1>1, <1>3, <1>4, <1>5, <2>2, TaskOfNext
  <2>3. CASE u # cpu' /\ u # f
    <3>1. (u \in ToSet(ready') <=> u \in ToSet(ready)) /\ u # cpu
      BY <1>1, <1>6, <2>3
    <3>2. QED
      BY <1>3, <1>5, <2>3, <3>1, TaskOfNext DEF TaskOf
  <2>4. QED
    BY <2>1, <2>2, <2>3
<1>9. TaskOf' = [u \in Fiber |-> IF u = cpu' THEN "running" ELSE left[u]]
  BY <1>8, TaskOfNext
<1>10. QED
  BY <1>1, <1>4, <1>7, <1>9 DEF Tasks!Leave

-----------------------------------------------------------------------------
(* The refinement.                                                         *)

\* Nobody is a task before the first call.
LEMMA InitRefines == Init => Tasks!Init
  BY DEF Init, Tasks!Init, TaskOf

\* What leaves the rings, the heap and the CPU alone is a stutter.
LEMMA Stutters ==
  ASSUME UNCHANGED <<ready, dead, heap, cpu>>
  PROVE  UNCHANGED Tasks!tvars
  BY TaskOfNext DEF Tasks!tvars, TaskOf

\* Every step of the scheduler is one step of the tasks, or none.
LEMMA NextRefines == Inv /\ [Next]_vars => [Tasks!Next]_(Tasks!tvars)
<1>1. SUFFICES ASSUME Inv, [Next]_vars PROVE [Tasks!Next]_(Tasks!tvars)
  OBVIOUS
<1>2. ASSUME NEW f \in Fiber, Create(f) \/ Ready(f) PROVE Tasks!Next
  BY <1>1, <1>2, CreateSpawns, ReadyWakes DEF Tasks!Next
<1>3. ASSUME NEW f \in Fiber, GiveUp(f) PROVE Tasks!Next
  <2>1. \E s \in {"ready", "suspended", "finished"}, reap \in SUBSET Fiber :
          Tasks!Leave(f, s, reap)
    BY <1>1, <1>3, SuspendLeaves, YieldLeaves, ExitLeaves DEF GiveUp
  <2>2. QED
    BY <2>1 DEF Tasks!Next
<1>4. ASSUME NEW f \in Fiber, NEW g \in Fiber, NEW s \in Signals, Signal(f, g, s)
      PROVE  [Tasks!Next]_(Tasks!tvars)
  <2>1. CASE g = f
    <3>1. UNCHANGED <<ready, dead, heap, cpu>>
      BY <1>4, <2>1 DEF Signal
    <3>2. QED
      BY <3>1, Stutters
  <2>2. CASE g # f
    <3>1. Tasks!Leave(f, "ready", {})
      BY <1>1, <1>4, <2>2, SignalLeaves
    <3>2. QED
      BY <3>1 DEF Tasks!Next
  <2>3. QED
    BY <2>1, <2>2
<1>5. CASE ScheduleNext
  BY <1>1, <1>5, ScheduleNextDispatches DEF Tasks!Next
<1>6. CASE ScheduleEnd
  BY <1>1, <1>6, ScheduleEndReaps DEF Tasks!Next
<1>7. CASE (\E f \in Fiber : System(f)) \/ (\E on \in BOOLEAN : ScheduleInit(on)) \/ Schedule
           \/ UNCHANGED vars
  <2>1. UNCHANGED <<ready, dead, heap, cpu>>
    BY <1>7 DEF System, ScheduleInit, Schedule, vars, tvars
  <2>2. QED
    BY <2>1, Stutters
<1>8. QED
  BY <1>1, <1>2, <1>3, <1>4, <1>5, <1>6, <1>7 DEF Next

\* The scheduler of corThread.c, with its rings, its table and its cache, does
\* what the user of cooperative tasks relies on: one at a time, no preemption,
\* none that runs after it has finished, whatever is called in which order.
THEOREM SchedImplementsTasks == Spec => ImplementsTasks
  BY InitRefines, NextRefines, Invariance, PTL DEF Spec, ImplementsTasks, Tasks!Spec

=============================================================================
