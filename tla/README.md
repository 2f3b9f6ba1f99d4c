# corThread: specifications, checks and proofs

corThread is a library of cooperative threads ("fibers") for Windows: a
scheduler on top of the system's fibers, and blocking socket calls that suspend
the calling fiber instead of the thread. This directory holds TLA+ modules
translated from `src/corThread`, TLC runs on small instances of them, and TLAPS
proofs for all instances. The repository has no tests, and its only
documentation are the comments of some headers (`array.h` and `htable.h` here,
more of them where the demos carry headers: `src/serDemo/serDemo/*.h`) and a few
in the source.

`PROJECT.json` lists components, runs, hazards and theorems, and says for every
definition which lines of the source it stands for.

## 1. The system

| Component | Source | State | Operations |
|---|---|---|---|
| Scheduler | `corThread.c`, `corThread_win.c` | per thread: rings `ready` and `dead`, slot table, `running`, `idgen`, `count`, `__scheduled`, `__schedule_auto`; per fiber: status, slot, id, flags, signal | create, yield, switch, ready, signal/kill, exit, schedule, schedule_init |
| I/O fiber, timers, blocking | `corThread_io.c` | `ev_corthread`, ring `ev_timer`, `io_stop`, table of `FILE_EVENT`s; per descriptor the fiber that waits; per fiber its wake-up time | io_check, delay, wait_read/wait_write, callbacks, loop, schedule_stop, file_open/close |
| Event layer | `event.c`, `event_select.c`, `file_event.c` | ring `events` of descriptors with pending changes, `files[]`, three descriptor sets, per descriptor `oper`, `mask`, `id`, `type`, callbacks | add/del read/write, close, process (prepare, select, call back) |
| Hooked calls | `io.c`, `socket.c` | none but function pointers | recv, recvfrom, send, sendto, accept, connect, close, socket, listen |
| One-time initialization | `pthread_patch.c:84-108`, `io.c`, `socket.c`, `select.c` | a `pthread_once_t` and the pointers of each file | pthread_once, hook_init |
| Rings | `circle.c`, `circle.h` | heads and entries with `succ`, `pred`, `parent`, `len` | init, append, prepend, detach, pop_head, pop_tail |
| Fiber-local data | `corThread.c:302-334, 514-594` | number of keys per thread; array per struct | set_specific, get_specific, release at exit |
| Thread keys, mutexes | `pthread_patch.c` | table of keys; per thread TLS slots and a list of records | key_create, set/getspecific, mutex_* |
| Hash table | `htable.c`, `htable.h` | array of chains, size, used, status | create, enter, find, delete, reset, free, walk, list, iterators |
| Queue of pointers | `fifo.c`, `fifo.h` | boxes, head, tail, cnt | push and pop at either end, delete, boxes handed out and put back, iterators |
| Array of pointers | `array.c`, `array.h` | capacity, count, items | append, insert, pop, delete (one, swap, object, range), move, clean, iterators |
| Select emulation | `select.c` | none between calls | select |
| Clock | `gettimeofday.c`, `ct_event.h` | per thread a base: time and counter when it was taken | gettimeofday, SET_TIME |
| Names and addresses | `valid_hostname.c`, `sane_inet.c` | none | valid_hostname, valid_hostaddr, is_ip, ipv4_addr_valid, inet_ntop |
| Demos | `src/serDemo`, `src/cliDemo` | a fiber per connection with a buffer | accept, echo; connect, send, receive |
| Others | `sane_socket.c`, `msg.c`, `tcp_nodelay.c`, `non_blocking.c`, `open_limit.c`, `init.c` | none | |

How they interact. A thread has one scheduler and one event layer, reached
through thread-local variables; threads share only the function pointers, the
`pthread_once_t`s and the table of thread keys. Everything inside a thread is
cooperative: control moves at `ct_corthread_switch`, and callbacks run on the
stack of the I/O fiber. A blocking call (`ct_corthread_recv`) finds or makes the
`FILE_EVENT` of its descriptor, stores the running fiber in it, notes the
interest in the event layer and switches away. The I/O fiber yields as long as
anybody is ready, then applies the noted changes, calls `select`, calls back
whoever can go on (which puts fibers into `ready`), wakes sleepers, and yields
again. It exits when nobody waits, and the next blocking call creates it anew.

What is hard about it: one link field `me` serves four kinds of ring and nobody
checks whether an entry is linked; structs and slots are reused; wakeups come
from callbacks, timers, signals and user code in any order; interest changes are
lazy; the I/O fiber comes and goes; hooked pointers are tested without a lock.
The containers are sequential, but each of their calls keeps several links,
ends and counts by itself, and it is long series of calls that would show a slip.
`PROJECT.json` has these at their lines, under "hazards".

## 2. Modules

    CoopTasks <------- CorSched ------> RingSeq <------- Ring
        (implements)      ^                   (implements)
                          |
                        CorIo ---> Poller <------- EventLoop
                                     (implements)
    HookOnce           Echo

    Services, side by side:
      Ring             FiberLocal --> FiberMap       ThreadKeys
      SelectPoll       Clock                         Addresses
    Library, side by side: Services and
      Htable --> KeyMap       Fifo --> Deque         Array --> ObjList

The proofs are in `RingSeq_proofs`, `Services_proofs`, `CorSched_proofs`,
`EventLoop_proofs`, `CorIo_proofs`, `HookOnce_proofs`, `Echo_proofs` and
`Library_proofs` (which is about FiberLocal, ThreadKeys, Array, Fifo, Clock, Htable,
SelectPoll and Addresses, and stands on `Services_proofs`).

* **RingSeq** - what a ring holds, as a sequence from `succ` of its head on.
  `ring_append(head, e)` links behind the head, so it is `<<e>> \o r`, and
  `ring_prepend` is `Append`; the comments of `circle.h` in the demos have them
  the other way round.
* **Ring** - the same rings as pointers. Its entries start as `ring_init` or as
  `calloc` left them. It implements the operators of RingSeq.
* **CorSched** - the scheduler. `cpu` is who executes; `running` is the source's
  variable, which may differ while the original context executes. One action per
  public function: `Create` (with `corthread_alloc`), `Suspend`, `Yield`, `Exit`
  (with `corthread_kick` and the swap of slots), `Ready`, `Signal`, `System`, `ScheduleInit`,
  and `Schedule`, `ScheduleNext`, `ScheduleEnd` for the loop of
  `ct_corthread_schedule`. Bounds: `CountMax` creations too many are not tried;
  `MaxCache`, `Grow` and `IdMod` stand for 1000, 128 and 2^32.
* **CoopTasks** - what a cooperative scheduler promises. CorSched implements it
  (`TaskOf` maps a struct to the state of its task).
* **EventLoop** - the event layer. The interest of a descriptor is `proc`, what is
  registered with select is `es`, the difference is pending in `oper`. The loops
  of `event_process` are split into a step for each descriptor.
* **Poller** - what the event layer promises to the I/O functions. EventLoop
  implements it.
* **CorIo** - CorSched and Poller composed, with the I/O fiber's loop
  (`LoopStart` ... `Expire`), `Delay`, the blocking calls (`Block`, `Return`,
  `Again`, `Immediate`), `Close`, `ScheduleStop`. `at[f]` is the call a fiber is
  in. It is built on Poller, not on EventLoop, since EventLoop implements it.
  `IoCheck` is `corthread_io_check` where there is no I/O fiber: it comes before a
  blocking call, a sleep or a close, and inside a call that has to wait once
  more (`WaitsAgain`). At `CountMax` there cannot be another I/O fiber, and a
  close goes on without one (`IoChecked`).
* **FiberLocal** - fiber-local data; `duty` records what the library owes each
  stored object. It implements **FiberMap**, a map for each fiber.
* **HookOnce** - any number of threads entering the hooked functions of a file.

* **Htable**, **Fifo**, **Array** - the containers, link by link and place by
  place. `answer` is what the last call returned and what it freed or showed, so
  the refinements compare every answer, not only the contents. They implement
  **KeyMap** (a map), **Deque** (a sequence open at both ends) and **ObjList** (a
  list). `Hash` may map keys to one number; capacities and chunks are constants.
* **ThreadKeys** - `pthread_key_create` and `pthread_setspecific` on TLS slots,
  with the list of records that holds the only way to a destructor, and its
  users in the library (`Buffer`: `last_serror` and `gettimeofday`). TlsAlloc may
  have no index (`KeyRefused`) and TlsSetValue may fail, for a value (`SlotFails`)
  and for the list (`Keep`). Users in `Strict` end the process then: `last_serror`
  aborts without a key (`msg.c:205-207`) and asserts that the value was set (225),
  and the schedulers give up with `msg_fatal`; `gettimeofday` goes on.
* **SelectPoll** - the array the hooked `select` builds and the answer it makes.
* **Clock** - each thread's base, its renewal after a day, and the milliseconds
  `SET_TIME` makes of the answer, under an administrator who sets the time. The
  code asks the system four times in a call, at `gettimeofday.c:88`, 96, 107 and
  114, and these are four actions (`Ask`, `TakeBase`, `TakeStamp`, `Tell`) between
  which time passes and others run. `call` notes where a thread is, and when it
  was there, which only the property reads.
* **Addresses** - the character loops of the tests of names and addresses, each
  compared with a definition of what it should accept, over all texts of an
  alphabet up to a length; and `inet_ntop`, read back.
* **Echo** - server and clients of the demos over streams with limited room. It
  stands on what CorIo shows of the blocking calls: `BlockedServed`.
* **Services**, **Library** - the nine modules whose components run inside one call or one
  thread, side by side: `kind` names the one that a behaviour belongs to, the
  others keep their initial state. One run checks them all (**MCLibrary** gives
  the values); the state space is the sum of theirs. The theorems about these
  components are about `LibSpec`, so they are about what the run checks.

`MC*` modules and `.cfg` files instantiate these.

## 3. What the runs check

| Run | Instance | States | Question |
|---|---|---|---|
| `sched` | 3 fibers, cache 1, table grows by 2, ids modulo 2, kill | 284 564 | Do rings, slots, statuses and cache agree, is it a cooperative scheduler, and does every ready fiber run? |
| `event` | 3 descriptors, one no socket | 495 660 | Do table, sets, masks, queue and callbacks agree; is it a poller; is every condition served? |
| `io_safety` | 3 structs, 2 descriptors, recv, accept, connect; in one half of the behaviours sleeps of 1 and 2, interrupt and kill, in the other `schedule_stop` at any moment, and kill | 1 742 726 | Is every wakeup right, is nobody forgotten, is the scheduler used legally, across a stop too? |
| `io_live` | 3 structs, 1 descriptor, recv, sleeps of 0 and 1 | 24 428 | Does whoever waits get to run? |
| `io_untidy` | a killed fiber goes on without closing | violated | Is only who is suspended made ready? |
| `io_stop` | stop, 1 descriptor | violated | Does a stop stop the scheduler? |
| `once` | 3 threads, 3 functions | 9 720 | Is no NULL pointer called, and does nobody wait for ever? |
| `library` | see below | 598 446 | Are the sequential components what they promise? |
| `array_range` | the array, ranges behind its end | violated | Does deleting a range only delete? |
| `select_lost` | 2 sockets in 3 sets | violated | Has each socket given to `select` an entry? |
| `ipv6_short` | the texts of `library` | violated | Is what passes for an IPv6 address one? |
| `echo` | 2 clients with 4 and 1 lines, messages of 2 bytes, room for 2 | 167 445 | Are answers in order and for the right client, and does nobody wait for ever? |

The instances of `library`: 2 rings with 4 entries; 2 structs, 3 objects and 2
keys for fiber-local data; 3 keys, two of which collide in arrays of 1 and
3 and part in one of 7, in tables of 1 or 3 chains that grow to 3 and 7; 3 boxes and 2 objects in the queue; up to 3 objects, NULL among
them, in an array that grows by 2; 2 threads, 2 users (one of them strict), 3 places of
memory and 3 indices, of which the table of keys has room for 2, for thread keys;
2 sockets in 3 sets; 1 thread and a clock with a second of 8 ticks and a day of 1
second, set to 3 offsets, of which 3 or 9 ticks pass at a time (`Steps`) up to 22
(`CounterMax`); names of up to 4 characters and addresses of up to 8
pieces, from seven alphabets: one for names, six for what the loops on addresses
tell apart. The objects, fibers and values that are alike are permuted (SYMMETRY).

Why these bounds are enough. Three fibers are the least with which a fiber can
be in the middle of a ring, the slot swap can touch a third, one can signal
another while a third is ready, and with a cache of one struct the kick frees
something. In CorIo one of the three is the I/O fiber; two user fibers suffice
for two timers in either order, for a fiber that kills another in a call, and
for one that keeps the loop busy while the other waits. Two sockets make
`files[]` compact with a move, and the third descriptor is turned away. Ids
modulo 2 wrap within a run. `Stops` says whether a stop may come in
a behaviour; nobody sleeps then, and of the signals only SIGTERM is sent
(`Sent`), which bounds the run. With four entries `ring_append` behind
an entry has neighbours on both sides and another ring to disturb. Three boxes
are a head, a middle and a tail; three keys are two in a chain and one beside it,
through a growth that parts or joins them. A step of 9 ticks is longer than a
second and 22 ticks longer than the day and the second after which a change must
have arrived, so a base is renewed within a run, with a pause between base and
stamp longer than what is lost in rounding. A message of two bytes in a
stream with room for two is the least that is sent and received in parts, and
with four lines a stream fills while the other side is still writing.

Each property of a passing run has, in `PROJECT.json`, a mutant: a plausible
slip in the source under which TLC finds the property violated.

The five violated properties are disagreements of code and what is said of it:

* A blocking call that ends by a kill leaves its callback registered
  (`io.c:144-149`, `corThread_io.c:344`). If the fiber does anything but close
  the descriptor, the callback makes it ready a second time. `Tidy` is the
  assumption, in the other runs, that it closes it next.
* `ct_corthread_schedule_stop` ends the I/O fiber, which the next blocking call
  replaces; the fibers run on.
* `array_delete_range` (`array.c:310-321`) cuts the end of the range to the last
  place and not its beginning; behind the last object the difference is
  negative and the array becomes longer (`array.h:136`). In the other runs
  `Wild = FALSE`: no such range is given.
* `get_pollfd` (`select.c:37`) assigns where it should compare, so all sockets
  end in one entry and all but the last are lost. What `library` checks of it,
  `SelectEntriesAreAsked`, is true of the code because of that: with the
  comparison repaired, the array, with room for the largest set and entries placed
  by their index in their own set (`select.c:61`), would be too small and
  overwritten. Nothing is ever polled either.
* `valid_ipv6_hostaddr` accepts fewer than eight groups without "::", where its
  comment (`valid_hostname.c:196-197`) requires eight. `library` checks
  both sides that do hold: what the comment describes is accepted, but for a "::"
  in the place of one group alone, which is refused at an end of the address;
  and what is accepted has the shape of an address (`HasV6Shape`).

Others, seen on the way, which one call shows and no run repeats:

* `ct_corthread_signum` (`corThread.c:259`) tests `if (corthread)` where
  `if (!corthread)` is meant and reports the running fiber's signal, not that of
  the fiber it is given (`corThread_base.h:107-110` of the demos).
* `array_delete_obj` (`array.c:280-285`) frees the object before it knows that it
  is in the array, where `array.h:129-130` says that members are freed. ObjList
  frees members only; so that `ArrayImplementsList` does not stumble over this, no
  such object is given with `Wild = FALSE`.
* `array_pred_insert` and `array_succ_insert` return the place of the new object
  (`array.c:204`, `226`), where `array.h:86` and `95` promise 0. ObjList
  (`Put`) admits any answer but -1, so the refinement decides nothing about it.

And smaller ones: `ct_corthread_delay`
returns its lateness and 0 when it was early (`corThread_io.c:304-309`), where
`corThread_base.h:179` promises the rest; a value stored over another is never
given to its callback (`corThread.c:567`), where `corThread_base.h:223-224`
promises the call.
`fifo_new` leaves `iter_info` unset, which only `fifo_init` sets. A NULL object
ends `fifo_free` and `FOREACH` early. `array_prepend` refuses an empty array.
When TlsSetValue fails, `pthread_setspecific` has called the
destructor of the old value already, and the slot still shows it
(`pthread_patch.c:159-178`); the two users with a buffer come with an empty slot,
so they are not exposed to it. `gettimeofday` without a key loses its memory at
every call, and takes its base anew each time. When there is no index for
the list of records, `pthread_init_once` asks `last_serror` for the text of the
message, which waits for this very `pthread_once`, for ever
(`pthread_patch.c:41-49`). The destructors never run when a thread ends, since
nobody calls `tls_value_list_free`. A thread that is kept between
`gettimeofday.c:96` and 107 is late by that time until its base is renewed, a
day later. A clock that is put back delays the renewal of bases taken before. `tcp_nodelay.c:18` tests with
`&&`, so that the option is never set.

### Fairness

* CorSched: `ct_corthread_schedule` goes on (its loop does nothing but that),
  and a running fiber gives the CPU up some time. This is what cooperative
  fibers owe one another; without it nothing is live. Signals come to an end, at
  any time: a signal puts its target before everybody else, and two fibers that
  signal each other for ever starve a third.
* EventLoop: the I/O fiber calls `event_process` again and again.
* CorIo: the loop and the scheduler go on, time passes, calls that have been
  woken return, no fiber keeps the CPU or a descriptor for ever when it has
  nothing else to do, and from some time on no fibers are created (creation puts
  new fibers into the ring for which the loop gives way). `Yields = FALSE`: the
  loop looks at sockets and timers only when nobody is ready
  (`corThread_io.c:164`), so fibers that yield for ever starve those that wait.
* HookOnce: every thread is scheduled by the system.
* Echo: the accept loop accepts what waits, each fiber of the server that can go
  on does so (this is what CorIo and CorSched show), and a client receives what has
  arrived and notices that its connection is gone. Users need neither type nor
  leave, and accept need not fail.

### Assumptions on the users, named in the modules

A fiber uses only descriptors it opened and closes them before it exits
(`MayUse`, `Exit`): `FILE_EVENT.corthread` has room for one fiber. Only live
fibers are signalled, and `ct_corthread_ready` is called for suspended fibers.
Nobody signals the library's own fiber. Nobody sleeps in a run with stops.
Callbacks of fiber-local data do not use fiber-local data, and an object is
given away with a callback once. Memory does not run out in the containers
(`htable_grow` would leave a table without an array). A box is put back into the
queue it came from, and `fifo_delete_info` is called for a box that is in it.
A thread uses its keys only after they were created without another thread doing
so at once (the registration is one step; HookOnce has `pthread_once` in steps).
The system's clock is past the first day when the program starts (it counts from
1970).

## 4. What is proved

All with TLAPS, for all values of the constants that the modules' assumptions
(`SchedAssumption`, `RingAssumption`, `EventAssumption`, `IoAssumption`,
`ServicesAssumption`, `LibraryAssumption`, `SizesAssumption`) admit. The last
three say that NULL, freed memory and objects are different things, that there are finitely many boxes for
the queue, that the first capacity of an array and what it grows by are positive,
as are the sizes of the demos' buffers and streams, that a millisecond is a whole
number of microseconds, and that the clock is past its first day.

* **CorSched_proofs** - `Inv` is the conjunction of `TypeOK`, `OnePlace`,
  `SlotTable`, `ExitingIsDead`, `RunningIsCpu`, `CacheBound` and `IdsAreNotZero`;
  it is inductive, and each is a theorem (`TypeCorrect`, `InOnePlace`,
  `TableIsRight`, `NoWakeupDropped`, `RunningIsRight`, `CacheIsBounded`,
  `IdsNeverZero`). None is inductive by itself: that `Exit` may prepend the
  running fiber to `dead` needs `OnePlace` and `SlotTable` (it is live, so it is
  not dead); that `Create` may prepend the struct to `ready` needs that a dead
  or free struct is not in the table and the ready ones are; the swap of slots
  needs that the table lists nobody twice, which follows from `SlotTable`;
  `Ready` keeps `OnePlace` because only the dead are EXITING. There is a lemma
  for each action; those that end in a switch share `SwitchProperties` and
  `SwitchInv`, and the exit has its own for the kick (`KickProperties`) and for
  the table (`SlotsWithoutProperties`).
  `SchedImplementsTasks` is the refinement: `Spec => ImplementsTasks`, with
  the mapping `TaskOf`. From `Inv` a fiber's task follows from one test
  (`TaskOfFiber`); then `Create` is a `Spawn`, `Ready` a `Wake`, `ScheduleNext` a
  `Dispatch`, `ScheduleEnd` a `Reap` of all dead structs, and `Suspend`, `Yield`,
  `Exit` (which reaps what the kick frees) and the signal to another fiber are
  each a `Leave`; the rest are stutters. Three of the four that leave share
  `SwitchLeaves`: the ring that is switched with holds the ready fibers, perhaps
  the caller, and a signalled fiber only at its head.
* **RingSeq_proofs** - what append, prepend, pop, cut, detach and an insertion in
  the middle do to the set of a ring's entries and to their distinctness, and that
  the last two keep a ring sorted. Also the arithmetic of the clock: what `\div`
  does to sums, products and order, by a divisor that is not known.
* **Services_proofs** - `RingsStayClosed`: `succ` and `pred` stay inverse. The
  invariant adds that null pointers come together, that an entry that is its own
  parent is linked to itself, and that parents are heads: so nobody points to
  what a caller may link (`UnlinkedProperties`), and linking and unlinking are
  surgery between two neighbours. `RingsAreSequences` is the refinement to
  RingSeq. What a ring holds is a walk along `succ`, which would be an induction;
  the proof replaces it by least numbers (`LeastExists`): two walks that differ
  differ first somewhere, and there they come from one place. So a sequence
  that the links follow from the head back to the head is what the walk finds,
  and each operation only has to name the sequence of the new links. The module
  also has the lemmas on lists linked in both directions that end in NULL
  (`Chained`), for the queue and the chains of the hash table: how one entry is
  linked at the head and taken out anywhere, what many such lists that share
  their links keep of each other (`Bucketed`), and what a walk through them, one
  behind the other, meets (`Joins`, `WalkMeets`).
* **EventLoop_proofs** - `TableIsSound`, `NoInterestIsLost`, `NothingDangles` and
  `ImplementsThePoller`. First what each function of `event_select.c` does to a
  sound table (`TableOK`): `select_add_*` in two steps, a descriptor is listed and
  then registered (`ListingProperties`, `RegisteringProperties`); `select_del_*`
  in three, out of the set, out of the table with the last entry in its place
  (`UnlistProperties`: this is where the ids make every descriptor listed once),
  out of the mask. Then what a call does to the pending changes of one descriptor
  (`Agree`: masks, pending changes and callbacks; `AddAgrees`, `DelAgrees`,
  `AfterAgrees`): `event_prepare` turns the mask into the callbacks
  (`AppliedProperties`). `Inv` joins `Table`, the parts of `InterestIsPending` and
  `NoDangling` with `Answer`: while `select`'s answer is handled nobody is in
  `es->ready` twice and the answer still holds. It needs all of them: a removal
  is safe because it is pending only for what is registered, a descriptor is
  fresh in the round because nothing was pending when `select` was called, and
  the callbacks are deliveries of the poller because of `Answer`.
* **HookOnce_proofs** - `NoNullCall` and `RunsOnce`: a pointer is used only by a
  thread that saw it set, or after the control said done, and only the one
  initializer, after all stores, says so.

* **CorIo_proofs** - `InOneRing`, `TimersStaySorted`, `NobodyStaysForgotten`,
  `EveryWakeupIsRight`, `KillEndsTheCall` and `ImplementsTheScheduler`, for any
  fibers, descriptors, times and signals, with and without a stop. They assume
  `Tidy`: without it the second disagreement of section 3 contradicts them.
  Every step of the library is a step of CorSched or none of its steps, so
  CorSched's invariant is kept (`SchedInv` carries its theorems over), and a
  lemma for each of those steps says what becomes of `Parked`, the set of the
  suspended fibers (`SuspendEffect` ... `SystemEffect`). `Inv` adds what CorIo's
  own variables owe that set: who is in a call is alive and its descriptor names
  it (`InCall`); whom the poller watches for waits in just that call, or was
  signalled and executes (`Watched`); whoever is suspended has a timer or is
  watched for (`Waits`); timers belong to suspended sleepers, each once
  (`Sleepers`), and are sorted; the I/O fiber is never suspended (`IoRuns`); what
  select found is still asked for, the timer at hand is still the first
  (`IoData`); and without an I/O fiber nobody waits (`Stopping`). They need one
  another: a callback may make its fiber ready because of `Watched`, which `Block`
  keeps because whoever runs left no interest behind (`CpuIsTidy`) and `Signal`
  because the CPU goes to the very fiber whose interest stays; the loop may end
  because of `IoData`, `Waits` and `Watched` together. That the timers stay
  sorted rests on the place that the search from the far end finds
  (`TimerPlaceProperties`) and on `InsertSorted` and `DetachSorted`.
  `SleepsLongEnough` adds `Punctual`: a sleeper that is not suspended any more has
  slept long enough or was signalled, and the timer at hand is due. It assumes `Tidy`, too, and that no signal has the
  number 0, which a new fiber has (`corThread.c:363`) and stands for none.

* **Echo_proofs** - `EchoesStayInOrder` and `SocketsHaveOneFiber`, for any
  clients, lines, message sizes and rooms. What a client got back, what is on its
  way back, what the server's fiber holds in its buffer and what is on its way
  there, one behind the other (`All`), are bytes of this client, each later than
  those before; a partial send only leaves some out. So the invariant is about
  one sequence through all buffers, and each step appends to it, moves bytes
  inside it or drops some. `Sockets` adds that a connection waits or is in the
  hands of one fiber, and that a fiber whose pointer is freed is over.

* **Library_proofs** - theorems on eight components, each with an invariant of
  its own.
  - `CallbacksAreOwed` and `FibersHaveMaps` (FiberLocal, `LocalInv`): the
    library owes a call for just those values that are in an entry with a
    callback, and each of these is in one entry only; a struct that nobody uses
    has no array; the loop that releases an array has left nothing behind it and
    freed nothing before it.
  - `ThreadsOwnTheirValues` (ThreadKeys, `KeysInv`): what a thread's slot holds
    is the value of the one record for it, and is not freed nor in another slot;
    after a failure it has no record, so that nothing frees it again. `shows`
    tells the slots apart whose value the destructor has had: of these the theorem
    says only that nobody frees the value a second time.
  - `ArraysAreLists` (Array, `ArrayInv`): the places below `count` are the list,
    and `count` does not exceed the capacity, which growing sees to before
    anything is moved; what is behind `count` does not matter. It assumes
    `~Wild`: no range to delete begins behind the end and no object is deleted
    that is not there; the run `array_range` and section 3 show what happens else.
  - `QueuesAreDeques` (Fifo, `FifoInv`): the links are one chain, `head` and
    `tail` its ends, `cnt` its length, the walk back is the walk forth reversed,
    and boxes that are handed out are not in it. As with the rings, the calls
    are shown to change one sequence of boxes (put in at an end, taken out at an
    end or in the middle), and the walks are that sequence because they follow
    the links.
  - `ClocksReadTheTime` (Clock, `ClockInv`): for each thread, wherever it is in
    a call, a base plus the counter's progress is behind the time by what passed
    between base and stamp, since the system's clock was not further when the
    base was taken; what a thread was told last is not more than its base gives
    now, before and after its stamp is taken; and a base older than the last
    change is renewed when the change is more than a day old when the call
    begins. The rest is rounding: the time of a base and of what passed since are
    rounded apart and may lose one microsecond, which is one millisecond at most.
    How late a stamp is nothing bounds.
  - `TablesAreMaps` and `IterationIsComplete` (Htable, `HashInv`): every slot of the
    array begins a list of distinct keys, linked in both directions and ended by
    NULL at both, all of which belong to this slot; and `used` counts the entries
    of all lists. So `htable_locate` need look at one chain only. Growing is
    shown by induction on how many entries have been relinked: those are in the
    new array, in lists of this kind, whatever their old links were. An iteration
    stands at a place of the lists joined one behind the other (`Iterates`), and
    each step moves it to the next place, through the rest of a chain or over
    empty slots; so it meets what `htable_list` lists, in the order of the slots
    or against it. The keys are finitely many, each is hashed to some natural
    number, and sizes are integers; nothing else is assumed of the hash
    function, nor that it spreads.
  - `SelectsFit` (SelectPoll, `SelectInv`): while the sets are put into the
    array it has one used entry, the first, or none before the first socket
    (`FirstEntryOnly`). Its room is at least 1 when there is a socket, so it never
    overflows, by induction over the sockets of a set and from set to set; the
    entry is of a socket of one of the sets and asks for the events of just those
    that are not empty.
  - `NamesAreRecognized` (Addresses, `TextInv`): the loop of valid_hostname and
    the grammar of host names agree on every sequence (`NameIsKnown`). Between
    the two stands where the last dot before a place is (`LastDot`): the loop's
    counter is the distance from it (`NameAt`), so that it is content when each
    character is where it may be (`Good`); the parts between the dots are what
    lies behind these places (`PartsAt`); and every character is good just when
    every label is (`GoodIsFine`, `FineIsGood`).

Only model-checked: the addresses of Addresses (`TextAddresses`), where four
loops, one of them inside another, go over a text of any length with a dozen
variables between them; the bounds of the run are what it shows. And all liveness, which needs ENABLED: `ReadyRuns`, `CallReturns`,
`ConditionServed`, `BlockedServed`, `SleepersWake`, `Answered`.

## 5. Not modelled

Error numbers and messages; `io_count`, `nsleeping` and `switched`, which only
messages and return values of yield read; the timeout of `select` (it bounds the
delay of a wakeup; `event.c:254` turns 0 into 100 ms); descriptors at or beyond
`setsize` above the event layer; `select` failing; two fibers on one descriptor;
sleepers across a stop (`ev_timer` is initialized with sleepers still linked:
RingSeq cannot say what their unlinking then does); the start with
`ct_corthread_schedule_init(1)` from `io_check` (`corThread_io.c:119`); the end of
a thread, but for its keys; callbacks of fiber-local data that use fiber-local
data; the mutexes, which are the system's; printing (`htable_stat`); the time zone
of `gettimeofday`; `inet_pton` and the socket options, which are one system
call each; running out of memory; `src/demo`, which does not use the library.

## 6. What is left

The addresses of Addresses are the one invariant left to TLC alone: a proof would
give each loop an invariant over the prefix it has read, as that of the host
names has. The next models are a
pointer-level module of the timers (Ring below `ev_timer`) for sleepers across a
stop, and the start-up sequence with automatic scheduling.
