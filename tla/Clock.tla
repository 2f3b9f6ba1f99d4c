-------------------------------- MODULE Clock --------------------------------
(* gettimeofday as gettimeofday.c builds it on Windows, and SET_TIME of        *)
(* ct_event.h, with which the timers are kept.                                *)
(*                                                                          *)
(* A thread takes the system's time once, its base, and adds what the          *)
(* performance counter has counted since; a base older than a day is taken      *)
(* anew.  The counter never goes back; the system's time is what the counter    *)
(* says and an offset that an administrator may change.                        *)
(*                                                                          *)
(* The code asks the system four times in a call, and time passes between:      *)
(* time(), the base, the stamp that the base is taken to be of, and the counter  *)
(* in the end.  Each is an action.                                          *)
EXTENDS Integers, Sequences, FiniteSets, FiniteSetsExt

CONSTANTS
  Thread,
  Micros,      \* microseconds in a second (1000000), a multiple of
  Millis,      \* milliseconds in a second (1000)
  Ticks,       \* ticks of the performance counter in a second, a multiple of
               \* Micros
  Day,         \* DAY_SEC
  Steps,       \* what the counter counts between two events
  Offsets,     \* bound: the offsets that the system's time is set to
  CounterMax   \* bound: the counter ends there

VARIABLES
  counter,   \* QueryPerformanceCounter
  offset,    \* the system's time is the counter plus this many ticks
  set,       \* the counter when the offset was changed last, or -1, and whether it
             \* was ever made smaller
  ctx,       \* TIME_CTX_T of each thread
  call,      \* where each thread is in gettimeofday, and, for the property only,
             \* the counter when it began and when the base was taken, and how
             \* much later the stamp was
  told       \* the milliseconds that SET_TIME told each thread last

vars == <<counter, offset, set, ctx, call, told>>

\* GetSystemTimeAsFileTime in microseconds, and time() in seconds.
SystemTime == ((counter + offset) * Micros) \div Ticks
Now == SystemTime \div Micros

\* The context as calloc leaves it.
Fresh == [last_init |-> 0, sec |-> 0, usec |-> 0, stamp |-> 0]

\* Mutant: the stamp is not taken again.
StampedNot(c) == c

\* The stamp of a base.
Stamped(c) == [c EXCEPT !.stamp = counter]

\* The answer; its microseconds may be more than a second has.
TimeOfDay(c) ==
  LET t == ((counter - c.stamp) * Micros) \div Ticks
  IN  [sec |-> c.sec + (t \div Micros), usec |-> c.usec + (t % Micros)]

\* SET_TIME.
Milliseconds(tv) == tv.sec * Millis + tv.usec \div (Micros \div Millis)

\* The system's time is past the first day when the program starts, or the
\* first call would take no base.
Init ==
  /\ counter = 0
  /\ offset = Min(Offsets)
  /\ set = [at |-> -1, back |-> FALSE]
  /\ ctx = [t \in Thread |-> Fresh]
  /\ call = [t \in Thread |-> [at |-> "idle", asked |-> 0, based |-> 0, late |-> 0]]
  /\ told = [t \in Thread |-> 0]

Pass ==
  /\ \E n \in Steps : counter + n <= CounterMax /\ counter' = counter + n
  /\ UNCHANGED <<offset, set, ctx, call, told>>

SetTime(o) ==
  /\ o # offset
  /\ offset' = o
  /\ set' = [at |-> counter, back |-> set.back \/ o < offset]
  /\ UNCHANGED <<counter, ctx, call, told>>

\* The call begins: is the base to be taken anew?
Ask(t) ==
  LET due == Now - ctx[t].last_init > Day
  IN  /\ call[t].at = "idle"
      /\ call' = [call EXCEPT ![t].at = IF due THEN "base" ELSE "tell", ![t].asked = counter]
      /\ ctx' = IF due THEN [ctx EXCEPT ![t].last_init = Now] ELSE ctx
      /\ UNCHANGED <<counter, offset, set, told>>

TakeBase(t) ==
  /\ call[t].at = "base"
  /\ call' = [call EXCEPT ![t].at = "stamp", ![t].based = counter]
  /\ ctx' = [ctx EXCEPT ![t].sec = SystemTime \div Micros, ![t].usec = SystemTime % Micros]
  /\ UNCHANGED <<counter, offset, set, told>>

TakeStamp(t) ==
  /\ call[t].at = "stamp"
  /\ call' = [call EXCEPT ![t].at = "tell", ![t].late = counter - call[t].based]
  /\ ctx' = [ctx EXCEPT ![t] = Stamped(@)]
  /\ UNCHANGED <<counter, offset, set, told>>

\* The call ends, and SET_TIME has the answer.
Tell(t) ==
  /\ call[t].at = "tell"
  /\ call' = [call EXCEPT ![t].at = "idle"]
  /\ told' = [told EXCEPT ![t] = Milliseconds(TimeOfDay(ctx[t]))]
  /\ UNCHANGED <<counter, offset, set, ctx>>

Next ==
  \/ Pass
  \/ \E o \in Offsets : SetTime(o)
  \/ \E t \in Thread : Ask(t) \/ TakeBase(t) \/ TakeStamp(t) \/ Tell(t)

Spec == Init /\ [][Next]_vars

-----------------------------------------------------------------------------
\* The time that the system had n ticks ago.
TimeAgo(n) == ((counter + offset - n) * Micros) \div Ticks

\* The last change of the system's time was a day, and a second, before the call.
Settled(asked) == set.at = -1 \/ asked > set.at + (Day + 1) * Ticks

\* As long as the system's time is only put forward, what a thread is told
\* never goes back, across the renewals of its base, whatever passes between
\* them and their stamps, and with the microseconds that gettimeofday does not
\* carry into the seconds.  And a change arrives with a day's delay at most:
\* when the last one is older, what is told is behind the system's time by what
\* the thread was kept between base and stamp, which is not bounded, and by one
\* millisecond lost in rounding (gettimeofday.c:76-134, ct_event.h:10-14).
ReadsTheTime ==
  [][\A t \in Thread : Tell(t) /\ ~set.back =>
       /\ told'[t] >= told[t]
       /\ Settled(call[t].asked) =>
            told'[t] - (TimeAgo(call[t].late) * Millis) \div Micros \in {-1, 0}]_vars

=============================================================================
