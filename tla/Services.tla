------------------------------ MODULE Services ------------------------------
(* What a fiber or a thread asks of the library without a container of its    *)
(* own: rings, fiber-local data, thread keys, select, clock, and the tests of   *)
(* addresses.  Library composes them with the containers.                    *)
EXTENDS Ring

CONSTANTS
  Fiber, Freed, KeyMax,                        \* FiberLocal
  Value,                                       \* of FiberLocal and of ThreadKeys
  Thread, User, Strict, TlsMax, KeysMax, ListMax,      \* ThreadKeys
  Socket,                                      \* SelectPoll
  Reader, Micros, Millis, Ticks, Day, Steps, Offsets, CounterMax,            \* Clock
  Alphabets, Octets, LabelLen, NameLen, PortMax                              \* Addresses

\* NULL and memory that was freed are no records of fiber-local data and not each
\* other; nor is NULL an index or a list of records.
Cell == [ctx : Value, free_fn : BOOLEAN]
Record == [key : Int, value : Value \cup {Null}]

ASSUME ServicesAssumption ==
  /\ Null # Freed
  /\ \A x \in {Null, Freed} : x \notin Value /\ x \notin Cell
  /\ Null \notin Int /\ Null \notin Seq(Record) /\ Null \notin Socket
  /\ KeyMax \in Nat /\ TlsMax \in Nat /\ KeysMax \in Nat /\ ListMax \in Nat
  /\ Micros \in Nat \ {0} /\ Millis \in Nat \ {0} /\ Micros % Millis = 0
  /\ Ticks \in Nat \ {0} /\ Day \in Nat /\ Steps \subseteq Nat
  /\ Offsets # {} /\ \A o \in Offsets : o \in Nat /\ o >= (Day + 1) * Ticks
  /\ LabelLen \in Nat /\ PortMax \in Nat /\ Octets \subseteq 0 .. 255
  /\ \A x \in Alphabets : x.pieces \subseteq Seq(STRING)

VARIABLES
  nlocal, locals, ending, live, duty,
  taken, keys, listKey, slots, shows, list, used, key,
  sets, asked, fds, ret,
  counter, offset, set, ctx, call, told,
  alphabet, size, text, octets

L == INSTANCE FiberLocal
K == INSTANCE ThreadKeys
S == INSTANCE SelectPoll
C == INSTANCE Clock WITH Thread <- Reader
T == INSTANCE Addresses

=============================================================================
