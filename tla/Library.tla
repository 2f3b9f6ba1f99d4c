------------------------------ MODULE Library -------------------------------
(* The components of the library that run by themselves, inside one call or   *)
(* one thread: rings, fiber-local data, hash table, queue, array, thread keys,  *)
(* select, clock, and the tests of addresses.  A behaviour is one of one of     *)
(* them, named by kind; the others keep their initial state.                 *)
EXTENDS Services

CONSTANTS
  Kinds,                                       \* the components that are looked at
  TableKey, Stored, Hash, MinSize, TableSizes,      \* Htable; Stored are the values
  Box, Object,                                 \* Fifo
  Thing, Named, ArraySizes, Default, Chunk, MaxCount, MaxCapacity, Wild      \* Array

\* NULL is no object, no key and no box.
ASSUME LibraryAssumption ==
  /\ IsFiniteSet(TableKey) /\ Null \notin TableKey
  /\ Hash \in [TableKey -> Nat] /\ MinSize \in Nat /\ TableSizes \subseteq Int
  /\ IsFiniteSet(Box) /\ Null \notin Box /\ Null \notin Object
  /\ Default \in Nat \ {0} /\ Chunk \in Nat \ {0}
  /\ ArraySizes \subseteq Int /\ Named \subseteq Int

VARIABLES
  kind,
  table, status, tAnswer,
  q, next, prev, obj, held, qAnswer,
  a, aAnswer

H == INSTANCE Htable WITH Key <- TableKey, Value <- Stored, Sizes <- TableSizes, answer <- tAnswer
F == INSTANCE Fifo WITH Obj <- Object, answer <- qAnswer
A == INSTANCE Array WITH Obj <- Thing, Sizes <- ArraySizes, answer <- aAnswer

\* Where a component may begin in several states, an idle one begins in one.
LibInit ==
  /\ kind \in Kinds
  /\ Init /\ (kind # "ring" => \A e \in Entry : parent[e] = Null)
  /\ T!Init /\ (kind # "text" => alphabet = CHOOSE x \in Alphabets : TRUE)
  /\ L!Init /\ H!Init /\ F!Init /\ A!Init /\ K!Init /\ S!Init /\ C!Init

IdleRest ==
  /\ UNCHANGED kind
  /\ IF kind = "ring" THEN TRUE ELSE UNCHANGED <<succ, pred, parent, len>>
  /\ IF kind = "local" THEN TRUE ELSE UNCHANGED <<nlocal, locals, ending, live, duty>>
  /\ IF kind = "htable" THEN TRUE ELSE UNCHANGED <<table, status, tAnswer>>
  /\ IF kind = "fifo" THEN TRUE ELSE UNCHANGED <<q, next, prev, obj, held, qAnswer>>
  /\ IF kind = "array" THEN TRUE ELSE UNCHANGED <<a, aAnswer>>
  /\ IF kind = "keys" THEN TRUE ELSE UNCHANGED <<taken, keys, listKey, slots, shows, list, used, key>>
  /\ IF kind = "select" THEN TRUE ELSE UNCHANGED <<sets, asked, fds, ret>>
  /\ IF kind = "clock" THEN TRUE ELSE UNCHANGED <<counter, offset, set, ctx, call, told>>
  /\ IF kind = "text" THEN TRUE ELSE UNCHANGED <<alphabet, size, text, octets>>

LibNext ==
  \/ kind = "ring" /\ Next /\ IdleRest
  \/ kind = "local" /\ L!Next /\ IdleRest
  \/ kind = "htable" /\ H!Next /\ IdleRest
  \/ kind = "fifo" /\ F!Next /\ IdleRest
  \/ kind = "array" /\ A!Next /\ IdleRest
  \/ kind = "keys" /\ K!Next /\ IdleRest
  \/ kind = "select" /\ S!Next /\ IdleRest
  \/ kind = "clock" /\ C!Next /\ IdleRest
  \/ kind = "text" /\ T!Next /\ IdleRest

libvars == <<kind, rvars, L!vars, H!vars, F!vars, A!vars, K!vars, S!vars, C!vars, T!vars>>

LibSpec == LibInit /\ [][LibNext]_libvars

-----------------------------------------------------------------------------
\* The properties of the components, each in the behaviours of its own; what
\* they say of the code stands where they are defined.

\* FiberLocal: an object stored with a callback is called back once, in time.
LocalKeptIsStored == kind = "local" => L!KeptIsStored

\* FiberLocal: each fiber has a map of its own.
LocalImplementsMap == L!ImplementsMap

\* Htable: a hash table is a map.
HtableImplementsMap == H!ImplementsMap

\* Htable: iteration meets every key once.
HtableVisitsAll == kind = "htable" => H!VisitsAll

\* Fifo: a queue is open at both ends and keeps its order.
FifoImplementsDeque == F!ImplementsDeque

\* Array: an array is a list of objects, with what each call frees.
ArrayImplementsList == A!ImplementsList

\* Array: deleting a range never adds an object.
ArrayRangeOnlyDeletes == A!RangeOnlyDeletes

\* ThreadKeys: what a thread finds behind a key is its own and not freed.
KeysOwned == kind = "keys" => K!ValuesAreOwned

\* SelectPoll: the entries are of the sets, and no call is refused.
SelectEntriesAreAsked == kind = "select" => S!EntriesAreAsked

\* SelectPoll: whatever is asked for has an entry.
SelectAsksForAll == kind = "select" => S!AsksForAll

\* Clock: time does not go back and is late by a day at most.
ClockReadsTheTime == C!ReadsTheTime

\* Addresses: host names are recognized, and nothing else.
TextNames == kind = "text" => T!NamesRecognized

\* Addresses: what is accepted for an IPv6 address is one.
TextIpv6Only == kind = "text" => T!Ipv6Only

\* Addresses: addresses are recognized, with a port and without, and one that
\* was printed reads back.
TextAddresses ==
  kind = "text" => T!AddressesRecognized /\ T!PortsRecognized /\ T!PrintedReadsBack

=============================================================================
