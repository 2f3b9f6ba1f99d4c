-------------------------------- MODULE Ring --------------------------------
(***************************************************************************)
(* The rings of circle.c, pointer by pointer: heads and entries are nodes  *)
(* of the same type, with the pointers succ, pred and parent and a length  *)
(* that only a head uses.  RingSeq has what the rings hold.                *)
(***************************************************************************)
EXTENDS Integers, FiniteSets, RingSeq

CONSTANTS
  Heads,  \* the rings: THREAD.ready, THREAD.dead, THREAD.ev_timer, EVENT.events
  Entry,  \* what is linked: CT_CORTHREAD.me, FILE_EVENT.me
  Null    \* the null pointer

ASSUME RingAssumption ==
  /\ Heads \cap Entry = {}
  /\ Null \notin Heads \cup Entry

VARIABLES succ, pred, parent, len

rvars == <<succ, pred, parent, len>>

Node == Heads \cup Entry

\* ring_init was called for the heads and, by file_event_alloc, for some of the
\* entries; calloc left null pointers in the others.
Init ==
  \E initialized \in SUBSET Entry :
    LET self == [n \in Node |-> IF n \in Heads \cup initialized THEN n ELSE Null]
    IN  /\ succ = self /\ pred = self /\ parent = self
        /\ len = [n \in Node |-> 0]

\* The callers link an entry only if it is in no ring; Unlinked is what they know.
Unlinked(e) == parent[e] \in {Null, e}

\* The place behind which ring_append links: a head or, in ct_corthread_delay, an
\* entry.
Place(at) == at \in Heads \/ ~Unlinked(at)

\* Mutant: at the other end, as the comment of circle.h has it.
LinkAtTail(at, e) ==
  /\ Place(at) /\ Unlinked(e)
  /\ pred' = [pred EXCEPT ![e] = pred[at], ![at] = e]
  /\ succ' = [succ EXCEPT ![e] = at, ![pred[at]] = e]
  /\ parent' = [parent EXCEPT ![e] = parent[at]]
  /\ len' = [len EXCEPT ![parent[at]] = @ + 1]

\* ring_append(at, e).
LinkBehind(at, e) ==
  /\ Place(at) /\ Unlinked(e)
  /\ succ' = [succ EXCEPT ![e] = succ[at], ![at] = e]
  /\ pred' = [pred EXCEPT ![e] = at, ![succ[at]] = e]
  /\ parent' = [parent EXCEPT ![e] = parent[at]]
  /\ len' = [len EXCEPT ![parent[at]] = @ + 1]

\* ring_prepend(h, e): in front of the head, which is the far end.
LinkBefore(h, e) ==
  /\ Unlinked(e)
  /\ pred' = [pred EXCEPT ![e] = pred[h], ![h] = e]
  /\ succ' = [succ EXCEPT ![e] = h, ![pred[h]] = e]
  /\ parent' = [parent EXCEPT ![e] = parent[h]]
  /\ len' = [len EXCEPT ![parent[h]] = @ + 1]

\* ring_detach(e); an entry that is in no ring, or was never in one, is left alone.
Detach(e) ==
  IF parent[e] = e \/ succ[e] = Null \/ pred[e] = Null
    THEN UNCHANGED rvars
    ELSE /\ succ' = [succ EXCEPT ![pred[e]] = succ[e], ![e] = e]
         /\ pred' = [pred EXCEPT ![succ[e]] = pred[e], ![e] = e]
         /\ parent' = [parent EXCEPT ![e] = e]
         /\ len' = [len EXCEPT ![parent[e]] = @ - 1, ![e] = 0]

\* ring_pop_head and ring_pop_tail; an empty ring yields NULL.
PopHead(h) == succ[h] # h /\ Detach(succ[h])
PopTail(h) == pred[h] # h /\ Detach(pred[h])

Next ==
  \/ \E e \in Entry : Detach(e) \/ \E at \in Node : LinkBehind(at, e)
  \/ \E h \in Heads : PopHead(h) \/ PopTail(h) \/ \E e \in Entry : LinkBefore(h, e)

Spec == Init /\ [][Next]_rvars

-----------------------------------------------------------------------------

TypeOK ==
  /\ succ \in [Node -> Node \cup {Null}] /\ pred \in [Node -> Node \cup {Null}]
  /\ parent \in [Node -> Heads \cup Entry \cup {Null}]
  /\ len \in [Node -> Nat]

\* What ring_foreach meets from h on, as far as ring_size says.
Contents(h) ==
  LET at[k \in 0 .. len[h]] == IF k = 0 THEN h ELSE succ[at[k - 1]]
  IN  [k \in 1 .. len[h] |-> at[k]]

\* succ and pred are inverse to one another.
Closed == \A n \in Node : succ[n] # Null => pred[succ[n]] = n /\ succ[pred[n]] = n

Others(h) == \A k \in Heads \ {h} : UNCHANGED Contents(k)

\* The pointers implement RingSeq: each call does to the sequence of the entries
\* what its operator says, and nothing to the other rings.
ImplementsRingSeq ==
  [][ \A e \in Entry, h \in Heads :
        /\ LinkBehind(h, e) => Contents(h)' = RingAppend(Contents(h), e) /\ Others(h)
        /\ LinkBefore(h, e) => Contents(h)' = RingPrepend(Contents(h), e) /\ Others(h)
        /\ \A i \in DOMAIN Contents(h) :
             LinkBehind(Contents(h)[i], e) =>
               Contents(h)' = InsertAt(Contents(h), i + 1, e) /\ Others(h)
        /\ Detach(e) => Contents(h)' = RingDetach(Contents(h), e)
        /\ PopHead(h) => Contents(h)' = Tail(Contents(h)) /\ Others(h)
        /\ PopTail(h) => Contents(h)' = Front(Contents(h)) /\ Others(h) ]_rvars

=============================================================================
