-------------------------------- MODULE Fifo --------------------------------
(* The queue of pointers of fifo.c: boxes (FIFO_INFO) linked both ways, the  *)
(* two ends and a count that every call keeps by itself.                    *)
(*                                                                          *)
(* The links of a box are left as they are when it is taken out, as in the   *)
(* code, and set when it is put in.  The objects are not NULL: with a NULL    *)
(* among them fifo_free would stop at it.                                    *)
EXTENDS Integers, Sequences, FiniteSets, SequencesExt

CONSTANTS Box, Obj, Null   \* Null is no box and no object

VARIABLES
  q,        \* [open, head, tail, cnt]
  next,     \* FIFO_INFO.next
  prev,     \* FIFO_INFO.prev
  obj,      \* FIFO_INFO.data, Null in a box that is not allocated
  held,     \* boxes handed out by fifo_pop_info
  answer    \* what the last call returned, and the objects it showed or freed

vars == <<q, next, prev, obj, held, answer>>

\* The boxes from b along a link, as far as it leads; a ring is cut after more
\* boxes than there are.
Along(link, b) ==
  LET hop[n \in 0..Cardinality(Box)] ==
        IF n = 0 THEN b
        ELSE IF hop[n - 1] = Null THEN Null ELSE link[hop[n - 1]]
  IN  [n \in {m \in 1..Cardinality(Box) + 1 : hop[m - 1] # Null} |-> hop[n - 1]]

\* The objects that iteration from the head and from the tail meets.
Forward == [i \in DOMAIN Along(next, q.head) |-> obj[Along(next, q.head)[i]]]

Backward == [i \in DOMAIN Along(prev, q.tail) |-> obj[Along(prev, q.tail)[i]]]

Allocated == {b \in Box : obj[b] # Null}

Answers(r, s) == answer' = [ret |-> r, all |-> s]

Init ==
  /\ q = [open |-> FALSE, head |-> Null, tail |-> Null, cnt |-> 0]
  /\ next = [b \in Box |-> Null]
  /\ prev = [b \in Box |-> Null]
  /\ obj = [b \in Box |-> Null]
  /\ held = {}
  /\ answer = [ret |-> Null, all |-> <<>>]

New ==
  /\ ~q.open
  /\ q' = [open |-> TRUE, head |-> Null, tail |-> Null, cnt |-> 0]
  /\ Answers(Null, <<>>)
  /\ UNCHANGED <<next, prev, obj, held>>

\* The only box of the queue.
LinkAlone(b) ==
  /\ next' = [next EXCEPT ![b] = Null]
  /\ prev' = [prev EXCEPT ![b] = Null]
  /\ q' = [q EXCEPT !.head = b, !.tail = b, !.cnt = @ + 1]

LinkBack(b) ==
  IF q.tail = Null THEN LinkAlone(b)
  ELSE /\ next' = [next EXCEPT ![q.tail] = b, ![b] = Null]
       /\ prev' = [prev EXCEPT ![b] = q.tail]
       /\ q' = [q EXCEPT !.tail = b, !.cnt = @ + 1]

LinkFront(b) ==
  IF q.head = Null THEN LinkAlone(b)
  ELSE /\ next' = [next EXCEPT ![b] = q.head]
       /\ prev' = [prev EXCEPT ![q.head] = b, ![b] = Null]
       /\ q' = [q EXCEPT !.head = b, !.cnt = @ + 1]

PushBack(b, o) ==
  /\ q.open
  /\ b \notin Allocated
  /\ LinkBack(b)
  /\ obj' = [obj EXCEPT ![b] = o]
  /\ Answers(b, <<>>)
  /\ UNCHANGED held

PushFront(b, o) ==
  /\ q.open
  /\ b \notin Allocated
  /\ LinkFront(b)
  /\ obj' = [obj EXCEPT ![b] = o]
  /\ Answers(b, <<>>)
  /\ UNCHANGED held

PushInfo(b) ==
  /\ q.open
  /\ b \in held
  /\ LinkBack(b)
  /\ held' = held \ {b}
  /\ Answers(Null, <<>>)
  /\ UNCHANGED obj

\* The queue without its first box; a box that follows loses its prev.
HeadOff ==
  LET after == next[q.head]
  IN  IF after # Null
      THEN /\ prev' = [prev EXCEPT ![after] = Null]
           /\ q' = [q EXCEPT !.head = after, !.cnt = @ - 1]
      ELSE /\ q' = [q EXCEPT !.head = Null, !.tail = Null, !.cnt = @ - 1]
           /\ UNCHANGED prev

TailOff ==
  LET before == prev[q.tail]
  IN  IF before # Null
      THEN /\ next' = [next EXCEPT ![before] = Null]
           /\ q' = [q EXCEPT !.tail = before, !.cnt = @ - 1]
      ELSE /\ q' = [q EXCEPT !.head = Null, !.tail = Null, !.cnt = @ - 1]
           /\ UNCHANGED next

PopFront ==
  /\ q.open
  /\ IF q.head = Null
     THEN Answers(Null, <<>>) /\ UNCHANGED <<q, prev, obj>>
     ELSE HeadOff /\ Answers(obj[q.head], <<>>) /\ obj' = [obj EXCEPT ![q.head] = Null]
  /\ UNCHANGED <<next, held>>

PopBack ==
  /\ q.open
  /\ IF q.tail = Null
     THEN Answers(Null, <<>>) /\ UNCHANGED <<q, next, obj>>
     ELSE TailOff /\ Answers(obj[q.tail], <<>>) /\ obj' = [obj EXCEPT ![q.tail] = Null]
  /\ UNCHANGED <<prev, held>>

PopInfo ==
  /\ q.open
  /\ IF q.head = Null
     THEN Answers(Null, <<>>) /\ UNCHANGED <<q, prev, held>>
     ELSE HeadOff /\ Answers(q.head, <<>>) /\ held' = held \cup {q.head}
  /\ UNCHANGED <<next, obj>>

\* Mutant: the tail is left at the box that is taken out.
TailKept(b) == q.tail

\* The tail of the queue without a box.
TailWithout(b) == IF next[b] = Null THEN prev[b] ELSE q.tail

\* A box leaves its neighbours, or the end it is at, and is freed.
Unlink(b) ==
  /\ q' = [q EXCEPT !.head = IF prev[b] = Null THEN next[b] ELSE @,
                    !.tail = TailWithout(b),
                    !.cnt = @ - 1]
  /\ next' = [x \in Box |-> IF x = prev[b] THEN next[b] ELSE next[x]]
  /\ prev' = [x \in Box |-> IF x = next[b] THEN prev[b] ELSE prev[x]]
  /\ obj' = [obj EXCEPT ![b] = Null]

\* fifo_delete: the first box with the object.
Delete(o) ==
  LET b == SelectInSeq(Forward, LAMBDA x : x = o)
  IN  /\ q.open
      /\ IF b = 0
         THEN Answers(0, <<>>) /\ UNCHANGED <<q, next, prev, obj>>
         ELSE Answers(1, <<>>) /\ Unlink(Along(next, q.head)[b])
      /\ UNCHANGED held

\* fifo_delete_info, which the caller uses for a box that is in the queue.
DeleteInfo(b) ==
  /\ q.open
  /\ b \in Allocated \ held
  /\ Unlink(b)
  /\ Answers(Null, <<>>)
  /\ UNCHANGED held

\* fifo_head, fifo_tail, fifo_size and the iterators.
Look ==
  /\ q.open
  /\ LET ends == IF q.head = Null THEN <<>> ELSE <<obj[q.head], obj[q.tail]>>
     IN  Answers(q.cnt, ends \o Forward \o Backward)
  /\ UNCHANGED <<q, next, prev, obj, held>>

\* fifo_free and fifo_free2 pop from the head until the queue is empty.
Free ==
  /\ q.open
  /\ q' = [open |-> FALSE, head |-> Null, tail |-> Null, cnt |-> 0]
  /\ obj' = [b \in Box |-> IF b \in held THEN obj[b] ELSE Null]
  /\ Answers(0, Forward)
  /\ UNCHANGED <<next, prev, held>>

Next ==
  \/ New \/ PopFront \/ PopBack \/ PopInfo \/ Look \/ Free
  \/ \E b \in Box, o \in Obj : PushBack(b, o) \/ PushFront(b, o)
  \/ \E o \in Obj : Delete(o)
  \/ \E b \in Box : PushInfo(b) \/ DeleteInfo(b)

Spec == Init /\ [][Next]_vars

-----------------------------------------------------------------------------
Abstract == INSTANCE Deque WITH open <- q.open, queue <- Along(next, q.head)

\* The links, the ends and the count are one queue: boxes put in at either
\* end, popped, handed out, put back and taken out of the middle in any order
\* leave what a sequence would, read from either end (fifo.c:5-349).
ImplementsDeque == Abstract!Spec

=============================================================================
