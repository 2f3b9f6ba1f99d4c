------------------------------- MODULE Deque --------------------------------
(* What a FIFO promises: a sequence of boxes (FIFO_INFO) with one object in  *)
(* each, open at both ends, from which a box may also be taken out in the    *)
(* middle; and an answer to every call.  A box taken with fifo_pop_info      *)
(* belongs to the caller until it is pushed again.                           *)
EXTENDS Integers, Sequences, FiniteSets, Functions, SequencesExt

CONSTANTS Box, Obj, Null

VARIABLES
  open,     \* a queue has been made and not been freed
  queue,    \* its boxes from head to tail
  obj,      \* the object in each box that is allocated, Null in the others
  held,     \* the boxes that belong to the caller
  answer    \* what the last call returned, and the objects it showed or freed

vars == <<open, queue, obj, held, answer>>

Objects == [i \in DOMAIN queue |-> obj[queue[i]]]

\* malloc: any box that is not in use.
Fresh == Box \ (Range(queue) \cup held)

Answers(r, s) == answer' = [ret |-> r, all |-> s]

Init ==
  /\ open = FALSE
  /\ queue = <<>>
  /\ obj = [b \in Box |-> Null]
  /\ held = {}
  /\ answer = [ret |-> Null, all |-> <<>>]

New ==
  /\ ~open
  /\ open' = TRUE
  /\ Answers(Null, <<>>)
  /\ UNCHANGED <<queue, obj, held>>

PushBack(b, o) ==
  /\ open
  /\ b \in Fresh
  /\ queue' = Append(queue, b)
  /\ obj' = [obj EXCEPT ![b] = o]
  /\ Answers(b, <<>>)
  /\ UNCHANGED <<open, held>>

PushFront(b, o) ==
  /\ open
  /\ b \in Fresh
  /\ queue' = <<b>> \o queue
  /\ obj' = [obj EXCEPT ![b] = o]
  /\ Answers(b, <<>>)
  /\ UNCHANGED <<open, held>>

\* The box at place i leaves the queue and is freed.
TakeOut(i) ==
  /\ queue' = RemoveAt(queue, i)
  /\ obj' = [obj EXCEPT ![queue[i]] = Null]

PopFront ==
  /\ open
  /\ IF queue = <<>> THEN Answers(Null, <<>>) /\ UNCHANGED <<queue, obj>>
     ELSE TakeOut(1) /\ Answers(obj[Head(queue)], <<>>)
  /\ UNCHANGED <<open, held>>

PopBack ==
  /\ open
  /\ IF queue = <<>> THEN Answers(Null, <<>>) /\ UNCHANGED <<queue, obj>>
     ELSE TakeOut(Len(queue)) /\ Answers(obj[Last(queue)], <<>>)
  /\ UNCHANGED <<open, held>>

\* The first box with the object is freed.
Delete(o) ==
  LET at == {i \in DOMAIN queue : obj[queue[i]] = o}
  IN  /\ open
      /\ IF at = {} THEN Answers(0, <<>>) /\ UNCHANGED <<queue, obj>>
         ELSE Answers(1, <<>>) /\ \E i \in at : (\A j \in at : i <= j) /\ TakeOut(i)
      /\ UNCHANGED <<open, held>>

PopInfo ==
  /\ open
  /\ IF queue = <<>> THEN Answers(Null, <<>>) /\ UNCHANGED <<queue, held>>
     ELSE /\ Answers(Head(queue), <<>>)
          /\ queue' = Tail(queue)
          /\ held' = held \cup {Head(queue)}
  /\ UNCHANGED <<open, obj>>

PushInfo(b) ==
  /\ open
  /\ b \in held
  /\ queue' = Append(queue, b)
  /\ held' = held \ {b}
  /\ Answers(Null, <<>>)
  /\ UNCHANGED <<open, obj>>

DeleteInfo(b) ==
  /\ open
  /\ \E i \in DOMAIN queue : queue[i] = b /\ TakeOut(i)
  /\ Answers(Null, <<>>)
  /\ UNCHANGED <<open, held>>

\* Both ends, the size, and both directions of iteration.
Look ==
  /\ open
  /\ LET ends == IF queue = <<>> THEN <<>>
                 ELSE <<obj[Head(queue)], obj[Last(queue)]>>
     IN  Answers(Len(queue), ends \o Objects \o Reverse(Objects))
  /\ UNCHANGED <<open, queue, obj, held>>

\* Every object goes to the caller's free function, from the head on.
Free ==
  /\ open
  /\ open' = FALSE
  /\ Answers(0, Objects)
  /\ queue' = <<>>
  /\ obj' = [b \in Box |-> IF b \in held THEN obj[b] ELSE Null]
  /\ UNCHANGED held

Next ==
  \/ New \/ PopFront \/ PopBack \/ PopInfo \/ Look \/ Free
  \/ \E b \in Box, o \in Obj : PushBack(b, o) \/ PushFront(b, o)
  \/ \E o \in Obj : Delete(o)
  \/ \E b \in Box : PushInfo(b) \/ DeleteInfo(b)

Spec == Init /\ [][Next]_vars

=============================================================================
