------------------------------ MODULE ObjList -------------------------------
(* What an array of pointers promises: a list of objects, NULL among them,   *)
(* and an answer to every call.  Places are counted from 0.  A call that is   *)
(* refused answers -1, frees nothing and changes nothing; objects that leave   *)
(* the list with a free function are given to it in their order.              *)
EXTENDS Integers, Sequences, FiniteSets, Functions, SequencesExt

CONSTANTS
  Obj,      \* the objects, Null among them
  Null,
  Named     \* the places a caller may name

VARIABLES
  open,     \* an array has been created and not been freed
  list,     \* its objects
  answer    \* what the last call returned, and the objects it freed or showed

vars == <<open, list, answer>>

Answers(r, s) == answer' = [ret |-> r, all |-> s]

Real(s) == SelectSeq(s, LAMBDA o : o # Null)

\* The objects that FOREACH meets: it ends at the first NULL.
Until(s) ==
  LET at == SelectInSeq(s, LAMBDA o : o = Null)
  IN  IF at = 0 THEN s ELSE SubSeq(s, 1, at - 1)

\* The part of the list from place p up to and with place t.
Part(p, t) == SubSeq(list, p + 1, IF t < Len(list) THEN t + 1 ELSE Len(list))

Inside(p) == p \in 0..Len(list) - 1

Init ==
  /\ open = FALSE
  /\ list = <<>>
  /\ answer = [ret |-> Null, all |-> <<>>]

Create ==
  /\ ~open
  /\ open' = TRUE
  /\ list' = <<>>
  /\ Answers(Null, <<>>)

AddLast(o) ==
  /\ open
  /\ list' = Append(list, o)
  /\ Answers(Len(list), <<>>)
  /\ UNCHANGED open

\* Before a place, and after one; there is no place in an empty list.  What is
\* not negative is success: array.h:81-97 has 0 for it, the code the place.
Put(p, o, after) ==
  /\ open
  /\ IF Inside(p)
     THEN list' = InsertAt(list, p + 1 + after, o) /\ answer' \in [ret : Nat, all : {<<>>}]
     ELSE UNCHANGED list /\ Answers(-1, <<>>)
  /\ UNCHANGED open

TakeLast ==
  /\ open
  /\ IF list = <<>> THEN UNCHANGED list /\ Answers(Null, <<>>)
     ELSE list' = Front(list) /\ Answers(Last(list), <<>>)
  /\ UNCHANGED open

TakeFirst ==
  /\ open
  /\ IF list = <<>> THEN UNCHANGED list /\ Answers(Null, <<>>)
     ELSE list' = Tail(list) /\ Answers(Head(list), <<>>)
  /\ UNCHANGED open

DeleteAt(p) ==
  /\ open
  /\ IF Inside(p)
     THEN list' = RemoveAt(list, p + 1) /\ Answers(0, Real(<<list[p + 1]>>))
     ELSE UNCHANGED list /\ Answers(-1, <<>>)
  /\ UNCHANGED open

\* The last object takes the place.
DeleteSwap(p) ==
  /\ open
  /\ IF Inside(p)
     THEN /\ list' = Front([list EXCEPT ![p + 1] = Last(list)])
          /\ Answers(0, Real(<<list[p + 1]>>))
     ELSE UNCHANGED list /\ Answers(-1, <<>>)
  /\ UNCHANGED open

\* The first of the objects that are the one named.
DeleteObj(o) ==
  LET at == SelectInSeq(list, LAMBDA x : x = o)
  IN  /\ open
      /\ IF at = 0 THEN UNCHANGED list /\ Answers(-1, <<>>)
         ELSE list' = RemoveAt(list, at) /\ Answers(0, Real(<<o>>))
      /\ UNCHANGED open

\* The places p to t, those that there are.
DeleteRange(p, t) ==
  /\ open
  /\ IF 0 <= p /\ p <= t /\ list # <<>>
     THEN /\ list' = Part(0, p - 1) \o Part(t + 1, Len(list))
          /\ Answers(0, Real(Part(p, t)))
     ELSE UNCHANGED list /\ Answers(-1, <<>>)
  /\ UNCHANGED open

\* What is at `from' and behind moves to p, over the objects in between.
Move(p, from) ==
  /\ open
  /\ IF p >= 0 /\ from >= 0
     THEN IF p < from /\ Inside(from)
          THEN /\ list' = Part(0, p - 1) \o Part(from, Len(list))
               /\ Answers(0, Real(Part(p, from - 1)))
          ELSE UNCHANGED list /\ Answers(0, <<>>)
     ELSE UNCHANGED list /\ Answers(-1, <<>>)
  /\ UNCHANGED open

\* The size, each object by its place, and both directions of iteration.
Look ==
  /\ open
  /\ Answers(Len(list), list \o Until(list) \o Until(Reverse(list)))
  /\ UNCHANGED <<open, list>>

Clean ==
  /\ open
  /\ list' = <<>>
  /\ Answers(0, Real(list))
  /\ open' \in BOOLEAN

Reserve ==
  /\ open
  /\ Answers(Null, <<>>)
  /\ UNCHANGED <<open, list>>

Next ==
  \/ Create \/ TakeLast \/ TakeFirst \/ Look \/ Clean \/ Reserve
  \/ \E o \in Obj : AddLast(o) \/ DeleteObj(o)
  \/ \E p \in Named : DeleteAt(p) \/ DeleteSwap(p)
  \/ \E p \in Named, o \in Obj, after \in {0, 1} : Put(p, o, after)
  \/ \E p, t \in Named : DeleteRange(p, t) \/ Move(p, t)

Spec == Init /\ [][Next]_vars

=============================================================================
