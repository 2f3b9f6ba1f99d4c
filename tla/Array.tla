------------------------------- MODULE Array --------------------------------
(* The array of pointers of array.c: count places of items are in use, the   *)
(* others, up to capacity, hold NULL or what was there before.               *)
(*                                                                          *)
(* Each call is given a free function; objects may be NULL, and NULL is not   *)
(* freed.  The places a caller names may be outside the array, as the code    *)
(* tests for.  Two calls are cases of their own (Wild): a range to delete     *)
(* that begins behind the last object, which array_delete_range does not test   *)
(* for, and an object to delete that is not in the array, which is freed       *)
(* before array_delete_obj tests for it.                                    *)
EXTENDS Integers, Sequences, SequencesExt

CONSTANTS
  Obj,        \* the objects, Null among them
  Null,       \* NULL
  Named,      \* the places a caller may name
  Sizes,      \* the sizes array_create and array_pre_append are called with
  Default,    \* the size taken for one that is not positive (100)
  Chunk,      \* the unit the array grows by (16)
  MaxCount,   \* bound: no more objects than that are put in
  MaxCapacity, \* bound: no array larger than that is asked for
  Wild        \* whether what is to be deleted may be no part of the array

VARIABLES
  a,        \* [capacity, count, items]
  answer    \* what the last call returned, and the objects it freed or showed

vars == <<a, answer>>

\* Before array_create and after array_free; no other array is without room.
NoArray == [capacity |-> 0, count |-> 0, items |-> [i \in {} |-> Null]]

Answers(r, s) == answer' = [ret |-> r, all |-> s]

Inside(p) == p >= 0 /\ p < a.count

\* The items at the places p to t.
Items(p, t) == [i \in 1..t - p + 1 |-> a.items[p + i - 1]]

\* What free_fn gets of them.
Real(s) == SelectSeq(s, LAMBDA o : o # Null)

Released(p, t) == Real(Items(p, t))

\* array_grow: to hold `least' objects, but by `least' rounded up to Chunk
\* places more than there are; the places that are not in use are cleared.
Grown(least) ==
  IF a.capacity >= least THEN a
  ELSE LET all == a.capacity + ((least + Chunk - 1) \div Chunk) * Chunk
       IN  [a EXCEPT !.capacity = all,
                     !.items = [i \in 0..all - 1 |->
                                  IF i < a.count THEN a.items[i] ELSE Null]]

\* Room for one more: array_append asks for Chunk more, an insertion for one.
WithRoom(more) == IF a.count >= a.capacity THEN Grown(a.count + more) ELSE a

\* Everything from place t to the end moves to place p.
Pulled(items, p, t) ==
  [i \in DOMAIN items |-> IF i >= p /\ i + t - p < a.count
                          THEN items[i + t - p] ELSE items[i]]

\* Mutant: the object at the end is not moved.
PushedShort(items, p, o) ==
  [i \in DOMAIN items |-> IF i = p THEN o
                          ELSE IF i > p /\ i < a.count THEN items[i - 1]
                          ELSE items[i]]

\* Everything from place p on moves up by one, and o is put there.
Pushed(items, p, o) ==
  [i \in DOMAIN items |-> IF i = p THEN o
                          ELSE IF i > p /\ i <= a.count THEN items[i - 1]
                          ELSE items[i]]

Cleared(items, p, t) ==
  [i \in DOMAIN items |-> IF i >= p /\ i <= t THEN Null ELSE items[i]]

-----------------------------------------------------------------------------
Init ==
  /\ a = NoArray
  /\ answer = [ret |-> Null, all |-> <<>>]

Create(n) ==
  LET size == IF n <= 0 THEN Default ELSE n
      all == ((size + Chunk - 1) \div Chunk) * Chunk
  IN  /\ a = NoArray
      /\ a' = [capacity |-> all, count |-> 0, items |-> [i \in 0..all - 1 |-> Null]]
      /\ Answers(Null, <<>>)

AddLast(o) ==
  /\ a # NoArray
  /\ a.count < MaxCount
  /\ a' = [WithRoom(Chunk) EXCEPT !.items[a.count] = o, !.count = @ + 1]
  /\ Answers(a.count, <<>>)

\* array_pred_insert (after = 0), array_succ_insert (after = 1), and
\* array_prepend, which inserts before place 0.
Put(p, o, after) ==
  /\ a # NoArray
  /\ a.count < MaxCount
  /\ IF Inside(p)
     THEN /\ a' = [WithRoom(1) EXCEPT !.items = Pushed(@, p + after, o),
                                      !.count = @ + 1]
          /\ Answers(p + after, <<>>)
     ELSE UNCHANGED a /\ Answers(-1, <<>>)

TakeLast ==
  /\ a # NoArray
  /\ IF a.count <= 0 THEN UNCHANGED a /\ Answers(Null, <<>>)
     ELSE /\ a' = [a EXCEPT !.count = @ - 1]
          /\ Answers(a.items[a.count - 1], <<>>)

TakeFirst ==
  /\ a # NoArray
  /\ IF a.count <= 0 THEN UNCHANGED a /\ Answers(Null, <<>>)
     ELSE /\ a' = [a EXCEPT !.items = Pulled(@, 0, 1), !.count = @ - 1]
          /\ Answers(a.items[0], <<>>)

\* array_delete_idx.
DeleteAt(p) ==
  /\ a # NoArray
  /\ IF Inside(p)
     THEN /\ a' = [a EXCEPT !.items = Pulled(Cleared(@, p, p), p, p + 1),
                            !.count = @ - 1]
          /\ Answers(0, Released(p, p))
     ELSE UNCHANGED a /\ Answers(-1, <<>>)

\* array_delete: the last object takes the place.
DeleteSwap(p) ==
  /\ a # NoArray
  /\ IF Inside(p)
     THEN /\ a' = [a EXCEPT !.items = IF a.count > 1
                                      THEN [@ EXCEPT ![p] = a.items[a.count - 1]]
                                      ELSE @,
                            !.count = @ - 1]
          /\ Answers(0, Released(p, p))
     ELSE UNCHANGED a /\ Answers(-1, <<>>)

\* array_delete_obj: the object is freed before it is known to be there.
DeleteObj(o) ==
  LET at == {p \in 0..a.count - 1 : a.items[p] = o}
  IN  /\ a # NoArray
      /\ Wild \/ at # {} \/ o = Null
      /\ IF at = {}
         THEN UNCHANGED a /\ Answers(-1, IF o = Null THEN <<>> ELSE <<o>>)
         ELSE LET p == CHOOSE p \in at : \A r \in at : p <= r
              IN  /\ a' = [a EXCEPT !.items = Pulled(Cleared(@, p, p), p, p + 1),
                                    !.count = @ - 1]
                  /\ Answers(0, Real(<<o>>))

\* array_delete_range: the end is cut to the last place, the beginning is not,
\* so that behind the last place the difference becomes negative.
DeleteRange(p, t) ==
  /\ a # NoArray
  /\ Wild \/ p < a.count \/ a.count = 0
  /\ IF p < 0 \/ t < 0 \/ a.count <= 0 \/ p > t
     THEN UNCHANGED a /\ Answers(-1, <<>>)
     ELSE LET end == IF t > a.count - 1 THEN a.count - 1 ELSE t
          IN  /\ a' = [a EXCEPT !.items = Pulled(Cleared(@, p, end), p, end + 1),
                                !.count = @ - (end - p + 1)]
              /\ Answers(0, Released(p, end))

\* array_mv_idx.
Move(p, from) ==
  /\ a # NoArray
  /\ IF p < 0 \/ from < 0 THEN UNCHANGED a /\ Answers(-1, <<>>)
     ELSE IF a.count = 0 \/ p >= from \/ from >= a.count
     THEN UNCHANGED a /\ Answers(0, <<>>)
     ELSE /\ a' = [a EXCEPT !.items = Pulled(Cleared(@, p, from - 1), p, from),
                            !.count = @ - (from - p)]
          /\ Answers(0, Released(p, from - 1))

\* What FOREACH meets: it ends where the iterator shows NULL.
Until(s) ==
  LET at == SelectInSeq(s, LAMBDA o : o = Null)
  IN  IF at = 0 THEN s ELSE SubSeq(s, 1, at - 1)

\* array_size, array_index of every place, and the iterators.
Look ==
  LET all == Items(0, a.count - 1)
      back == [i \in 1..a.count |-> a.items[a.count - i]]
  IN  /\ a # NoArray
      /\ Answers(a.count, all \o Until(all) \o Until(back))
      /\ UNCHANGED a

Clean ==
  /\ a # NoArray
  /\ a' = [a EXCEPT !.items = Cleared(@, 0, a.count - 1), !.count = 0]
  /\ Answers(0, Released(0, a.count - 1))

Free ==
  /\ a # NoArray
  /\ a' = NoArray
  /\ Answers(0, Released(0, a.count - 1))

\* array_pre_append; the process ends when n is not positive.
Reserve(n) ==
  /\ a # NoArray
  /\ n > 0
  /\ a' = IF a.count + n > a.capacity THEN Grown(a.count + n) ELSE a
  /\ a'.capacity <= MaxCapacity
  /\ Answers(Null, <<>>)

Next ==
  \/ \E n \in Sizes : Create(n) \/ Reserve(n)
  \/ \E o \in Obj : AddLast(o) \/ DeleteObj(o)
  \/ \E p \in Named : DeleteAt(p) \/ DeleteSwap(p)
  \/ \E p \in Named, o \in Obj, after \in {0, 1} : Put(p, o, after)
  \/ \E p, t \in Named : DeleteRange(p, t) \/ Move(p, t)
  \/ TakeLast \/ TakeFirst \/ Look \/ Clean \/ Free

Spec == Init /\ [][Next]_vars

-----------------------------------------------------------------------------
Abstract == INSTANCE ObjList WITH
  open <- a # NoArray, list <- Items(0, a.count - 1)

\* The array is a list: each insertion, deletion, shift and growth leaves the
\* objects a list would have, in its order, and frees those that leave it, each
\* as often as it left (array.c:8-391).  What calls with something that is no
\* part of the array do is left to the next property and to Wild.
ImplementsList == Abstract!Spec

\* Deleting a range takes objects out: the array is not longer afterwards
\* (array.h:135-144: "deletes the objects of a range of places").
RangeOnlyDeletes ==
  [][\A p, t \in Named : DeleteRange(p, t) => a'.count <= a.count]_vars

=============================================================================
