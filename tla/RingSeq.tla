------------------------------ MODULE RingSeq ------------------------------
(***************************************************************************)
(* The RING of circle.c seen from outside: the sequence of the entries met *)
(* when one follows succ from the ring's head.  r[1] is ring_succ(head),   *)
(* the entry ring_pop_head takes, and r[Len(r)] is ring_pred(head).        *)
(*                                                                         *)
(* The names are the source's.  Note the orientation: ring_append links    *)
(* the entry right BEHIND the ring's head, so the next ring_pop_head       *)
(* returns it; ring_prepend links it in front of the head, at the far end. *)
(* Module Ring has the pointers and is shown to implement these operators. *)
(***************************************************************************)
EXTENDS SequencesExt

\* No entry occurs twice.  circle.c never unlinks an entry it is given, so this
\* is what every caller has to preserve.
Distinct(r) == \A i, j \in DOMAIN r : r[i] = r[j] => i = j

\* ring_append(head, e): e->succ = head->succ.
RingAppend(r, e) == <<e>> \o r

\* Mutant: linked at the other end.
PrependAtHead(r, e) == <<e>> \o r

\* ring_prepend(head, e): e->pred = head->pred.
RingPrepend(r, e) == Append(r, e)

\* Mutant: nothing is unlinked.
DetachNothing(r, e) == r

\* ring_detach(e) when e can only be linked in r: nothing happens otherwise
\* (an unlinked entry is its own parent).
RingDetach(r, e) ==
  IF e \in ToSet(r) THEN RemoveAt(r, CHOOSE i \in DOMAIN r : r[i] = e) ELSE r

\* ring_pop_head is Head(r) and leaves Tail(r).

=============================================================================
