------------------------------ MODULE FiberMap ------------------------------
(***************************************************************************)
(* What fiber-local data promise: every fiber has a value of its own for   *)
(* each key, no value when it starts, and nobody else changes it.          *)
(***************************************************************************)
CONSTANTS
  Fiber,  \* the fibers
  Key,    \* the keys
  Value,  \* what is stored
  Null    \* no value

VARIABLES
  map,    \* the value each fiber has for each key
  ending  \* the fibers whose function has returned

mvars == <<map, ending>>

Init ==
  /\ map = [f \in Fiber |-> [k \in Key |-> Null]]
  /\ ending = {}

Set(f, k, v) ==
  /\ f \notin ending
  /\ map' = [map EXCEPT ![f][k] = v]
  /\ UNCHANGED ending

Return(f) == ending' = ending \cup {f} /\ UNCHANGED map

\* Values are given back at the end of the fiber and not before.
Clear(f, k) ==
  /\ f \in ending
  /\ map' = [map EXCEPT ![f][k] = Null]
  /\ UNCHANGED ending

\* The next fiber of that struct starts with nothing.
End(f) ==
  /\ \A k \in Key : map[f][k] = Null
  /\ ending' = ending \ {f}
  /\ UNCHANGED map

Next ==
  \E f \in Fiber :
    \/ Return(f) \/ End(f)
    \/ \E k \in Key : Clear(f, k) \/ \E v \in Value : Set(f, k, v)

Spec == Init /\ [][Next]_mvars

=============================================================================
