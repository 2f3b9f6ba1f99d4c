------------------------------- MODULE KeyMap -------------------------------
(* What a hash table promises: a map from keys to values, and an answer to   *)
(* each call.  A key is entered once, the first value stays, the caller is   *)
(* told of a duplicate through the status, and each value taken out of the   *)
(* map is given to the caller's free function exactly once.                  *)
EXTENDS FiniteSets, Functions, Integers

CONSTANTS Key, Value, Null

VARIABLES
  open,     \* a table has been created and not been freed
  map,      \* keys of the table -> values (Null is a value as any other)
  status,   \* "OK" or "DUPLEX_KEY": what the last call of enter found
  answer    \* what the last call gave back or gave away

vars == <<open, map, status, answer>>

\* How often each value is given to the free function when K leaves the map.
Away(K) == [v \in Value |-> Cardinality({k \in K : map[k] = v})]

Nothing == [ret |-> 0, freed |-> [v \in Value |-> 0]]

Returns(r) == answer' = [Nothing EXCEPT !.ret = r]

Init ==
  /\ open = FALSE
  /\ map = <<>>
  /\ status = "OK"
  /\ answer = Nothing

Create ==
  /\ ~open
  /\ open' = TRUE
  /\ map' = <<>>
  /\ status' = "OK"
  /\ answer' = Nothing

Enter(k, v) ==
  /\ open
  /\ IF k \in DOMAIN map
     THEN map' = map /\ status' = "DUPLEX_KEY"
     ELSE map' = [x \in DOMAIN map \cup {k} |-> IF x = k THEN v ELSE map[x]]
          /\ status' = "OK"
  /\ Returns(map'[k])
  /\ UNCHANGED open

Find(k) ==
  /\ open
  /\ Returns(IF k \in DOMAIN map THEN map[k] ELSE Null)
  /\ UNCHANGED <<open, map, status>>

Delete(k) ==
  /\ open
  /\ answer' = [ret |-> IF k \in DOMAIN map THEN 0 ELSE -1,
                freed |-> Away({k} \cap DOMAIN map)]
  /\ map' = Restrict(map, DOMAIN map \ {k})
  /\ UNCHANGED <<open, status>>

Reset ==
  /\ open
  /\ answer' = [ret |-> 0, freed |-> Away(DOMAIN map)]
  /\ map' = <<>>
  /\ UNCHANGED <<open, status>>

Free ==
  /\ open
  /\ open' = FALSE
  /\ answer' = [ret |-> 0, freed |-> Away(DOMAIN map)]
  /\ map' = <<>>
  /\ UNCHANGED status

Next ==
  \/ Create \/ Reset \/ Free
  \/ \E k \in Key, v \in Value \cup {Null} : Enter(k, v)
  \/ \E k \in Key : Find(k) \/ Delete(k)

Spec == Init /\ [][Next]_vars

=============================================================================
