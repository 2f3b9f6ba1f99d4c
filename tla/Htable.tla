------------------------------- MODULE Htable -------------------------------
(* The hash table of htable.c, with its chains linked by pointers.          *)
(*                                                                          *)
(* There is one entry (HTABLE_INFO) per key, so an entry is named by its     *)
(* key; next and prev are its links, and a link of a freed entry is Null.    *)
(* __def_hash_fn is the constant Hash, which may map several keys to one     *)
(* number.  malloc does not fail (when it does inside htable_grow, the       *)
(* table is left with data = NULL and is not usable any more).              *)
EXTENDS Integers, Sequences, FiniteSets, Functions, SequencesExt

CONSTANTS
  Key,      \* the keys
  Value,    \* the values, other than NULL, that are stored under them
  Null,     \* NULL, no key and no value
  Hash,     \* Key -> Nat: what __def_hash_fn computes
  MinSize,  \* the smallest array a table is created with (13)
  Sizes     \* the sizes htable_create is called with

VARIABLES
  table,    \* [size, initSize, used, data, next, prev, value]
  status,   \* HTABLE.status
  answer    \* what the last call returned, and how often it freed each value

vars == <<table, status, answer>>

NoLinks == [k \in Key |-> Null]

\* There is no table: one that there is has an array, of an odd size.
NoTable == [size |-> 0, initSize |-> 0, used |-> 0, data |-> <<>>,
            next |-> NoLinks, prev |-> NoLinks, value |-> NoLinks]

\* __htable_size: an empty array; the size is made odd.
Sized(t, size) ==
  LET odd == IF size % 2 = 0 THEN size + 1 ELSE size
  IN  [t EXCEPT !.size = odd, !.used = 0, !.data = [i \in 0..odd - 1 |-> Null]]

\* The bucket of a key.
Slot(t, k) == Hash[k] % t.size

\* htable_link: the entry becomes the first of its chain.
Link(t, k) ==
  LET n == Slot(t, k)
      first == t.data[n]
  IN  [t EXCEPT !.next = [@ EXCEPT ![k] = first],
                !.prev = [e \in Key |-> IF e = k THEN Null
                                        ELSE IF e = first THEN k ELSE @[e]],
                !.data = [@ EXCEPT ![n] = k],
                !.used = @ + 1]

\* The entries reached from e along next; a chain that is closed to a ring
\* is cut after one entry more than there are keys.
Chain(t, e) ==
  LET hop[n \in 0..Cardinality(Key)] ==
        IF n = 0 THEN e
        ELSE IF hop[n - 1] = Null THEN Null ELSE t.next[hop[n - 1]]
  IN  [n \in {m \in 1..Cardinality(Key) + 1 : hop[m - 1] # Null} |-> hop[n - 1]]

\* The order of htable_list, htable_walk and of iteration from the head ...
Listed(t) == FlattenSeq([i \in 1..t.size |-> Chain(t, t.data[i - 1])])

\* ... and that of iteration from the tail: the buckets backwards, but each
\* chain forwards, since htable_iter_prev follows next as htable_iter_next does.
ListedBack(t) ==
  FlattenSeq([i \in 1..t.size |-> Chain(t, t.data[t.size - i])])

\* The entries of s linked into an array of twice the size.
Relinked(t, s) ==
  LET moved[n \in 0..Len(s)] ==
        IF n = 0 THEN Sized(t, 2 * t.size) ELSE Link(moved[n - 1], s[n])
  IN  moved[Len(s)]

\* Mutant: htable_grow leaves the first entry behind.
GrownFirstOnly(t) == Relinked(t, Tail(Listed(t)))

\* htable_grow: every entry of the old array is linked into the new one.
Grown(t) == Relinked(t, Listed(t))

\* The iterator: the bucket it is at and the entry, Null at the end.
AtBucket(t, I, first) ==
  LET full == {i \in I : t.data[i] # Null}
      at == CHOOSE i \in full : \A j \in full : IF first THEN i <= j ELSE j <= i
  IN  IF full = {} THEN [i |-> -1, ptr |-> Null] ELSE [i |-> at, ptr |-> t.data[at]]

IterHead(t) == AtBucket(t, 0..t.size - 1, TRUE)

IterTail(t) == AtBucket(t, 0..t.size - 1, FALSE)

\* Mutant: iteration leaves a chain after its first entry.
IterNextBucket(t, it) == AtBucket(t, it.i + 1..t.size - 1, TRUE)

IterNext(t, it) ==
  IF t.next[it.ptr] # Null THEN [i |-> it.i, ptr |-> t.next[it.ptr]]
  ELSE AtBucket(t, it.i + 1..t.size - 1, TRUE)

IterPrev(t, it) ==
  IF t.next[it.ptr] # Null THEN [i |-> it.i, ptr |-> t.next[it.ptr]]
  ELSE AtBucket(t, 0..it.i - 1, FALSE)

\* htable_locate: the entry of a key, looked for in the key's own chain only.
Locate(t, k) ==
  IF k \in Range(Chain(t, t.data[Slot(t, k)])) THEN k ELSE Null

\* The heads of the chains without an entry.
HeadsWithout(t, k) ==
  IF t.prev[k] # Null THEN t.data ELSE [t.data EXCEPT ![Slot(t, k)] = t.next[k]]

\* htable_delete_entry: out of the chain; only the head of the chain is known
\* by the array, the others by the entry before them.
Unlink(t, k) ==
  LET after == t.next[k]
      before == t.prev[k]
  IN  [t EXCEPT !.next = [e \in Key |-> IF e = k THEN Null
                                        ELSE IF e = before THEN after ELSE @[e]],
                !.prev = [e \in Key |-> IF e = k THEN Null
                                        ELSE IF e = after THEN before ELSE @[e]],
                !.data = HeadsWithout(t, k),
                !.used = @ - 1]

\* How often free_fn gets each value when the entries of s are freed.
Away(t, s) ==
  [v \in Value |-> Cardinality({i \in DOMAIN s : t.value[s[i]] = v})]

Nothing == [ret |-> 0, freed |-> [v \in Value |-> 0]]

Returns(r) == answer' = [Nothing EXCEPT !.ret = r]

\* The size that htable_create and htable_reset ask for.
Wanted(size) == IF size < MinSize THEN MinSize ELSE size

NewTable(size) == Sized([NoTable EXCEPT !.initSize = size], Wanted(size))

-----------------------------------------------------------------------------
Init ==
  /\ table = NoTable
  /\ status = "OK"
  /\ answer = Nothing

Create(size) ==
  /\ table = NoTable
  /\ table' = NewTable(size)
  /\ status' = "OK"
  /\ answer' = Nothing

\* The table grows before the key is looked for, so a duplicate may grow it.
Enter(k, v) ==
  /\ table # NoTable
  /\ LET t == IF table.used >= table.size THEN Grown(table) ELSE table
     IN  IF Locate(t, k) # Null
         THEN table' = t /\ status' = "DUPLEX_KEY" /\ Returns(t.value[k])
         ELSE table' = Link([t EXCEPT !.value[k] = v], k)
              /\ status' = "OK" /\ Returns(v)

Find(k) ==
  /\ table # NoTable
  /\ Returns(IF Locate(table, k) # Null THEN table.value[k] ELSE Null)
  /\ UNCHANGED <<table, status>>

Delete(k) ==
  /\ table # NoTable
  /\ IF Locate(table, k) = Null
     THEN Returns(-1) /\ UNCHANGED table
     ELSE table' = [Unlink(table, k) EXCEPT !.value[k] = Null]
          /\ answer' = [ret |-> 0, freed |-> Away(table, <<k>>)]
  /\ UNCHANGED status

\* htable_reset: back to the size the table was created with.
Reset ==
  /\ table # NoTable
  /\ answer' = [ret |-> 0, freed |-> Away(table, Listed(table))]
  /\ table' = NewTable(table.initSize)
  /\ UNCHANGED status

Free ==
  /\ table # NoTable
  /\ answer' = [ret |-> 0, freed |-> Away(table, Listed(table))]
  /\ table' = NoTable
  /\ UNCHANGED status

Next ==
  \/ \E size \in Sizes : Create(size)
  \/ \E k \in Key, v \in Value \cup {Null} : Enter(k, v)
  \/ \E k \in Key : Find(k) \/ Delete(k)
  \/ Reset \/ Free

Spec == Init /\ [][Next]_vars

-----------------------------------------------------------------------------
\* The keys that htable_find finds.
Found == IF table = NoTable THEN {} ELSE {k \in Key : Locate(table, k) # Null}

Abstract == INSTANCE KeyMap WITH
  open <- table # NoTable,
  map <- [k \in Found |-> table.value[k]]

\* The table is a map: whatever was entered, deleted and moved to a larger
\* array before, each call finds, adds and takes out what a map would, and
\* every value is freed once (htable.c:182-207, 253-414).
ImplementsMap == Abstract!Spec

\* The entries an iteration meets, from `from' by `step', and one more.
Visits(from(_), step(_, _)) ==
  LET it[n \in 0..Cardinality(Key)] ==
        IF n = 0 THEN from(table)
        ELSE IF it[n - 1].ptr = Null THEN it[n - 1] ELSE step(table, it[n - 1])
  IN  [n \in {m \in 1..Cardinality(Key) + 1 : it[m - 1].ptr # Null} |-> it[n - 1].ptr]

\* Iterating from either end meets every key that can be found once, and
\* nothing else, and used counts them (htable.c:6-131, 436-468).
VisitsAll ==
  table # NoTable =>
    /\ Visits(IterHead, IterNext) = Listed(table)
    /\ Visits(IterTail, IterPrev) = ListedBack(table)
    /\ \A s \in {Listed(table), ListedBack(table)} :
         /\ IsInjective(s)
         /\ Range(s) = Found
         /\ Len(s) = table.used

=============================================================================
