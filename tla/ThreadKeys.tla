----------------------------- MODULE ThreadKeys -----------------------------
(* Thread-specific data as pthread_patch.c builds them on the TLS slots of     *)
(* Windows, and their use by last_serror and gettimeofday.                    *)
(*                                                                          *)
(* Each thread has a slot per index of the system and, in the slot of          *)
(* listKey, a list of records with the values it has set; the list is the       *)
(* only way to a destructor.  TlsSetValue may fail, for the list and for a       *)
(* value.  pthread_once is atomic here (HookOnce has it in steps), and so is     *)
(* the registration of a key: no two threads have the same index.  The text of   *)
(* the message of a failure is asked of last_serror: a Buffer of its own.        *)
EXTENDS Integers, Sequences

CONSTANTS
  Thread,
  User,       \* the modules that keep a buffer per thread behind one key
  Strict,     \* those that end the process when the key or the value cannot be
              \* had: last_serror and the schedulers, but not gettimeofday
  Value,      \* memory for values
  Null,
  TlsMax,     \* the indices that TlsAlloc has
  KeysMax,    \* PTHREAD_KEYS_MAX
  ListMax     \* bound: the records a thread's list may have

Index == 0..TlsMax - 1
None == -1                 \* TLS_OUT_OF_INDEXES

VARIABLES
  taken,    \* the indices that TlsAlloc has given out
  keys,     \* __tls_key_list: for each place its key and whether its
            \* destructor frees the value
  listKey,  \* __tls_value_list_key
  slots,    \* the TLS slots of each thread
  shows,    \* what each slot shows: a value with its record, one that the list
            \* does not have, or one that the destructor has had already
  list,     \* the list of each thread, Null before there is one
  used,     \* the memory that has been allocated and not been freed
  key       \* of each user the key it has created; Null before

vars == <<taken, keys, listKey, slots, shows, list, used, key>>

Init ==
  /\ taken = {}
  /\ keys = [i \in 0..KeysMax - 1 |-> [key |-> 0, frees |-> FALSE]]
  /\ listKey = None
  /\ slots = [t \in Thread |-> [i \in Index |-> Null]]
  /\ shows = [t \in Thread |-> [i \in Index |-> "listed"]]
  /\ list = [t \in Thread |-> Null]
  /\ used = {}
  /\ key = [u \in User |-> Null]

\* pthread_init_once.  When there is no index for the list, the call does not
\* return: last_serror, asked for the text of the message, waits for this very
\* pthread_once.
InitOnce(i) ==
  /\ listKey = None
  /\ i \in Index
  /\ i < KeysMax
  /\ taken' = {i}
  /\ listKey' = i
  /\ keys' = [k \in 0..KeysMax - 1 |-> [key |-> IF k = i THEN i ELSE None,
                                        frees |-> FALSE]]
  /\ UNCHANGED <<slots, shows, list, used, key>>

\* pthread_key_create for a user.
KeyCreate(u, frees) ==
  /\ listKey # None
  /\ key[u] = Null
  /\ \E i \in Index \ taken :
       /\ i < KeysMax
       /\ taken' = taken \cup {i}
       /\ keys' = [keys EXCEPT ![i] = [key |-> i, frees |-> frees]]
       /\ key' = [key EXCEPT ![u] = i]
  /\ UNCHANGED <<listKey, slots, shows, list, used>>

\* It answers ENOMEM, for no index or for one too large: the user has no key.
KeyRefused(u) ==
  /\ listKey # None
  /\ key[u] = Null /\ u \notin Strict
  /\ Index \subseteq taken \/ \E i \in Index \ taken : i >= KeysMax
  /\ key' = [key EXCEPT ![u] = None]
  /\ UNCHANGED <<taken, keys, listKey, slots, shows, list, used>>

Records(t) == IF list[t] = Null THEN <<>> ELSE list[t]

Dead == [key |-> None, value |-> Null]

\* The places of a thread's live records for a key; foreach stops at the first.
Places(t, k) == {j \in DOMAIN Records(t) : Records(t)[j].key = k}

\* Mutant: the record of the old value keeps its key.
RetiredNot(t, k) == Records(t)

\* The list when the record of the old value has been emptied.
Retired(t, k) ==
  IF Places(t, k) = {} THEN Records(t)
  ELSE LET j == CHOOSE p \in Places(t, k) : \A r \in Places(t, k) : p <= r
       IN  [Records(t) EXCEPT ![j] = Dead]

\* What the destructor of the key frees: the value of that record.
Destroyed(t, k) ==
  IF ~keys[k].frees THEN {}
  ELSE {Records(t)[j].value : j \in {p \in Places(t, k) : \A r \in Places(t, k) : p <= r}}

Registered(k) == k \in 0..KeysMax - 1 /\ keys[k].key = k

\* The list becomes s; a list that is new is lost when the slot for it cannot be
\* set, which nobody looks at.
Keep(t, s) ==
  \/ list' = [list EXCEPT ![t] = s]
  \/ list[t] = Null /\ UNCHANGED list

\* The value is set, and a record for it put behind the others.
SlotSet(t, k, v) ==
  /\ Registered(k)
  /\ slots' = [slots EXCEPT ![t][k] = v]
  /\ Keep(t, Append(Retired(t, k), [key |-> k, value |-> v]))
  /\ shows' = [shows EXCEPT ![t][k] = IF list'[t] = Null THEN "unlisted" ELSE "listed"]
  /\ used' = (used \ Destroyed(t, k)) \cup ({v} \ {Null})

\* It is not: the slot shows the old value, whose record is empty by now and
\* whose destructor has run.
SlotFails(t, k, v) ==
  /\ Registered(k)
  /\ Keep(t, Retired(t, k))
  /\ shows' = [shows EXCEPT ![t][k] =
                 IF @ = "freed" \/ slots[t][k] \in Destroyed(t, k)
                 THEN "freed" ELSE "unlisted"]
  /\ used' = (used \ Destroyed(t, k)) \cup ({v} \ {Null})
  /\ UNCHANGED slots

\* For a key that is not registered there is only the list.
SlotUnknown(t, k, v) ==
  /\ ~Registered(k)
  /\ Keep(t, Records(t))
  /\ used' = used \cup ({v} \ {Null})
  /\ UNCHANGED <<slots, shows>>

\* pthread_setspecific.
SetSpecific(t, k, v) ==
  /\ Len(Records(t)) < ListMax
  /\ SlotSet(t, k, v) \/ SlotFails(t, k, v) \/ SlotUnknown(t, k, v)
  /\ UNCHANGED <<taken, keys, listKey, key>>

\* A value is set over the one there is: new memory, or NULL.
Set(t, u, v) ==
  /\ key[u] \notin {Null, None}
  /\ v \notin used
  /\ SetSpecific(t, key[u], v)
  /\ u \in Strict => slots'[t][key[u]] = v

\* last_serror and tls_calloc: the buffer of the thread, allocated and set when
\* the slot is empty.  Without a key the slot is always empty and the memory
\* lost; so it is for last_serror when assert, which has the call in it, is
\* compiled away.
Buffer(t, u) ==
  /\ key[u] # Null
  /\ IF key[u] # None /\ slots[t][key[u]] # Null
     THEN UNCHANGED vars
     ELSE \E v \in Value \ used :
            \/ SetSpecific(t, key[u], v) /\ (u \in Strict => slots'[t][key[u]] = v)
            \/ /\ u \in Strict
               /\ used' = used \cup {v}
               /\ UNCHANGED <<taken, keys, listKey, slots, shows, list, key>>

\* The slots of a thread that has ended are empty; nobody calls
\* tls_value_list_free, so its list, its values and their memory stay.
ThreadEnd(t) ==
  /\ slots' = [slots EXCEPT ![t] = [i \in Index |-> Null]]
  /\ shows' = [shows EXCEPT ![t] = [i \in Index |-> "listed"]]
  /\ list' = [list EXCEPT ![t] = Null]
  /\ UNCHANGED <<taken, keys, listKey, used, key>>

Next ==
  \/ \E i \in Index : InitOnce(i)
  \/ \E u \in User : KeyRefused(u) \/ \E frees \in BOOLEAN : KeyCreate(u, frees)
  \/ \E t \in Thread, u \in User :
       Buffer(t, u) \/ \E v \in Value \cup {Null} : Set(t, u, v)
  \/ \E t \in Thread : ThreadEnd(t)

Spec == Init /\ [][Next]_vars

-----------------------------------------------------------------------------
\* What a thread finds behind a key is its own and has not been freed, but for
\* one case: the TlsSetValue that came after the destructor of the value failed.
\* Each live record is the only one of its thread for its key and is about the
\* value that the slot has, so that no value is given to a destructor twice, after
\* failures too; and a value has its record unless the list or the slot could not
\* be set (pthread_patch.c:138-179).
ValuesAreOwned ==
  \A t \in Thread, i \in Index :
    /\ \A j \in Places(t, i) :
         /\ Places(t, i) = {j}
         /\ Records(t)[j].value = slots[t][i] /\ shows[t][i] = "listed"
    /\ slots[t][i] # Null /\ shows[t][i] # "freed" =>
         /\ slots[t][i] \in used
         /\ shows[t][i] = "listed" => Places(t, i) # {}
         /\ \A s \in Thread, k \in Index :
              slots[s][k] = slots[t][i] /\ shows[s][k] # "freed" => s = t /\ k = i

=============================================================================
