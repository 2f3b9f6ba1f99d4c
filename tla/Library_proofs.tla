--------------------------- MODULE Library_proofs ---------------------------
(* Proofs about eight of the components of Library: what is stored with a   *)
(* fiber is called back once, and every fiber has a map of its own; what a   *)
(* thread finds behind a key is its own; an array is a list; a queue is a     *)
(* sequence open at both ends; the clock does not run ahead of the time; a    *)
(* hash table is a map whose keys an iteration meets once; select builds an   *)
(* array of one entry; and host names are recognized.                        *)
EXTENDS Library, Services_proofs

-----------------------------------------------------------------------------
\* The other components leave one alone.

LEMMA LocalSteps == ASSUME [LibNext]_libvars PROVE [L!Next]_(L!vars)
<1>1. ASSUME LibNext PROVE [L!Next]_(L!vars)
  BY <1>1 DEF LibNext, IdleRest, L!vars
<1>2. ASSUME UNCHANGED libvars PROVE [L!Next]_(L!vars)
  BY <1>2 DEF libvars, L!vars
<1> QED BY <1>1, <1>2

LEMMA KeysSteps == ASSUME [LibNext]_libvars PROVE [K!Next]_(K!vars)
<1>1. ASSUME LibNext PROVE [K!Next]_(K!vars)
  BY <1>1 DEF LibNext, IdleRest, K!vars
<1>2. ASSUME UNCHANGED libvars PROVE [K!Next]_(K!vars)
  BY <1>2 DEF libvars, K!vars
<1> QED BY <1>1, <1>2

LEMMA LocalInvariance == LibSpec => []LocalInv
<1>1. LibInit => LocalInv
  BY LocalBegins DEF LibInit
<1>2. LocalInv /\ [LibNext]_libvars => LocalInv'
  BY LocalSteps, LocalStays
<1> QED BY <1>1, <1>2, PTL DEF LibSpec

\* Whatever fibers begin, end and store in between, an object stored with a
\* callback is called back by the fiber that holds it before that fiber has gone,
\* and once (corThread.c: ct_corthread_set_specific, corthread_start).
THEOREM CallbacksAreOwed == LibSpec => []LocalKeptIsStored
<1>1. LocalInv => LocalKeptIsStored
  BY LocalSuffices DEF LocalKeptIsStored
<1> QED BY LocalInvariance, <1>1, PTL

\* Each fiber finds under a key what it stored last itself, nothing before and
\* nothing of the fiber that had its struct before; the values go away one by one
\* at its end (corThread.c: corthread_local_get, corthread_start).
THEOREM FibersHaveMaps == LibSpec => LocalImplementsMap
<1>1. LibInit => L!Map!Init
  BY MapBegins DEF LibInit
<1>2. LocalInv /\ LocalInv' /\ [LibNext]_libvars => [L!Map!Next]_(L!Map!mvars)
  BY LocalSteps, MapSteps
<1> QED BY <1>1, <1>2, LocalInvariance, PTL
        DEF LibSpec, LocalImplementsMap, L!ImplementsMap, L!Map!Spec

LEMMA KeysInvariance == LibSpec => []KeysInv
<1>1. LibInit => KeysInv
  BY KeysBegin DEF LibInit
<1>2. KeysInv /\ [LibNext]_libvars => KeysInv'
  BY KeysSteps, KeysStay
<1> QED BY <1>1, <1>2, PTL DEF LibSpec

\* What a thread finds behind a key is its own and has not been freed, unless
\* TlsSetValue failed right after the destructor had the value; and no value is
\* given to a destructor twice: whoever creates keys, sets values and ends in
\* between, and whatever fails (pthread_patch.c: pthread_setspecific,
\* tls_value_list_get; the buffers of last_serror and gettimeofday).
THEOREM ThreadsOwnTheirValues == LibSpec => []KeysOwned
<1>1. KeysInv => K!ValuesAreOwned
  BY KeysSuffice DEF K!ValuesAreOwned
<1>2. KeysInv => KeysOwned
  BY <1>1 DEF KeysOwned
<1> QED BY KeysInvariance, <1>2, PTL

-----------------------------------------------------------------------------
\* Array: the objects in use, at the places 0 to count - 1, are a list.

Objects == Thing \cup {Null}

Tables == UNION {[0 .. n - 1 -> Objects] : n \in Nat}

\* An array as it is between two calls.
Formed(x) ==
  /\ x \in [capacity : Nat, count : Nat, items : Tables]
  /\ x.count <= x.capacity
  /\ x.items \in [0 .. x.capacity - 1 -> Objects]

ArrayInv == Formed(a) /\ (a.capacity = 0 => a = A!NoArray)

\* The first n places of a table, counted from 1.
Row(f, n) == [i \in 1 .. n |-> f[i - 1]]

Listed(x) == Row(x.items, x.count)

LEMMA SameLists ==
  ASSUME NEW X, NEW s \in Seq(X), NEW t \in Seq(X), Len(s) = Len(t),
         \A i \in 1 .. Len(s) : s[i] = t[i]
  PROVE  s = t
OBVIOUS

LEMMA RowIs ==
  ASSUME NEW f, NEW n \in Nat, \A i \in 0 .. n - 1 : f[i] \in Objects
  PROVE  /\ Row(f, n) \in Seq(Objects)
         /\ Len(Row(f, n)) = n
         /\ \A i \in 1 .. n : Row(f, n)[i] = f[i - 1]
<1>1. ASSUME NEW i \in 1 .. n PROVE f[i - 1] \in Objects
  <2>1. i - 1 \in 0 .. n - 1
    OBVIOUS
  <2> QED BY <2>1
<1>2. Row(f, n) = [i \in 1 .. n |-> f[i - 1]]
  BY DEF Row
<1> QED BY <1>1, <1>2

LEMMA ListedIs ==
  ASSUME NEW x, Formed(x)
  PROVE  /\ Listed(x) \in Seq(Objects)
         /\ Len(Listed(x)) = x.count
         /\ \A i \in 1 .. x.count : Listed(x)[i] = x.items[i - 1]
<1>1. x.count \in Nat /\ x.capacity \in Nat /\ x.count <= x.capacity
  BY DEF Formed
<1>2. \A i \in 0 .. x.count - 1 : x.items[i] \in Objects
  <2>1. \A i \in 0 .. x.capacity - 1 : x.items[i] \in Objects
    BY DEF Formed
  <2> QED BY <2>1, <1>1
<1> QED BY <1>1, <1>2, RowIs DEF Listed

LEMMA ItemsAll ==
  ASSUME Formed(a)
  PROVE  A!Items(0, a.count - 1) = Listed(a)
<1>1. a.count \in Nat
  BY DEF Formed
<1>2. A!Items(0, a.count - 1) = [i \in 1 .. a.count - 1 - 0 + 1 |-> a.items[0 + i - 1]]
  BY DEF A!Items
<1>3. 1 .. a.count - 1 - 0 + 1 = 1 .. a.count
  BY <1>1
<1>4. \A i \in 1 .. a.count : 0 + i - 1 = i - 1
  BY <1>1
<1> QED BY <1>2, <1>3, <1>4, Zenon DEF Listed, Row

ListSeen == A!Items(0, a.count - 1) = Listed(a)

LEMMA SeenAlways == ArrayInv => ListSeen
BY ItemsAll DEF ArrayInv, ListSeen

LEMMA SeenNext == ArrayInv' => ListSeen'
BY SeenAlways, PTL

\* A table that was changed in place.
With(x, f, n) == [x EXCEPT !.items = f, !.count = n]

LEMMA Changed ==
  ASSUME NEW x, Formed(x), NEW n \in Nat, n <= x.capacity,
         NEW f \in [0 .. x.capacity - 1 -> Objects]
  PROVE  /\ Formed(With(x, f, n))
         /\ With(x, f, n).capacity = x.capacity
         /\ With(x, f, n).count = n
         /\ With(x, f, n).items = f
<1> DEFINE y == With(x, f, n)
<1>1. x.capacity \in Nat
  BY DEF Formed
<1>2. f \in Tables
  BY <1>1 DEF Tables
<1>3. /\ y \in [capacity : Nat, count : Nat, items : Tables]
      /\ y.capacity = x.capacity /\ y.count = n /\ y.items = f
  BY <1>2, Zenon DEF Formed, With
<1> HIDE DEF y
<1>4. Formed(y)
  BY <1>3 DEF Formed
<1> QED BY <1>3, <1>4 DEF y

LEMMA RoundUp ==
  ASSUME NEW n \in Nat
  PROVE  /\ ((n + Chunk - 1) \div Chunk) * Chunk \in Nat
         /\ ((n + Chunk - 1) \div Chunk) * Chunk >= n
<1> DEFINE m == n + Chunk - 1
           k == m \div Chunk
           r == m % Chunk
<1>1. m \in Nat /\ Chunk \in Nat /\ Chunk > 0
  BY LibraryAssumption
<1>2. k \in Int /\ r \in 0 .. Chunk - 1 /\ m = Chunk * k + r
  <2> HIDE DEF m
  <2> QED BY <1>1
<1>3. k >= 0
  <2> HIDE DEF m
  <2> QED BY <1>1
<1>4. k * Chunk = m - r
  <2> HIDE DEF m, k, r
  <2> QED BY <1>1, <1>2
<1>5. k * Chunk >= n
  BY <1>1, <1>2, <1>4
<1> HIDE DEF k
<1>6. k * Chunk \in Nat
  BY <1>5, <1>1, <1>2, <1>4
<1> QED BY <1>5, <1>6 DEF k

\* Growing leaves the objects where they are and makes room.
LEMMA GrownIs ==
  ASSUME ArrayInv, NEW least \in Nat, a.count <= least
  PROVE  /\ Formed(A!Grown(least))
         /\ A!Grown(least).count = a.count
         /\ A!Grown(least).capacity >= least
         /\ A!Grown(least).capacity >= a.capacity
         /\ \A i \in 0 .. a.count - 1 : A!Grown(least).items[i] = a.items[i]
<1>1. Formed(a)
  BY DEF ArrayInv
<1>2. a.capacity \in Nat /\ a.count \in Nat /\ a.count <= a.capacity
  BY <1>1 DEF Formed
<1>3. CASE a.capacity >= least
  BY <1>1, <1>2, <1>3 DEF A!Grown
<1>4. CASE ~(a.capacity >= least)
  <2> DEFINE up == ((least + Chunk - 1) \div Chunk) * Chunk
             all == a.capacity + up
             f == [i \in 0 .. all - 1 |-> IF i < a.count THEN a.items[i] ELSE Null]
  <2>1. up \in Nat /\ up >= least
    BY RoundUp
  <2> HIDE DEF up
  <2>2. all \in Nat /\ all >= least /\ all >= a.capacity
    BY <2>1, <1>2
  <2>3. A!Grown(least) = [a EXCEPT !.capacity = all, !.items = f]
    BY <1>4 DEF A!Grown, up
  <2>4. \A i \in 0 .. a.count - 1 : a.items[i] \in Objects
    BY <1>1, <1>2 DEF Formed
  <2> HIDE DEF all
  <2>5. f \in [0 .. all - 1 -> Objects]
    BY <2>2, <2>4, <1>2 DEF Objects
  <2>6. \A i \in 0 .. a.count - 1 : f[i] = a.items[i]
    BY <2>2, <1>2
  <2> HIDE DEF f
  <2>7. f \in Tables
    BY <2>2, <2>5 DEF Tables
  <2>8. /\ A!Grown(least) \in [capacity : Nat, count : Nat, items : Tables]
        /\ A!Grown(least).capacity = all /\ A!Grown(least).count = a.count
        /\ A!Grown(least).items = f
    BY <2>2, <2>3, <2>7, <1>1, Zenon DEF Formed
  <2> QED BY <2>2, <2>5, <2>6, <2>8, <1>2 DEF Formed
<1> QED BY <1>3, <1>4

LEMMA RoomIs ==
  ASSUME ArrayInv, NEW more \in Nat \ {0}
  PROVE  /\ Formed(A!WithRoom(more))
         /\ A!WithRoom(more).count = a.count
         /\ A!WithRoom(more).capacity > a.count
         /\ \A i \in 0 .. a.count - 1 : A!WithRoom(more).items[i] = a.items[i]
<1>1. Formed(a) /\ a.capacity \in Nat /\ a.count \in Nat /\ a.count <= a.capacity
  BY DEF ArrayInv, Formed
<1>2. CASE a.count >= a.capacity
  <2>1. A!WithRoom(more) = A!Grown(a.count + more)
    BY <1>2 DEF A!WithRoom
  <2>2. a.count + more \in Nat /\ a.count <= a.count + more
    BY <1>1
  <2>3. /\ Formed(A!Grown(a.count + more))
        /\ A!Grown(a.count + more).count = a.count
        /\ A!Grown(a.count + more).capacity >= a.count + more
    BY <2>2, GrownIs
  <2>4. \A i \in 0 .. a.count - 1 : A!Grown(a.count + more).items[i] = a.items[i]
    BY <2>2, GrownIs
  <2>5. A!Grown(a.count + more).capacity > a.count
    BY <2>3, <1>1 DEF Formed
  <2> QED BY <2>1, <2>3, <2>4, <2>5
<1>3. CASE ~(a.count >= a.capacity)
  BY <1>1, <1>3 DEF A!WithRoom
<1> QED BY <1>2, <1>3

LEMMA OpenIs ==
  ASSUME ArrayInv
  PROVE  a # A!NoArray <=> a.capacity > 0
<1>1. a.capacity \in Nat /\ (a.capacity = 0 => a = A!NoArray)
  BY DEF ArrayInv, Formed
<1>2. A!NoArray.capacity = 0
  BY DEF A!NoArray
<1> QED BY <1>1, <1>2

\* Changing a table of an array that has room keeps the invariant.
LEMMA StaysOpen ==
  ASSUME NEW x, Formed(x), x.capacity > 0, NEW n \in Nat, n <= x.capacity,
         NEW f \in [0 .. x.capacity - 1 -> Objects],
         a' = With(x, f, n)
  PROVE  /\ ArrayInv' /\ (a # A!NoArray)'
         /\ Listed(a)' = Row(f, n)
<1> DEFINE y == With(x, f, n)
<1>1. /\ Formed(y)
      /\ y.capacity = x.capacity /\ y.count = n /\ y.items = f
  BY Changed
<1>2. a' = y
  OBVIOUS
<1> HIDE DEF y
<1>3. ArrayInv'
  BY <1>1, <1>2 DEF ArrayInv, Formed
<1>4. a' # A!NoArray
  <2>1. A!NoArray.capacity = 0
    BY DEF A!NoArray
  <2> QED BY <2>1, <1>1, <1>2
<1>5. (a # A!NoArray)'
  BY <1>4 DEF A!NoArray
<1> QED BY <1>1, <1>2, <1>3, <1>5 DEF Listed

LEMMA AddLastLists ==
  ASSUME ArrayInv, NEW o \in Thing, A!AddLast(o)
  PROVE  /\ ArrayInv' /\ (a # A!NoArray)'
         /\ Listed(a)' = Append(Listed(a), o)
<1> DEFINE n == a.count
           x == A!WithRoom(Chunk)
           f == [x.items EXCEPT ![n] = o]
<1>1. Formed(a) /\ n \in Nat
  BY DEF ArrayInv, Formed
<1>2. /\ Formed(x) /\ x.count = n /\ x.capacity > n
      /\ \A i \in 0 .. n - 1 : x.items[i] = a.items[i]
  BY RoomIs, LibraryAssumption
<1>3. x.capacity \in Nat /\ x.items \in [0 .. x.capacity - 1 -> Objects]
  BY <1>2 DEF Formed
<1>4. a' = With(x, f, n + 1)
  <2>1. a' = [x EXCEPT !.items[n] = o, !.count = @ + 1]
    BY DEF A!AddLast
  <2> QED BY <2>1, <1>2 DEF With
<1> HIDE DEF x
<1>5. f \in [0 .. x.capacity - 1 -> Objects]
  BY <1>3, Zenon DEF Objects
<1>6. \A i \in 0 .. n : f[i] = IF i = n THEN o ELSE a.items[i]
  BY <1>1, <1>2, <1>3
<1> HIDE DEF f
<1>7. ArrayInv' /\ (a # A!NoArray)' /\ Listed(a)' = Row(f, n + 1)
  <2>1. n + 1 \in Nat /\ n + 1 <= x.capacity /\ x.capacity > 0
    BY <1>1, <1>2, <1>3
  <2> QED BY <2>1, <1>2, <1>4, <1>5, StaysOpen
<1>8. Row(f, n + 1) = Append(Listed(a), o)
  <2>1. \A i \in 0 .. n + 1 - 1 : f[i] \in Objects
    BY <1>1, <1>2, <1>3, <1>5
  <2>2. /\ Row(f, n + 1) \in Seq(Objects) /\ Len(Row(f, n + 1)) = n + 1
        /\ \A i \in 1 .. n + 1 : Row(f, n + 1)[i] = f[i - 1]
    BY <2>1, <1>1, RowIs
  <2>3. /\ Listed(a) \in Seq(Objects) /\ Len(Listed(a)) = n
        /\ \A i \in 1 .. n : Listed(a)[i] = a.items[i - 1]
    BY <1>1, ListedIs
  <2>4. /\ Append(Listed(a), o) \in Seq(Objects) /\ Len(Append(Listed(a), o)) = n + 1
        /\ \A i \in 1 .. n + 1 : Append(Listed(a), o)[i] = IF i = n + 1 THEN o
                                                            ELSE a.items[i - 1]
    BY <2>3, <1>1 DEF Objects
  <2>5. ASSUME NEW i \in 1 .. n + 1 PROVE f[i - 1] = IF i = n + 1 THEN o ELSE a.items[i - 1]
    <3>1. i - 1 \in 0 .. n /\ (i - 1 = n <=> i = n + 1)
      BY <1>1
    <3> QED BY <3>1, <1>6
  <2>6. \A i \in 1 .. n + 1 : Row(f, n + 1)[i] = Append(Listed(a), o)[i]
    BY <2>2, <2>4, <2>5
  <2> QED BY <2>2, <2>4, <2>6, SameLists
<1> QED BY <1>7, <1>8

\* A list without the places p + 1 to t.
Cut(s, p, t) == SubSeq(s, 1, p) \o SubSeq(s, t + 1, Len(s))

LEMMA CutIs ==
  ASSUME NEW s \in Seq(Objects), NEW p \in Nat, NEW t \in Nat, p <= t, t <= Len(s)
  PROVE  /\ Cut(s, p, t) \in Seq(Objects)
         /\ Len(Cut(s, p, t)) = Len(s) - (t - p)
         /\ \A i \in 1 .. Len(s) - (t - p) :
              Cut(s, p, t)[i] = IF i <= p THEN s[i] ELSE s[i + t - p]
<1> DEFINE u == SubSeq(s, 1, p)
           v == SubSeq(s, t + 1, Len(s))
<1>1. u \in Seq(Objects) /\ Len(u) = p /\ \A i \in 1 .. p : u[i] = s[i]
  OBVIOUS
<1>2. v \in Seq(Objects) /\ Len(v) = Len(s) - t /\ \A i \in 1 .. Len(s) - t : v[i] = s[i + t]
  OBVIOUS
<1> HIDE DEF u, v
<1>3. Cut(s, p, t) = u \o v
  BY DEF Cut, u, v
<1>4. u \o v \in Seq(Objects) /\ Len(u \o v) = Len(s) - (t - p)
  <2>1. u \in Seq(Objects) /\ v \in Seq(Objects) /\ Len(u) = p /\ Len(v) = Len(s) - t
    BY <1>1, <1>2
  <2>2. u \o v \in Seq(Objects) /\ Len(u \o v) = p + (Len(s) - t)
    BY <2>1
  <2>3. Len(s) \in Nat
    OBVIOUS
  <2> QED BY <2>2, <2>3
<1>5. ASSUME NEW i \in 1 .. Len(s) - (t - p)
      PROVE  (u \o v)[i] = IF i <= p THEN s[i] ELSE s[i + t - p]
  <2>1. CASE i <= p
    BY <2>1, <1>1, <1>2
  <2>2. CASE ~(i <= p)
    <3>1. (u \o v)[i] = v[i - p]
      BY <2>2, <1>1, <1>2
    <3>2. i - p \in 1 .. Len(s) - t /\ i - p + t = i + t - p
      BY <2>2
    <3> QED BY <3>1, <3>2, <2>2, <1>2, Zenon
  <2> QED BY <2>1, <2>2, Zenon
<1> QED BY <1>3, <1>4, <1>5

\* The table of an array.
LEMMA TableIs ==
  ASSUME ArrayInv
  PROVE  /\ Formed(a) /\ a.capacity \in Nat /\ a.count \in Nat /\ a.count <= a.capacity
         /\ a.items \in [0 .. a.capacity - 1 -> Objects]
         /\ Listed(a) \in Seq(Objects) /\ Len(Listed(a)) = a.count
         /\ \A i \in 1 .. a.count : Listed(a)[i] = a.items[i - 1]
<1>1. Formed(a)
  BY DEF ArrayInv
<1>2. /\ Listed(a) \in Seq(Objects) /\ Len(Listed(a)) = a.count
      /\ \A i \in 1 .. a.count : Listed(a)[i] = a.items[i - 1]
  BY <1>1, ListedIs
<1> QED BY <1>1, <1>2 DEF Formed

LEMMA ClearedIs ==
  ASSUME ArrayInv, NEW p \in Int, NEW t \in Int
  PROVE  /\ A!Cleared(a.items, p, t) \in [0 .. a.capacity - 1 -> Objects]
         /\ \A i \in 0 .. a.capacity - 1 : i < p \/ i > t =>
              A!Cleared(a.items, p, t)[i] = a.items[i]
<1>1. a.items \in [0 .. a.capacity - 1 -> Objects] /\ a.capacity \in Nat
  BY TableIs
<1> QED BY <1>1 DEF A!Cleared, Objects

\* What is behind a gap closes it.
LEMMA PulledIs ==
  ASSUME ArrayInv, NEW p \in Nat, NEW t \in Nat, p <= t, t <= a.count,
         NEW f \in [0 .. a.capacity - 1 -> Objects],
         \A i \in 0 .. a.capacity - 1 : i < p \/ i >= t => f[i] = a.items[i]
  PROVE  /\ A!Pulled(f, p, t) \in [0 .. a.capacity - 1 -> Objects]
         /\ Row(A!Pulled(f, p, t), a.count - (t - p)) = Cut(Listed(a), p, t)
<1> DEFINE g == A!Pulled(f, p, t)
           n == a.count - (t - p)
           s == Listed(a)
<1>1. /\ a.capacity \in Nat /\ a.count \in Nat /\ a.count <= a.capacity
      /\ s \in Seq(Objects) /\ Len(s) = a.count
      /\ \A i \in 1 .. a.count : s[i] = a.items[i - 1]
  BY TableIs
<1>2. g = [i \in 0 .. a.capacity - 1 |-> IF i >= p /\ i + t - p < a.count
                                         THEN f[i + t - p] ELSE f[i]]
  BY DEF A!Pulled
<1>0. a.capacity \in Nat /\ a.count \in Nat /\ a.count <= a.capacity
  BY <1>1
<1>3. g \in [0 .. a.capacity - 1 -> Objects]
  <2>1. ASSUME NEW i \in 0 .. a.capacity - 1
        PROVE  (IF i >= p /\ i + t - p < a.count THEN f[i + t - p] ELSE f[i]) \in Objects
    <3>1. CASE i >= p /\ i + t - p < a.count
      <4>1. i + t - p \in 0 .. a.capacity - 1
        BY <3>1, <1>0
      <4>2. f[i + t - p] \in Objects
        BY <4>1
      <4> QED BY <3>1, <4>2
    <3>2. CASE ~(i >= p /\ i + t - p < a.count)
      BY <3>2
    <3> QED BY <3>1, <3>2
  <2> HIDE DEF g
  <2> QED BY <1>2, <2>1
<1>4. n \in Nat /\ n <= a.capacity
  BY <1>0
<1>5. ASSUME NEW i \in 1 .. n
      PROVE  g[i - 1] = IF i <= p THEN s[i] ELSE s[i + t - p]
  <2>1. i - 1 \in 0 .. a.capacity - 1
    BY <1>0, <1>4
  <2>2. CASE i <= p
    <3>0. ~(i - 1 >= p) /\ i - 1 < p /\ i \in 1 .. a.count
      BY <2>1, <2>2, <1>0
    <3>1. g[i - 1] = f[i - 1]
      <4> HIDE DEF g, s
      <4> QED BY <2>1, <3>0, <1>2
    <3>2. f[i - 1] = a.items[i - 1] /\ i \in 1 .. a.count
      BY <2>1, <3>0
    <3> QED BY <3>1, <3>2, <2>2, <1>1
  <2>3. CASE ~(i <= p)
    <3>1. i - 1 >= p /\ i - 1 + t - p < a.count
      BY <2>3, <1>1
    <3>2. g[i - 1] = f[i - 1 + t - p]
      BY <2>1, <3>1, <1>2
    <3>3. i - 1 + t - p \in 0 .. a.capacity - 1 /\ i - 1 + t - p >= t
      BY <2>3, <3>1, <1>1
    <3>4. i + t - p \in 1 .. a.count /\ i + t - p - 1 = i - 1 + t - p
      BY <3>1, <3>3, <1>1
    <3>5. f[i - 1 + t - p] = a.items[i - 1 + t - p]
      BY <3>3
    <3>6. s[i + t - p] = a.items[i + t - p - 1]
      BY <3>4, <1>1
    <3> QED BY <3>2, <3>4, <3>5, <3>6, <2>3
  <2> QED BY <2>2, <2>3
<1> HIDE DEF g, s
<1>6. /\ Row(g, n) \in Seq(Objects) /\ Len(Row(g, n)) = n
      /\ \A i \in 1 .. n : Row(g, n)[i] = g[i - 1]
  <2>1. \A i \in 0 .. n - 1 : g[i] \in Objects
    <3> HIDE DEF n
    <3>1. \A i \in 0 .. n - 1 : i \in 0 .. a.capacity - 1
      BY <1>0, <1>4
    <3> QED BY <3>1, <1>3
  <2> HIDE DEF n
  <2> QED BY <2>1, <1>4, RowIs
<1>7. /\ Cut(s, p, t) \in Seq(Objects) /\ Len(Cut(s, p, t)) = n
      /\ \A i \in 1 .. n : Cut(s, p, t)[i] = IF i <= p THEN s[i] ELSE s[i + t - p]
  <2>1. s \in Seq(Objects) /\ t <= Len(s) /\ Len(s) = a.count
    BY <1>1
  <2>2. Cut(s, p, t) \in Seq(Objects) /\ Len(Cut(s, p, t)) = Len(s) - (t - p)
    BY <2>1, CutIs, Zenon
  <2>3. \A i \in 1 .. Len(s) - (t - p) :
          Cut(s, p, t)[i] = IF i <= p THEN s[i] ELSE s[i + t - p]
    BY <2>1, CutIs
  <2> QED BY <2>1, <2>2, <2>3
<1> HIDE DEF n
<1>8. Row(g, n) = Cut(s, p, t)
  <2>1. \A i \in 1 .. Len(Row(g, n)) : Row(g, n)[i] = Cut(s, p, t)[i]
    BY <1>5, <1>6, <1>7
  <2>2. Len(Row(g, n)) = Len(Cut(s, p, t))
    BY <1>6, <1>7
  <2>3. Row(g, n) \in Seq(Objects) /\ Cut(s, p, t) \in Seq(Objects)
    BY <1>6, <1>7
  <2> QED BY <2>1, <2>2, <2>3, SameLists
<1> QED BY <1>3, <1>8 DEF g, n, s

\* What is from place p on moves up and makes room for an object.
LEMMA PushedIs ==
  ASSUME ArrayInv, NEW x, Formed(x), x.capacity > a.count,
         \A i \in 0 .. a.count - 1 : x.items[i] = a.items[i],
         NEW p \in 0 .. a.count, NEW o \in Thing
  PROVE  /\ A!Pushed(x.items, p, o) \in [0 .. x.capacity - 1 -> Objects]
         /\ Row(A!Pushed(x.items, p, o), a.count + 1)
            = SubSeq(Listed(a), 1, p) \o <<o>> \o SubSeq(Listed(a), p + 1, a.count)
<1> DEFINE f == x.items
           g == A!Pushed(f, p, o)
           n == a.count
           s == Listed(a)
           u == SubSeq(s, 1, p)
           v == SubSeq(s, p + 1, n)
           w == u \o <<o>> \o v
<1>1. /\ n \in Nat /\ p \in Nat /\ p <= n
      /\ s \in Seq(Objects) /\ Len(s) = n
      /\ \A i \in 1 .. n : s[i] = a.items[i - 1]
  BY TableIs
<1>2. x.capacity \in Nat /\ f \in [0 .. x.capacity - 1 -> Objects] /\ o \in Objects
  BY DEF Formed, Objects
<1>0. n \in Nat /\ p \in Nat /\ p <= n /\ n < x.capacity /\ x.capacity \in Nat
  BY <1>1, <1>2
<1>3. g = [i \in 0 .. x.capacity - 1 |-> IF i = p THEN o
                                         ELSE IF i > p /\ i <= n THEN f[i - 1] ELSE f[i]]
  BY <1>2 DEF A!Pushed
<1>4. g \in [0 .. x.capacity - 1 -> Objects]
  <2>1. ASSUME NEW i \in 0 .. x.capacity - 1
        PROVE  (IF i = p THEN o ELSE IF i > p /\ i <= n THEN f[i - 1] ELSE f[i]) \in Objects
    <3>1. CASE i > p /\ i <= n
      <4>1. i - 1 \in 0 .. x.capacity - 1
        BY <3>1, <1>0
      <4>2. f[i - 1] \in Objects
        BY <4>1, <1>2
      <4> QED BY <3>1, <4>2, <1>2
    <3>2. CASE ~(i > p /\ i <= n)
      BY <3>2, <1>2
    <3> QED BY <3>1, <3>2
  <2> HIDE DEF g
  <2> QED BY <1>3, <2>1
<1>5. ASSUME NEW i \in 1 .. n + 1
      PROVE  g[i - 1] = IF i <= p THEN s[i] ELSE IF i = p + 1 THEN o ELSE s[i - 1]
  <2>1. i - 1 \in 0 .. x.capacity - 1
    BY <1>1, <1>2
  <2> HIDE DEF g, s
  <2>2. CASE i <= p
    <3>1. g[i - 1] = f[i - 1]
      BY <2>1, <2>2, <1>3
    <3>2. i - 1 \in 0 .. n - 1 /\ i \in 1 .. n
      BY <2>2, <1>1
    <3> QED BY <3>1, <3>2, <2>2, <1>1
  <2>3. CASE i = p + 1
    BY <2>1, <2>3, <1>1, <1>3
  <2>4. CASE i > p + 1
    <3>1. g[i - 1] = f[i - 1 - 1]
      BY <2>1, <2>4, <1>1, <1>3
    <3>2. i - 1 - 1 \in 0 .. n - 1 /\ i - 1 \in 1 .. n
      BY <2>4, <1>1
    <3> QED BY <3>1, <3>2, <2>4, <1>1
  <2> QED BY <2>2, <2>3, <2>4, <1>1
<1> HIDE DEF g, s, f
<1>6. /\ Row(g, n + 1) \in Seq(Objects) /\ Len(Row(g, n + 1)) = n + 1
      /\ \A i \in 1 .. n + 1 : Row(g, n + 1)[i] = g[i - 1]
  <2> HIDE DEF n
  <2>1. \A i \in 0 .. n + 1 - 1 : g[i] \in Objects
    <3>1. \A i \in 0 .. n + 1 - 1 : i \in 0 .. x.capacity - 1
      BY <1>0
    <3> QED BY <3>1, <1>4
  <2> QED BY <2>1, <1>1, RowIs
<1>7. /\ u \in Seq(Objects) /\ Len(u) = p /\ \A i \in 1 .. p : u[i] = s[i]
  BY <1>1
<1>8. v \in Seq(Objects) /\ Len(v) = n - p /\ \A i \in 1 .. n - p : v[i] = s[i + p]
  BY <1>1
<1> HIDE DEF u, v, n
<1>9. /\ u \o <<o>> \in Seq(Objects) /\ Len(u \o <<o>>) = p + 1
      /\ \A i \in 1 .. p + 1 : (u \o <<o>>)[i] = IF i <= p THEN s[i] ELSE o
  BY <1>1, <1>2, <1>7
<1>10. /\ w \in Seq(Objects) /\ Len(w) = n + 1
       /\ \A i \in 1 .. n + 1 : w[i] = IF i <= p THEN s[i]
                                       ELSE IF i = p + 1 THEN o ELSE s[i - 1]
  <2> DEFINE z == u \o <<o>>
  <2> HIDE DEF z
  <2>1. /\ z \in Seq(Objects) /\ Len(z) = p + 1
        /\ \A i \in 1 .. p + 1 : z[i] = IF i <= p THEN s[i] ELSE o
    BY <1>9 DEF z
  <2>2. z \o v \in Seq(Objects) /\ Len(z \o v) = n + 1
    <3>1. z \o v \in Seq(Objects) /\ Len(z \o v) = p + 1 + (n - p)
      BY <2>1, <1>8
    <3> QED BY <3>1, <1>0
  <2>3. ASSUME NEW i \in 1 .. n + 1
        PROVE  (z \o v)[i] = IF i <= p THEN s[i] ELSE IF i = p + 1 THEN o ELSE s[i - 1]
    <3>1. CASE i <= p + 1
      <4>1. (z \o v)[i] = z[i]
        BY <3>1, <2>1, <1>8
      <4> QED BY <4>1, <3>1, <2>1, <1>1
    <3>2. CASE ~(i <= p + 1)
      <4>1. (z \o v)[i] = v[i - (p + 1)]
        <5>1. i - (p + 1) \in 1 .. n - p
          BY <3>2, <1>0
        <5> QED BY <5>1, <3>2, <2>1, <1>0, <1>8
      <4>2. i - (p + 1) \in 1 .. n - p /\ i - (p + 1) + p = i - 1
        BY <3>2, <1>0
      <4> QED BY <4>1, <4>2, <3>2, <1>0, <1>8
    <3> QED BY <3>1, <3>2, Zenon
  <2> QED BY <2>2, <2>3 DEF z
<1> HIDE DEF w
<1>11. Row(g, n + 1) = w
  <2>1. \A i \in 1 .. Len(Row(g, n + 1)) : Row(g, n + 1)[i] = w[i]
    BY <1>5, <1>6, <1>10
  <2> QED BY <2>1, <1>6, <1>10, SameLists
<1> QED BY <1>4, <1>11, Zenon DEF f, g, n, s, u, v, w

\* The places p + 1 to t of the list are those of the table.
LEMMA ItemsAre ==
  ASSUME ArrayInv, NEW p \in Nat, NEW t \in Int, t < a.count, p <= t + 1
  PROVE  A!Items(p, t) = SubSeq(Listed(a), p + 1, t + 1)
<1> DEFINE s == Listed(a)
<1>1. /\ a.count \in Nat /\ s \in Seq(Objects) /\ Len(s) = a.count
      /\ \A i \in 1 .. a.count : s[i] = a.items[i - 1]
  BY TableIs
<1>2. A!Items(p, t) = [i \in 1 .. t - p + 1 |-> a.items[p + i - 1]]
  BY DEF A!Items
<1> HIDE DEF s
<1>3. SubSeq(s, p + 1, t + 1) = [i \in 1 .. t - p + 1 |-> s[p + i]]
  <2>1. SubSeq(s, p + 1, t + 1) = [i \in 1 .. 1 + (t + 1) - (p + 1) |-> s[i + (p + 1) - 1]]
    OBVIOUS
  <2>2. 1 + (t + 1) - (p + 1) = t - p + 1
    OBVIOUS
  <2>3. \A i \in 1 .. t - p + 1 : i + (p + 1) - 1 = p + i
    OBVIOUS
  <2> QED BY <2>1, <2>2, <2>3
<1>4. \A i \in 1 .. t - p + 1 : s[p + i] = a.items[p + i - 1]
  <2> SUFFICES ASSUME NEW i \in 1 .. t - p + 1 PROVE s[p + i] = a.items[p + i - 1]
    BY Zenon
  <2>1. p + i \in 1 .. a.count
    BY <1>1
  <2> QED BY <2>1, <1>1
<1> QED BY <1>2, <1>3, <1>4, Zenon DEF s

\* What is left when places were taken out.
LEMMA TakesOut ==
  ASSUME ArrayInv, a # A!NoArray, NEW p \in Nat, NEW t \in Nat, p <= t, t <= a.count,
         NEW f \in [0 .. a.capacity - 1 -> Objects],
         \A i \in 0 .. a.capacity - 1 : i < p \/ i >= t => f[i] = a.items[i],
         a' = With(a, A!Pulled(f, p, t), a.count - (t - p))
  PROVE  /\ ArrayInv' /\ (a # A!NoArray)'
         /\ Listed(a)' = Cut(Listed(a), p, t)
<1>1. Formed(a) /\ a.capacity \in Nat /\ a.count \in Nat /\ a.count <= a.capacity
  BY TableIs
<1>2. a.capacity > 0
  BY OpenIs
<1>3. A!Pulled(f, p, t) \in [0 .. a.capacity - 1 -> Objects]
  BY PulledIs, Zenon
<1>4. Row(A!Pulled(f, p, t), a.count - (t - p)) = Cut(Listed(a), p, t)
  BY PulledIs, Zenon
<1>5. a.count - (t - p) \in Nat /\ a.count - (t - p) <= a.capacity
  BY <1>1
<1> QED BY <1>1, <1>2, <1>3, <1>4, <1>5, StaysOpen

LEMMA DeletesAt ==
  ASSUME ArrayInv, a # A!NoArray, NEW p \in Nat, NEW t \in Nat, p <= t, t <= a.count,
         a' = [a EXCEPT !.items = A!Pulled(A!Cleared(@, p, t - 1), p, t),
                        !.count = @ - (t - p)]
  PROVE  /\ ArrayInv' /\ (a # A!NoArray)'
         /\ Listed(a)' = Cut(Listed(a), p, t)
<1> DEFINE f == A!Cleared(a.items, p, t - 1)
<1>1. a.capacity \in Nat
  BY TableIs
<1>2. /\ f \in [0 .. a.capacity - 1 -> Objects]
      /\ \A i \in 0 .. a.capacity - 1 : i < p \/ i > t - 1 => f[i] = a.items[i]
  BY ClearedIs
<1> HIDE DEF f
<1>3. \A i \in 0 .. a.capacity - 1 : i < p \/ i >= t => f[i] = a.items[i]
  BY <1>1, <1>2
<1>4. a' = With(a, A!Pulled(f, p, t), a.count - (t - p))
  BY DEF With, f
<1> QED BY <1>2, <1>3, <1>4, TakesOut, Zenon
-----------------------------------------------------------------------------
LEMMA ArraySteps == ASSUME [LibNext]_libvars PROVE [A!Next]_(A!vars)
<1>1. ASSUME LibNext PROVE [A!Next]_(A!vars)
  BY <1>1 DEF LibNext, IdleRest, A!vars
<1>2. ASSUME UNCHANGED libvars PROVE [A!Next]_(A!vars)
  BY <1>2 DEF libvars, A!vars
<1> QED BY <1>1, <1>2

LEMMA AddLastSteps ==
  ASSUME ArrayInv, NEW o \in Thing, A!AddLast(o)
  PROVE  ArrayInv' /\ A!Abstract!AddLast(o)
<1>1. ArrayInv' /\ (a # A!NoArray)' /\ Listed(a)' = Append(Listed(a), o)
  BY AddLastLists
<1>2. ListSeen /\ ListSeen'
  BY <1>1, SeenAlways, SeenNext
<1>3. a # A!NoArray /\ A!Answers(a.count, <<>>) /\ Len(Listed(a)) = a.count
  BY TableIs DEF A!AddLast
<1> QED BY <1>1, <1>2, <1>3 DEF A!Abstract!AddLast, A!Answers, A!Abstract!Answers, ListSeen

\* A call that changes nothing.
LEMMA ListKept ==
  ASSUME ArrayInv, a' = a
  PROVE  ArrayInv' /\ A!Items(0, a.count - 1)' = A!Items(0, a.count - 1)
                   /\ (a # A!NoArray)' = (a # A!NoArray)
<1>1. ArrayInv' /\ Listed(a)' = Listed(a) 
  BY DEF ArrayInv, Listed
<1>2. ListSeen /\ ListSeen'
  BY <1>1, SeenAlways, SeenNext
<1>3. (a # A!NoArray)' = (a # A!NoArray)
  BY DEF A!NoArray
<1> QED BY <1>1, <1>2, <1>3 DEF ListSeen

LEMMA EmptyIs ==
  ASSUME ArrayInv
  PROVE  /\ Listed(a) = <<>> <=> a.count = 0
         /\ \A p \in Int : A!Abstract!Inside(p) <=> A!Inside(p)
<1>1. Listed(a) \in Seq(Objects) /\ Len(Listed(a)) = a.count /\ a.count \in Nat
  BY TableIs
<1>2. A!Items(0, a.count - 1) = Listed(a)
  BY SeenAlways DEF ListSeen
<1> QED BY <1>1, <1>2 DEF A!Abstract!Inside, A!Inside

LEMMA FreedIs ==
  ASSUME ArrayInv, NEW p \in Nat, NEW t \in Int, t < a.count, p <= t + 1
  PROVE  A!Released(p, t) = A!Abstract!Real(SubSeq(Listed(a), p + 1, t + 1))
<1>1. A!Released(p, t) = A!Abstract!Real(A!Items(p, t))
  BY DEF A!Released, A!Real, A!Abstract!Real
<1>2. A!Items(p, t) = SubSeq(Listed(a), p + 1, t + 1)
  BY ItemsAre
<1> QED BY <1>1, <1>2

LEMMA OnePlace ==
  ASSUME NEW s \in Seq(Objects), NEW k \in 1 .. Len(s)
  PROVE  SubSeq(s, k, k) = <<s[k]>>
<1>1. s[k] \in Objects
  OBVIOUS
<1>2. /\ SubSeq(s, k, k) \in Seq(Objects) /\ Len(SubSeq(s, k, k)) = 1
      /\ SubSeq(s, k, k)[1] = s[k]
  OBVIOUS
<1>3. <<s[k]>> \in Seq(Objects) /\ Len(<<s[k]>>) = 1 /\ <<s[k]>>[1] = s[k]
  BY <1>1
<1> DEFINE u == SubSeq(s, k, k)
           v == <<s[k]>>
<1> HIDE DEF u, v
<1>4. /\ u \in Seq(Objects) /\ v \in Seq(Objects) /\ Len(u) = Len(v)
      /\ \A i \in 1 .. Len(u) : u[i] = v[i]
  BY <1>2, <1>3 DEF u, v
<1>5. u = v
  BY <1>4, SameLists
<1> QED BY <1>5 DEF u, v

LEMMA FreedOne ==
  ASSUME ArrayInv, NEW p \in Int, A!Inside(p)
  PROVE  /\ A!Released(p, p) = A!Abstract!Real(<<Listed(a)[p + 1]>>)
         /\ p \in Nat /\ p < a.count
<1>1. a.count \in Nat /\ Listed(a) \in Seq(Objects) /\ Len(Listed(a)) = a.count
  BY TableIs
<1>2. p \in Nat /\ p < a.count /\ p <= p + 1
  BY DEF A!Inside
<1>3. SubSeq(Listed(a), p + 1, p + 1) = <<Listed(a)[p + 1]>>
  BY <1>1, <1>2, OnePlace
<1> QED BY <1>2, <1>3, FreedIs, Zenon

LEMMA TakeLastSteps ==
  ASSUME ArrayInv, A!TakeLast
  PROVE  ArrayInv' /\ A!Abstract!TakeLast
<1> DEFINE n == a.count
           s == Listed(a)
<1>1. /\ Formed(a) /\ a.capacity \in Nat /\ n \in Nat /\ n <= a.capacity
      /\ a.items \in [0 .. a.capacity - 1 -> Objects]
      /\ s \in Seq(Objects) /\ Len(s) = n
      /\ \A i \in 1 .. n : s[i] = a.items[i - 1]
  BY TableIs
<1>2. a # A!NoArray /\ ListSeen /\ (s = <<>> <=> n = 0)
  BY SeenAlways, EmptyIs DEF A!TakeLast
<1>3. CASE n <= 0
  <2>1. a' = a /\ A!Answers(Null, <<>>)
    BY <1>3 DEF A!TakeLast
  <2>2. ArrayInv' /\ A!Items(0, a.count - 1)' = A!Items(0, a.count - 1)
                  /\ (a # A!NoArray)' = (a # A!NoArray)
    BY <2>1, ListKept
  <2>3. A!Items(0, a.count - 1) = <<>>
    BY <1>1, <1>2, <1>3 DEF ListSeen
  <2> QED BY <1>2, <2>1, <2>2, <2>3 DEF A!Abstract!TakeLast, A!Answers, A!Abstract!Answers
<1>4. CASE n > 0
  <2>1. a' = With(a, a.items, n - 1) /\ A!Answers(a.items[n - 1], <<>>)
    <3>1. ~(a.count <= 0)
      BY <1>1, <1>4
    <3>2. a' = [a EXCEPT !.count = @ - 1] /\ A!Answers(a.items[n - 1], <<>>)
      BY <3>1 DEF A!TakeLast
    <3>3. [a EXCEPT !.count = @ - 1] = With(a, a.items, n - 1)
      BY <1>1, Zenon DEF With, Formed
    <3> QED BY <3>2, <3>3
  <2>2. n - 1 \in Nat /\ n - 1 <= a.capacity /\ a.capacity > 0
    BY <1>1, <1>4
  <2>3. ArrayInv' /\ (a # A!NoArray)' /\ Listed(a)' = Row(a.items, n - 1)
    BY <1>1, <2>1, <2>2, StaysOpen
  <2>4. Row(a.items, n - 1) = SubSeq(s, 1, n - 1)
    <3>1. SubSeq(s, 1, n - 1) = [i \in 1 .. n - 1 |-> s[i]]
      BY <1>1, <2>2
    <3>2. \A i \in 1 .. n - 1 : s[i] = a.items[i - 1]
      BY <1>1
    <3> QED BY <3>1, <3>2 DEF Row
  <2>5. s[n] = a.items[n - 1] /\ s # <<>>
    BY <1>1, <1>2, <1>4
  <2>6. ListSeen'
    BY <2>3, SeenNext
  <2>7. Listed(a)' = A!Abstract!Front(s) /\ a.items[n - 1] = A!Abstract!Last(s)
    BY <1>1, <2>3, <2>4, <2>5 DEF A!Abstract!Front, A!Abstract!Last
  <2> HIDE DEF s
  <2> QED BY <1>2, <2>1, <2>3, <2>5, <2>6, <2>7
          DEF A!Abstract!TakeLast, A!Answers, A!Abstract!Answers, ListSeen, s
<1> QED BY <1>1, <1>3, <1>4

LEMMA TakeFirstSteps ==
  ASSUME ArrayInv, A!TakeFirst
  PROVE  ArrayInv' /\ A!Abstract!TakeFirst
<1> DEFINE n == a.count
           s == Listed(a)
<1>1. /\ Formed(a) /\ a.capacity \in Nat /\ n \in Nat /\ n <= a.capacity
      /\ a.items \in [0 .. a.capacity - 1 -> Objects]
      /\ s \in Seq(Objects) /\ Len(s) = n
      /\ \A i \in 1 .. n : s[i] = a.items[i - 1]
  BY TableIs
<1>2. a # A!NoArray /\ ListSeen /\ (s = <<>> <=> n = 0)
  BY SeenAlways, EmptyIs DEF A!TakeFirst
<1>3. CASE n <= 0
  <2>1. a' = a /\ A!Answers(Null, <<>>)
    BY <1>3 DEF A!TakeFirst
  <2>2. ArrayInv' /\ A!Items(0, a.count - 1)' = A!Items(0, a.count - 1)
                  /\ (a # A!NoArray)' = (a # A!NoArray)
    BY <2>1, ListKept
  <2>3. A!Items(0, a.count - 1) = <<>>
    BY <1>1, <1>2, <1>3 DEF ListSeen
  <2> QED BY <1>2, <2>1, <2>2, <2>3 DEF A!Abstract!TakeFirst, A!Answers, A!Abstract!Answers
<1>4. CASE n > 0
  <2>1. a' = With(a, A!Pulled(a.items, 0, 1), n - (1 - 0)) /\ A!Answers(a.items[0], <<>>)
    BY <1>4, <1>1 DEF A!TakeFirst, With
  <2>2. 1 <= a.count
    BY <1>1, <1>4
  <2>3. ArrayInv' /\ (a # A!NoArray)' /\ Listed(a)' = Cut(s, 0, 1)
    <3>1. \A i \in 0 .. a.capacity - 1 : i < 0 \/ i >= 1 => a.items[i] = a.items[i]
      OBVIOUS
    <3> DEFINE p == 0
               t == 1
               f == a.items
    <3>2. /\ p \in Nat /\ t \in Nat /\ p <= t /\ t <= a.count
          /\ f \in [0 .. a.capacity - 1 -> Objects]
          /\ \A i \in 0 .. a.capacity - 1 : i < p \/ i >= t => f[i] = a.items[i]
          /\ a' = With(a, A!Pulled(f, p, t), a.count - (t - p))
      BY <1>1, <2>1, <2>2, <3>1
    <3> HIDE DEF p, t, f
    <3>3. ArrayInv' /\ (a # A!NoArray)' /\ Listed(a)' = Cut(Listed(a), p, t)
      BY <1>2, <3>2, TakesOut, Zenon
    <3> QED BY <3>3 DEF p, t
  <2>4. Cut(s, 0, 1) = Tail(s)
    <3>1. SubSeq(s, 1, 0) = <<>> /\ SubSeq(s, 1 + 1, Len(s)) = Tail(s)
      BY <1>1, <2>2
    <3>2. Tail(s) \in Seq(Objects)
      BY <1>1, <2>2
    <3> HIDE DEF s
    <3> QED BY <3>1, <3>2 DEF Cut
  <2>5. Head(s) = a.items[0] /\ s # <<>>
    BY <1>1, <1>2, <2>2
  <2>6. ListSeen'
    BY <2>3, SeenNext
  <2> HIDE DEF s
  <2> QED BY <1>2, <2>1, <2>3, <2>4, <2>5, <2>6
          DEF A!Abstract!TakeFirst, A!Answers, A!Abstract!Answers, ListSeen, s
<1> QED BY <1>1, <1>3, <1>4

LEMMA RemoveIs ==
  ASSUME NEW s, NEW p \in Nat, NEW k \in Int, k = p + 1
  PROVE  A!Abstract!RemoveAt(s, k) = Cut(s, p, k)
<1>1. A!Abstract!RemoveAt(s, k) = SubSeq(s, 1, k - 1) \o SubSeq(s, k + 1, Len(s))
  BY ZenonT(20) DEF A!Abstract!RemoveAt
<1>2. k - 1 = p
  OBVIOUS
<1> QED BY <1>1, <1>2, ZenonT(20) DEF Cut

LEMMA InsertIs ==
  ASSUME NEW s, NEW o, NEW k \in Int, NEW w \in Nat, k = w + 1
  PROVE  A!Abstract!InsertAt(s, k, o) = SubSeq(s, 1, w) \o <<o>> \o SubSeq(s, w + 1, Len(s))
<1>1. A!Abstract!InsertAt(s, k, o) = SubSeq(s, 1, k - 1) \o <<o>> \o SubSeq(s, k, Len(s))
  BY ZenonT(20) DEF A!Abstract!InsertAt
<1>2. k - 1 = w
  OBVIOUS
<1> QED BY <1>1, <1>2, ZenonT(20)

LEMMA ChangedAt ==
  ASSUME NEW s \in Seq(Objects), NEW k \in 1 .. Len(s), NEW o \in Objects
  PROVE  /\ [s EXCEPT ![k] = o] \in Seq(Objects) /\ Len([s EXCEPT ![k] = o]) = Len(s)
         /\ \A i \in 1 .. Len(s) : [s EXCEPT ![k] = o][i] = IF i = k THEN o ELSE s[i]
OBVIOUS

LEMMA DeleteAtSteps ==
  ASSUME ArrayInv, NEW p \in Int, A!DeleteAt(p)
  PROVE  ArrayInv' /\ A!Abstract!DeleteAt(p)
<1> DEFINE s == Listed(a)
<1>1. a.count \in Nat
  BY TableIs
<1>2. a # A!NoArray /\ ListSeen /\ (A!Abstract!Inside(p) <=> A!Inside(p))
  BY SeenAlways, EmptyIs DEF A!DeleteAt
<1>3. CASE ~A!Inside(p)
  <2>1. a' = a /\ A!Answers(-1, <<>>)
    BY <1>3 DEF A!DeleteAt
  <2>2. ArrayInv' /\ A!Items(0, a.count - 1)' = A!Items(0, a.count - 1)
                  /\ (a # A!NoArray)' = (a # A!NoArray)
    BY <2>1, ListKept
  <2> QED BY <1>2, <1>3, <2>1, <2>2 DEF A!Abstract!DeleteAt, A!Answers, A!Abstract!Answers
<1>4. CASE A!Inside(p)
  <2>1. /\ a' = [a EXCEPT !.items = A!Pulled(A!Cleared(@, p, p), p, p + 1), !.count = @ - 1]
        /\ A!Answers(0, A!Released(p, p))
    BY <1>4 DEF A!DeleteAt
  <2>2. /\ A!Released(p, p) = A!Abstract!Real(<<s[p + 1]>>)
        /\ p \in Nat /\ p < a.count
    BY <1>4, FreedOne
  <2>3. p + 1 \in Nat /\ p <= p + 1 /\ p + 1 <= a.count /\ p + 1 - 1 = p /\ p + 1 - p = 1
    BY <1>1, <2>2
  <2>4. ArrayInv' /\ (a # A!NoArray)' /\ Listed(a)' = Cut(s, p, p + 1)
    <3>1. PICK t \in Nat : t = p + 1 /\ t - 1 = p /\ t - p = 1 /\ p <= t /\ t <= a.count
      BY <2>3
    <3>2. a' = [a EXCEPT !.items = A!Pulled(A!Cleared(@, p, t - 1), p, t),
                         !.count = @ - (t - p)]
      BY <2>1, <3>1, Zenon
    <3> HIDE DEF s
    <3>3. ArrayInv' /\ (a # A!NoArray)' /\ Listed(a)' = Cut(Listed(a), p, t)
      BY <1>2, <2>2, <3>1, <3>2, DeletesAt, Zenon
    <3> QED BY <3>1, <3>3 DEF s
  <2>5. Cut(s, p, p + 1) = A!Abstract!RemoveAt(s, p + 1)
    <3> DEFINE k == p + 1
    <3>1. k \in Int /\ k = p + 1
      BY <2>2
    <3> HIDE DEF k, s
    <3>2. A!Abstract!RemoveAt(s, k) = Cut(s, p, k)
      BY <2>2, <3>1, RemoveIs
    <3> QED BY <3>2 DEF k
  <2>6. ListSeen'
    BY <2>4, SeenNext
  <2> HIDE DEF s
  <2> QED BY <1>2, <1>4, <2>1, <2>2, <2>4, <2>5, <2>6
          DEF A!Abstract!DeleteAt, A!Answers, A!Abstract!Answers, ListSeen, s
<1> QED BY <1>3, <1>4

LEMMA PutSteps ==
  ASSUME ArrayInv, NEW p \in Int, NEW o \in Thing, NEW after \in {0, 1}, A!Put(p, o, after)
  PROVE  ArrayInv' /\ A!Abstract!Put(p, o, after)
<1> DEFINE s == Listed(a)
           n == a.count
           x == A!WithRoom(1)
           w == p + after
           f == A!Pushed(x.items, w, o)
<1>1. n \in Nat /\ s \in Seq(Objects) /\ Len(s) = n
  BY TableIs
<1>2. a # A!NoArray /\ ListSeen /\ (A!Abstract!Inside(p) <=> A!Inside(p))
  BY SeenAlways, EmptyIs DEF A!Put
<1>3. CASE ~A!Inside(p)
  <2>1. a' = a /\ A!Answers(-1, <<>>)
    BY <1>3 DEF A!Put
  <2>2. ArrayInv' /\ A!Items(0, a.count - 1)' = A!Items(0, a.count - 1)
                  /\ (a # A!NoArray)' = (a # A!NoArray)
    BY <2>1, ListKept
  <2> QED BY <1>2, <1>3, <2>1, <2>2 DEF A!Abstract!Put, A!Answers, A!Abstract!Answers
<1>4. CASE A!Inside(p)
  <2>1. /\ Formed(x) /\ x.count = n /\ x.capacity > n
        /\ \A i \in 0 .. n - 1 : x.items[i] = a.items[i]
    BY RoomIs
  <2>2. w \in 0 .. n /\ w \in Nat /\ p + 1 + after = w + 1 /\ p + 1 + after - 1 = w
    BY <1>1, <1>4 DEF A!Inside
  <2>3. /\ f \in [0 .. x.capacity - 1 -> Objects]
        /\ Row(f, n + 1) = SubSeq(s, 1, w) \o <<o>> \o SubSeq(s, w + 1, n)
    BY <2>1, <2>2, PushedIs, Zenon
  <2>4. a' = With(x, f, n + 1) /\ A!Answers(w, <<>>)
    <3>1. /\ a' = [x EXCEPT !.items = A!Pushed(@, w, o), !.count = @ + 1]
          /\ A!Answers(w, <<>>)
      BY <1>4 DEF A!Put
    <3> HIDE DEF x
    <3> QED BY <2>1, <3>1 DEF With
  <2>5. x.capacity \in Nat /\ x.capacity > 0 /\ n + 1 \in Nat /\ n + 1 <= x.capacity
    BY <1>1, <2>1 DEF Formed
  <2> HIDE DEF x, f
  <2>6. ArrayInv' /\ (a # A!NoArray)' /\ Listed(a)' = Row(f, n + 1)
    BY <2>1, <2>3, <2>4, <2>5, StaysOpen
  <2>7. A!Abstract!InsertAt(s, p + 1 + after, o) = Row(f, n + 1)
    <3> DEFINE k == p + 1 + after
    <3>1. k \in Int /\ k = w + 1
      BY <2>2
    <3> HIDE DEF k, w, s, n
    <3>2. A!Abstract!InsertAt(s, k, o) = SubSeq(s, 1, w) \o <<o>> \o SubSeq(s, w + 1, Len(s))
      BY <1>1, <2>2, <3>1, InsertIs, Zenon
    <3>3. A!Abstract!InsertAt(s, k, o) = Row(f, n + 1)
      BY <1>1, <2>3, <3>2, Zenon
    <3> QED BY <3>3 DEF k
  <2>8. ListSeen' /\ aAnswer' \in [ret : Nat, all : {<<>>}]
    BY <2>2, <2>4, <2>6, SeenNext DEF A!Answers
  <2> HIDE DEF s
  <2> QED BY <1>2, <1>4, <2>6, <2>7, <2>8 DEF A!Abstract!Put, ListSeen, s
<1> QED BY <1>3, <1>4

LEMMA DeleteSwapSteps ==
  ASSUME ArrayInv, NEW p \in Int, A!DeleteSwap(p)
  PROVE  ArrayInv' /\ A!Abstract!DeleteSwap(p)
<1> DEFINE s == Listed(a)
           n == a.count
           f == IF n > 1 THEN [a.items EXCEPT ![p] = a.items[n - 1]] ELSE a.items
           z == [s EXCEPT ![p + 1] = A!Abstract!Last(s)]
<1>1. /\ Formed(a) /\ a.capacity \in Nat /\ n \in Nat /\ n <= a.capacity
      /\ a.items \in [0 .. a.capacity - 1 -> Objects]
      /\ s \in Seq(Objects) /\ Len(s) = n
      /\ \A i \in 1 .. n : s[i] = a.items[i - 1]
  BY TableIs
<1>2. a # A!NoArray /\ ListSeen /\ (A!Abstract!Inside(p) <=> A!Inside(p))
  BY SeenAlways, EmptyIs DEF A!DeleteSwap
<1>3. CASE ~A!Inside(p)
  <2>1. a' = a /\ A!Answers(-1, <<>>)
    BY <1>3 DEF A!DeleteSwap
  <2>2. ArrayInv' /\ A!Items(0, a.count - 1)' = A!Items(0, a.count - 1)
                  /\ (a # A!NoArray)' = (a # A!NoArray)
    BY <2>1, ListKept
  <2> QED BY <1>2, <1>3, <2>1, <2>2 DEF A!Abstract!DeleteSwap, A!Answers, A!Abstract!Answers
<1>4. CASE A!Inside(p)
  <2>1. a' = With(a, f, n - 1) /\ A!Answers(0, A!Released(p, p))
    BY <1>4 DEF A!DeleteSwap, With
  <2>2. /\ A!Released(p, p) = A!Abstract!Real(<<s[p + 1]>>)
        /\ p \in Nat /\ p < a.count
    BY <1>4, FreedOne
  <2>0. a.capacity \in Nat /\ n \in Nat /\ n <= a.capacity /\ p \in Nat /\ p < n
    BY <1>1, <2>2
  <2>3. n - 1 \in Nat /\ n - 1 <= a.capacity /\ a.capacity > 0
    BY <2>0
  <2>4. n - 1 \in 0 .. a.capacity - 1 /\ p \in 0 .. a.capacity - 1 /\ n \in 1 .. n
    BY <2>0
  <2>5. f \in [0 .. a.capacity - 1 -> Objects]
    BY <1>1, <2>4
  <2>6. ArrayInv' /\ (a # A!NoArray)' /\ Listed(a)' = Row(f, n - 1)
    <3> HIDE DEF f
    <3> QED BY <1>1, <2>1, <2>3, <2>5, StaysOpen, Zenon
  <2>7. A!Abstract!Last(s) = a.items[n - 1]
    <3>1. s[n] = a.items[n - 1]
      BY <1>1, <2>4
    <3> QED BY <1>1, <3>1 DEF A!Abstract!Last
  <2>8. z \in Seq(Objects) /\ Len(z) = n
        /\ \A i \in 1 .. n : z[i] = IF i = p + 1 THEN a.items[n - 1] ELSE a.items[i - 1]
    <3>1. a.items[n - 1] \in Objects
      BY <1>1, <2>4
    <3> DEFINE last == A!Abstract!Last(s)
    <3>2. last \in Objects /\ last = a.items[n - 1]
      BY <2>7, <3>1
    <3> DEFINE k == p + 1
    <3>3. k \in 1 .. n
      BY <2>0
    <3> HIDE DEF last, s, k, n
    <3>4. /\ [s EXCEPT ![k] = last] \in Seq(Objects) /\ Len([s EXCEPT ![k] = last]) = n
          /\ \A i \in 1 .. n : [s EXCEPT ![k] = last][i] = IF i = k THEN last ELSE s[i]
      BY <1>1, <3>2, <3>3, ChangedAt
    <3>5. \A i \in 1 .. n :
            [s EXCEPT ![k] = last][i] = IF i = k THEN a.items[n - 1] ELSE a.items[i - 1]
      BY <1>1, <3>2, <3>4
    <3> QED BY <3>4, <3>5 DEF last, k
  <2>9. A!Abstract!Front(z) = Row(f, n - 1)
    <3>1. A!Abstract!Front(z) = SubSeq(z, 1, n - 1)
      BY <2>8 DEF A!Abstract!Front
    <3> HIDE DEF z
    <3>2. SubSeq(z, 1, n - 1) = [i \in 1 .. n - 1 |-> z[i]]
      BY <2>3, <2>8
    <3>3. ASSUME NEW i \in 1 .. n - 1 PROVE z[i] = f[i - 1]
      <4>1. i - 1 \in 0 .. a.capacity - 1 /\ i \in 1 .. n /\ n > 1 /\ (i = p + 1 <=> i - 1 = p)
        BY <2>0
      <4> QED BY <1>1, <2>4, <2>8, <4>1
    <3> HIDE DEF f
    <3> QED BY <3>1, <3>2, <3>3 DEF Row
  <2>10. ListSeen'
    BY <2>6, SeenNext
  <2> HIDE DEF f
  <2> QED BY <1>2, <1>4, <2>1, <2>2, <2>6, <2>9, <2>10
          DEF A!Abstract!DeleteSwap, A!Answers, A!Abstract!Answers, ListSeen
<1> QED BY <1>3, <1>4

LEMMA NothingBehind ==
  ASSUME NEW s \in Seq(Objects), NEW p \in Nat, NEW t \in Nat, p > Len(s), t > Len(s)
  PROVE  SubSeq(s, p, Len(s)) = SubSeq(s, t, Len(s))
<1>1. SubSeq(s, p, Len(s)) = <<>>
  OBVIOUS
<1>2. SubSeq(s, t, Len(s)) = <<>>
  OBVIOUS
<1> QED BY <1>1, <1>2

LEMMA DeleteRangeSteps ==
  ASSUME ~Wild, ArrayInv, NEW p \in Int, NEW t \in Int, A!DeleteRange(p, t)
  PROVE  ArrayInv' /\ A!Abstract!DeleteRange(p, t)
<1> DEFINE n == a.count
           s == Listed(a)
           e == IF t > n - 1 THEN n - 1 ELSE t
<1>1. n \in Nat /\ s \in Seq(Objects) /\ Len(s) = n
  BY TableIs
<1>2. a # A!NoArray /\ ListSeen /\ (s = <<>> <=> n = 0)
  BY SeenAlways, EmptyIs DEF A!DeleteRange
<1>3. CASE p < 0 \/ t < 0 \/ n <= 0 \/ p > t
  <2>1. a' = a /\ A!Answers(-1, <<>>)
    BY <1>3 DEF A!DeleteRange
  <2>2. ArrayInv' /\ A!Items(0, a.count - 1)' = A!Items(0, a.count - 1)
                  /\ (a # A!NoArray)' = (a # A!NoArray)
    BY <2>1, ListKept
  <2>3. ~(0 <= p /\ p <= t /\ s # <<>>)
    BY <1>1, <1>2, <1>3
  <2> HIDE DEF s
  <2> QED BY <1>2, <2>1, <2>2, <2>3
          DEF A!Abstract!DeleteRange, A!Answers, A!Abstract!Answers, ListSeen, s
<1>4. CASE ~(p < 0 \/ t < 0 \/ n <= 0 \/ p > t)
  <2>1. /\ a' = [a EXCEPT !.items = A!Pulled(A!Cleared(@, p, e), p, e + 1),
                          !.count = @ - (e - p + 1)]
        /\ A!Answers(0, A!Released(p, e))
        /\ p < n
    BY <1>4, <1>1 DEF A!DeleteRange
  <2>2. PICK k \in Nat : k = e + 1 /\ k - 1 = e /\ k - p = e - p + 1 /\ p <= k /\ k <= n
                         /\ p \in Nat /\ p <= e + 1 /\ e < n /\ e \in Int
    BY <1>1, <1>4, <2>1
  <2>3. a' = [a EXCEPT !.items = A!Pulled(A!Cleared(@, p, k - 1), p, k),
                       !.count = @ - (k - p)]
    <3> HIDE DEF e
    <3> QED BY <2>1, <2>2, Zenon
  <2>4. ArrayInv' /\ (a # A!NoArray)' /\ Listed(a)' = Cut(s, p, k)
    BY <1>2, <2>2, <2>3, DeletesAt, Zenon
  <2>5. A!Released(p, e) = A!Abstract!Real(SubSeq(s, p + 1, e + 1))
    <3> HIDE DEF e, s
    <3> QED BY <2>2, FreedIs DEF s
  <2>6. ListSeen'
    BY <2>4, SeenNext
  <2>7. A!Abstract!Part(p, t) = SubSeq(s, p + 1, e + 1)
    <3>1. A!Abstract!Part(p, t) = SubSeq(s, p + 1, IF t < n THEN t + 1 ELSE n)
      <4> HIDE DEF s
      <4> QED BY <1>1, <1>2 DEF A!Abstract!Part, ListSeen, s
    <3>2. (IF t < n THEN t + 1 ELSE n) = e + 1
      BY <1>1, <1>4
    <3> HIDE DEF e, s
    <3> QED BY <3>1, <3>2, Zenon
  <2>8. A!Abstract!Part(0, p - 1) = SubSeq(s, 1, p)
    <3>1. A!Abstract!Part(0, p - 1) = SubSeq(s, 0 + 1, IF p - 1 < n THEN p - 1 + 1 ELSE n)
      <4> HIDE DEF s
      <4> QED BY <1>1, <1>2 DEF A!Abstract!Part, ListSeen, s
    <3>2. (IF p - 1 < n THEN p - 1 + 1 ELSE n) = p
      <4>1. n \in Int /\ p < n
        BY <1>1, <2>1
      <4> HIDE DEF e, s
      <4> QED BY <4>1
    <3> HIDE DEF s
    <3> QED BY <3>1, <3>2
  <2>9. A!Abstract!Part(t + 1, n) = SubSeq(s, k + 1, n)
    <3>1. A!Abstract!Part(t + 1, n) = SubSeq(s, t + 1 + 1, IF n < n THEN n + 1 ELSE n)
      <4> HIDE DEF s
      <4> QED BY <1>1, <1>2, Zenon DEF A!Abstract!Part, ListSeen, s
    <3>0. ~(n < n)
      BY <1>1
    <3>2. A!Abstract!Part(t + 1, n) = SubSeq(s, t + 1 + 1, n)
      <4> HIDE DEF s
      <4> QED BY <3>0, <3>1
    <3>3. CASE t > n - 1
      <4>1. t + 1 + 1 \in Nat /\ k + 1 \in Nat /\ t + 1 + 1 > n /\ k + 1 > n
        <5>1. n \in Nat /\ k = e + 1 /\ e = n - 1
          BY <1>1, <2>2, <3>3
        <5> HIDE DEF s, e
        <5> QED BY <5>1, <3>3
      <4> HIDE DEF s
      <4> QED BY <1>1, <3>2, <4>1, NothingBehind
    <3>4. CASE ~(t > n - 1)
      <4>1. t + 1 = k
        BY <2>2, <3>4
      <4> QED BY <3>2, <4>1
    <3> QED BY <3>3, <3>4
  <2>10. Cut(s, p, k) = A!Abstract!Part(0, p - 1) \o A!Abstract!Part(t + 1, n)
    BY <1>1, <2>8, <2>9, Zenon DEF Cut
  <2>11. 0 <= p /\ p <= t /\ s # <<>>
    BY <1>1, <1>2, <1>4
  <2> HIDE DEF s, e
  <2> QED BY <1>1, <1>2, <2>1, <2>4, <2>5, <2>6, <2>7, <2>10, <2>11
         , Zenon DEF A!Abstract!DeleteRange, A!Answers, A!Abstract!Answers, ListSeen, s
<1> QED BY <1>3, <1>4

LEMMA MoveSteps ==
  ASSUME ArrayInv, NEW p \in Int, NEW from \in Int, A!Move(p, from)
  PROVE  ArrayInv' /\ A!Abstract!Move(p, from)
<1> DEFINE n == a.count
           s == Listed(a)
<1>1. n \in Nat /\ s \in Seq(Objects) /\ Len(s) = n
  BY TableIs
<1>2. a # A!NoArray /\ ListSeen /\ (A!Abstract!Inside(from) <=> A!Inside(from))
  BY SeenAlways, EmptyIs DEF A!Move
<1>3. CASE p < 0 \/ from < 0 \/ n = 0 \/ p >= from \/ from >= n
  <2>1. a' = a /\ A!Answers(IF p < 0 \/ from < 0 THEN -1 ELSE 0, <<>>)
    BY <1>3 DEF A!Move
  <2>2. ArrayInv' /\ A!Items(0, a.count - 1)' = A!Items(0, a.count - 1)
                  /\ (a # A!NoArray)' = (a # A!NoArray)
    BY <2>1, ListKept
  <2>3. ~(p >= 0 /\ from >= 0) \/ ~(p < from /\ A!Abstract!Inside(from))
    BY <1>1, <1>2, <1>3 DEF A!Inside
  <2>4. (p < 0 \/ from < 0) <=> ~(p >= 0 /\ from >= 0)
    OBVIOUS
  <2> QED BY <1>2, <2>1, <2>2, <2>3, <2>4
          DEF A!Abstract!Move, A!Answers, A!Abstract!Answers
<1>4. CASE ~(p < 0 \/ from < 0 \/ n = 0 \/ p >= from \/ from >= n)
  <2>1. /\ a' = [a EXCEPT !.items = A!Pulled(A!Cleared(@, p, from - 1), p, from),
                          !.count = @ - (from - p)]
        /\ A!Answers(0, A!Released(p, from - 1))
    BY <1>4 DEF A!Move
  <2>2. /\ p \in Nat /\ from \in Nat /\ p <= from /\ from <= n
        /\ from - 1 \in Int /\ from - 1 < n /\ p <= from - 1 + 1 /\ from - 1 + 1 = from
    BY <1>1, <1>4
  <2>3. ArrayInv' /\ (a # A!NoArray)' /\ Listed(a)' = Cut(s, p, from)
    BY <1>2, <2>1, <2>2, DeletesAt, Zenon
  <2>4. A!Released(p, from - 1) = A!Abstract!Real(SubSeq(s, p + 1, from - 1 + 1))
    BY <2>2, FreedIs
  <2>5. ListSeen'
    BY <2>3, SeenNext
  <2>6. A!Abstract!Part(p, from - 1) = SubSeq(s, p + 1, from - 1 + 1)
    <3> HIDE DEF s
    <3> QED BY <1>1, <1>2, <2>2 DEF A!Abstract!Part, ListSeen, s
  <2>7. A!Abstract!Part(0, p - 1) = SubSeq(s, 1, p)
    <3>1. A!Abstract!Part(0, p - 1) = SubSeq(s, 0 + 1, IF p - 1 < n THEN p - 1 + 1 ELSE n)
      <4> HIDE DEF s
      <4> QED BY <1>1, <1>2 DEF A!Abstract!Part, ListSeen, s
    <3>2. (IF p - 1 < n THEN p - 1 + 1 ELSE n) = p
      BY <1>1, <2>2
    <3> HIDE DEF s
    <3> QED BY <3>1, <3>2
  <2>8. A!Abstract!Part(from, n) = SubSeq(s, from + 1, n)
    <3>1. A!Abstract!Part(from, n) = SubSeq(s, from + 1, IF n < n THEN n + 1 ELSE n)
      <4> HIDE DEF s
      <4> QED BY <1>1, <1>2 DEF A!Abstract!Part, ListSeen, s
    <3> QED BY <1>1, <3>1
  <2>9. Cut(s, p, from) = A!Abstract!Part(0, p - 1) \o A!Abstract!Part(from, n)
    BY <1>1, <2>7, <2>8, Zenon DEF Cut
  <2>10. p >= 0 /\ from >= 0 /\ p < from /\ A!Abstract!Inside(from)
    BY <1>1, <1>2, <1>4 DEF A!Inside
  <2> HIDE DEF s
  <2> QED BY <1>1, <1>2, <2>1, <2>3, <2>4, <2>5, <2>6, <2>9, <2>10
         , Zenon DEF A!Abstract!Move, A!Answers, A!Abstract!Answers, ListSeen, s
<1> QED BY <1>3, <1>4

\* An array without room.
LEMMA NoArrayIs ==
  ASSUME a = A!NoArray
  PROVE  ArrayInv /\ A!Items(0, a.count - 1) = <<>>
<1>1. [i \in {} |-> Null] \in [0 .. 0 - 1 -> Objects]
  OBVIOUS
<1>2. [i \in {} |-> Null] \in Tables
  BY <1>1 DEF Tables
<1>3. ArrayInv
  BY <1>1, <1>2 DEF ArrayInv, Formed, A!NoArray
<1>4. A!Items(0, a.count - 1) = Row(a.items, 0)
  BY <1>3, SeenAlways DEF ListSeen, Listed, A!NoArray
<1> QED BY <1>3, <1>4 DEF Row

NoArrayIn == a = A!NoArray => ArrayInv /\ A!Items(0, a.count - 1) = <<>>

LEMMA NoArrayNext == NoArrayIn'
<1>1. NoArrayIn
  BY NoArrayIs DEF NoArrayIn
<1> QED BY <1>1, PTL

LEMMA ArrayBegins == LibInit => ArrayInv /\ A!Abstract!Init
<1> SUFFICES ASSUME LibInit PROVE ArrayInv /\ A!Abstract!Init
  OBVIOUS
<1>1. A!Init
  BY DEF LibInit
<1>2. a = A!NoArray /\ aAnswer = [ret |-> Null, all |-> <<>>]
  BY <1>1 DEF A!Init
<1> QED BY <1>2, NoArrayIs DEF A!Abstract!Init

LEMMA FreeSteps ==
  ASSUME ArrayInv, A!Free
  PROVE  ArrayInv' /\ A!Abstract!Clean
<1>1. a # A!NoArray /\ a' = A!NoArray /\ A!Answers(0, A!Released(0, a.count - 1))
  BY DEF A!Free
<1>2. A!Released(0, a.count - 1) = A!Abstract!Real(A!Items(0, a.count - 1))
  BY DEF A!Released, A!Real, A!Abstract!Real
<1>3. (a = A!NoArray)'
  BY <1>1 DEF A!NoArray
<1>4. ArrayInv' /\ A!Items(0, a.count - 1)' = <<>>
  BY <1>3, NoArrayNext DEF NoArrayIn
<1>5. (a # A!NoArray)' \in BOOLEAN
  OBVIOUS
<1> QED BY <1>1, <1>2, <1>4, <1>5 DEF A!Abstract!Clean, A!Answers, A!Abstract!Answers

LEMMA CleanSteps ==
  ASSUME ArrayInv, A!Clean
  PROVE  ArrayInv' /\ A!Abstract!Clean
<1> DEFINE f == A!Cleared(a.items, 0, a.count - 1)
<1>1. a # A!NoArray /\ a' = With(a, f, 0) /\ A!Answers(0, A!Released(0, a.count - 1))
  BY DEF A!Clean, With
<1>2. A!Released(0, a.count - 1) = A!Abstract!Real(A!Items(0, a.count - 1))
  BY DEF A!Released, A!Real, A!Abstract!Real
<1>3. Formed(a) /\ a.capacity \in Nat /\ a.count \in Nat /\ a.capacity > 0
  BY <1>1, TableIs, OpenIs
<1>4. f \in [0 .. a.capacity - 1 -> Objects]
  <2> DEFINE p == 0
             t == a.count - 1
  <2>1. p \in Int /\ t \in Int
    BY <1>3
  <2> HIDE DEF p, t
  <2>2. A!Cleared(a.items, p, t) \in [0 .. a.capacity - 1 -> Objects]
    BY <2>1, ClearedIs
  <2> QED BY <2>2 DEF p, t
<1> HIDE DEF f
<1>5. ArrayInv' /\ (a # A!NoArray)' /\ Listed(a)' = Row(f, 0)
  BY <1>1, <1>3, <1>4, StaysOpen
<1>6. A!Items(0, a.count - 1)' = <<>>
  BY <1>5, SeenNext DEF ListSeen, Row
<1>7. (a # A!NoArray)' \in BOOLEAN
  OBVIOUS
<1> QED BY <1>1, <1>2, <1>5, <1>6, <1>7 DEF A!Abstract!Clean, A!Answers, A!Abstract!Answers

LEMMA CreateSteps ==
  ASSUME ArrayInv, NEW n \in ArraySizes, A!Create(n)
  PROVE  ArrayInv' /\ A!Abstract!Create
<1> DEFINE least == IF n <= 0 THEN Default ELSE n
           all == ((least + Chunk - 1) \div Chunk) * Chunk
           f == [i \in 0 .. all - 1 |-> Null]
           x == [capacity |-> all, count |-> 0, items |-> f]
<1>1. a = A!NoArray /\ a' = x /\ A!Answers(Null, <<>>)
  BY DEF A!Create
<1>2. least \in Nat \ {0}
  BY LibraryAssumption
<1> HIDE DEF least
<1>3. all \in Nat /\ all > 0
  <2>1. all \in Nat /\ all >= least
    BY <1>2, RoundUp
  <2> HIDE DEF all
  <2> QED BY <1>2, <2>1
<1> HIDE DEF all
<1>4. f \in [0 .. all - 1 -> Objects]
  BY DEF Objects
<1> HIDE DEF f
<1>5. f \in Tables
  BY <1>3, <1>4 DEF Tables
<1>6. Formed(x) /\ x.capacity = all /\ x = With(x, f, 0) /\ x.capacity > 0
  <2>1. x \in [capacity : Nat, count : Nat, items : Tables]
    BY <1>3, <1>5
  <2>2. x.capacity = all /\ x.count = 0 /\ x.items = f
    OBVIOUS
  <2> HIDE DEF x
  <2>3. x = With(x, f, 0)
    BY <2>1, <2>2, Zenon DEF With
  <2> QED BY <1>3, <1>4, <2>1, <2>2, <2>3 DEF Formed
<1> HIDE DEF x
<1>7. ArrayInv' /\ (a # A!NoArray)' /\ Listed(a)' = Row(f, 0)
  <2>1. a' = With(x, f, 0) /\ f \in [0 .. x.capacity - 1 -> Objects] /\ 0 <= x.capacity
    BY <1>1, <1>3, <1>4, <1>6
  <2> QED BY <1>6, <2>1, StaysOpen
<1>8. A!Items(0, a.count - 1)' = <<>>
  BY <1>7, SeenNext DEF ListSeen, Row
<1> QED BY <1>1, <1>7, <1>8 DEF A!Abstract!Create, A!Answers, A!Abstract!Answers

LEMMA ReserveSteps ==
  ASSUME ArrayInv, NEW n \in ArraySizes, A!Reserve(n)
  PROVE  ArrayInv' /\ A!Abstract!Reserve
<1>1. a # A!NoArray /\ A!Answers(Null, <<>>) /\ n \in Nat
  BY LibraryAssumption DEF A!Reserve
<1>2. ListSeen /\ a.count \in Nat /\ a.capacity \in Nat /\ a.capacity > 0
  BY <1>1, SeenAlways, TableIs, OpenIs
<1>3. CASE a' = a
  <2>1. ArrayInv' /\ A!Items(0, a.count - 1)' = A!Items(0, a.count - 1)
                  /\ (a # A!NoArray)' = (a # A!NoArray)
    BY <1>3, ListKept
  <2> QED BY <1>1, <2>1 DEF A!Abstract!Reserve, A!Answers, A!Abstract!Answers
<1>4. CASE a' = A!Grown(a.count + n)
  <2> DEFINE x == A!Grown(a.count + n)
             s == Listed(a)
  <2>1. a.count + n \in Nat /\ a.count <= a.count + n
    BY <1>1, <1>2
  <2>2. Formed(x) /\ x.count = a.count /\ x.capacity >= a.capacity
    BY <2>1, GrownIs
  <2>3. \A i \in 0 .. a.count - 1 : x.items[i] = a.items[i]
    BY <2>1, GrownIs
  <2> HIDE DEF x
  <2>4. /\ x.capacity \in Nat /\ x.capacity > 0 /\ x.count <= x.capacity
        /\ x.items \in [0 .. x.capacity - 1 -> Objects]
    BY <1>2, <2>2 DEF Formed
  <2>5. a' = With(x, x.items, x.count)
    BY <1>4, <2>2, Zenon DEF x, With, Formed
  <2>6. ArrayInv' /\ (a # A!NoArray)' /\ Listed(a)' = Row(x.items, x.count)
    BY <1>2, <2>2, <2>4, <2>5, StaysOpen
  <2>7. Row(x.items, a.count) = Row(a.items, a.count)
    <3>1. ASSUME NEW i \in 1 .. a.count PROVE x.items[i - 1] = a.items[i - 1]
      <4>1. i - 1 \in 0 .. a.count - 1
        BY <1>2
      <4> QED BY <2>3, <4>1
    <3> QED BY <3>1 DEF Row
  <2>8. ListSeen'
    BY <2>6, SeenNext
  <2> QED BY <1>1, <1>2, <2>2, <2>6, <2>7, <2>8
          DEF A!Abstract!Reserve, A!Answers, A!Abstract!Answers, ListSeen, Listed
<1> QED BY <1>3, <1>4 DEF A!Reserve

\* The least place at which an object is, in the table and in the list.
LEMMA FoundAt ==
  ASSUME ArrayInv, NEW o, \E i \in 0 .. a.count - 1 : a.items[i] = o
  PROVE  LET p == CHOOSE p \in {r \in 0 .. a.count - 1 : a.items[r] = o} :
                    \A r \in {r \in 0 .. a.count - 1 : a.items[r] = o} : p <= r
         IN  /\ p \in 0 .. a.count - 1
             /\ A!Abstract!SelectInSeq(Listed(a), LAMBDA x : x = o) = p + 1
<1> DEFINE n == a.count
           s == Listed(a)
           at == {r \in 0 .. n - 1 : a.items[r] = o}
           p == CHOOSE w \in at : \A r \in at : w <= r
           I == {i \in 1 .. Len(s) : s[i] = o}
<1>1. n \in Nat /\ Len(s) = n /\ \A i \in 1 .. n : s[i] = a.items[i - 1]
  BY TableIs
<1>2. at # {} /\ at \subseteq Nat /\ at \subseteq 0 .. n - 1
  BY <1>1
<1>3. p \in at /\ \A r \in at : p <= r
  <2> HIDE DEF at
  <2>1. \E w \in at : \A r \in at : w <= r
    BY <1>2, LeastExists
  <2> QED BY <2>1
<1> HIDE DEF p
<1>4. I = {i \in 1 .. n : a.items[i - 1] = o}
  BY <1>1
<1>5. p + 1 \in I
  BY <1>1, <1>2, <1>3, <1>4
<1>6. ASSUME NEW i \in I PROVE p + 1 <= i
  <2>1. i \in 1 .. n /\ i - 1 \in 0 .. n - 1 /\ a.items[i - 1] = o
    BY <1>1, <1>4
  <2>2. i - 1 \in at
    BY <2>1
  <2> QED BY <1>2, <1>3, <2>1, <2>2
<1>7. I \subseteq Int
  BY <1>1, <1>4
<1> HIDE DEF I
<1>8. A!Abstract!Min(I) = p + 1
  <2>1. A!Abstract!Min(I) = CHOOSE x \in I : \A y \in I : x <= y
    BY DEF A!Abstract!Min
  <2>2. ASSUME NEW x \in I, \A y \in I : x <= y PROVE x = p + 1
    <3>1. x <= p + 1
      BY <1>5, <2>2
    <3>2. p + 1 <= x
      BY <1>6
    <3>3. x \in Int /\ p + 1 \in Int
      BY <1>5, <1>7, Zenon
    <3> QED BY <3>1, <3>2, <3>3
  <2> QED BY <1>5, <1>6, <2>1, <2>2
<1>9. A!Abstract!SelectInSeq(s, LAMBDA x : x = o) = A!Abstract!Min(I)
  <2>1. {i \in 1 .. Len(s) : s[i] = o} # {}
    BY <1>5 DEF I
  <2> QED BY <2>1 DEF A!Abstract!SelectInSeq, I
<1> QED BY <1>3, <1>8, <1>9 DEF p

LEMMA DeleteObjSteps ==
  ASSUME ~Wild, ArrayInv, NEW o \in Thing, A!DeleteObj(o)
  PROVE  ArrayInv' /\ A!Abstract!DeleteObj(o)
<1> DEFINE n == a.count
           s == Listed(a)
           at == {r \in 0 .. n - 1 : a.items[r] = o}
           p == CHOOSE w \in at : \A r \in at : w <= r
           found == A!Abstract!SelectInSeq(s, LAMBDA x : x = o)
<1>1. /\ n \in Nat /\ s \in Seq(Objects) /\ Len(s) = n
      /\ \A i \in 1 .. n : s[i] = a.items[i - 1]
  BY TableIs
<1>2. a # A!NoArray /\ ListSeen /\ A!Real(<<o>>) = A!Abstract!Real(<<o>>)
  BY SeenAlways DEF A!DeleteObj, A!Real, A!Abstract!Real
<1>3. CASE at = {}
  <2>1. a' = a /\ A!Answers(-1, <<>>)
    BY <1>3 DEF A!DeleteObj
  <2>2. ArrayInv' /\ A!Items(0, a.count - 1)' = A!Items(0, a.count - 1)
                  /\ (a # A!NoArray)' = (a # A!NoArray)
    BY <2>1, ListKept
  <2>3. found = 0
    <3>1. ASSUME NEW i \in 1 .. Len(s), s[i] = o PROVE FALSE
      <4>1. i - 1 \in 0 .. n - 1 /\ a.items[i - 1] = o
        BY <1>1, <3>1
      <4> QED BY <1>3, <4>1
    <3>2. {i \in 1 .. Len(s) : s[i] = o} = {}
      BY <3>1
    <3> QED BY <3>2 DEF A!Abstract!SelectInSeq
  <2> HIDE DEF s
  <2> QED BY <1>2, <2>1, <2>2, <2>3
          DEF A!Abstract!DeleteObj, A!Answers, A!Abstract!Answers, ListSeen, s
<1>4. CASE at # {}
  <2>1. /\ a' = [a EXCEPT !.items = A!Pulled(A!Cleared(@, p, p), p, p + 1), !.count = @ - 1]
        /\ A!Answers(0, A!Real(<<o>>))
    BY <1>4 DEF A!DeleteObj
  <2>2. p \in 0 .. n - 1 /\ found = p + 1
    <3>1. \E i \in 0 .. a.count - 1 : a.items[i] = o
      BY <1>4
    <3> QED BY <3>1, FoundAt, Zenon
  <2> HIDE DEF at, p, found
  <2>3. PICK t \in Nat : t = p + 1 /\ t - 1 = p /\ t - p = 1 /\ p <= t /\ t <= a.count
                         /\ p \in Nat
    BY <1>1, <2>2
  <2>4. a' = [a EXCEPT !.items = A!Pulled(A!Cleared(@, p, t - 1), p, t),
                       !.count = @ - (t - p)]
    BY <2>1, <2>3, Zenon
  <2>5. ArrayInv' /\ (a # A!NoArray)' /\ Listed(a)' = Cut(s, p, t)
    BY <1>2, <2>3, <2>4, DeletesAt, Zenon
  <2>6. A!Abstract!RemoveAt(s, t) = Cut(s, p, t)
    <3> HIDE DEF s
    <3> QED BY <2>3, RemoveIs
  <2>7. ListSeen' /\ found = t /\ t # 0
    BY <2>2, <2>3, <2>5, SeenNext
  <2> HIDE DEF s
  <2> QED BY <1>2, <2>1, <2>5, <2>6, <2>7
          DEF A!Abstract!DeleteObj, A!Answers, A!Abstract!Answers, ListSeen, s, found
<1> QED BY <1>3, <1>4

LEMMA LookSteps ==
  ASSUME ArrayInv, A!Look
  PROVE  ArrayInv' /\ A!Abstract!Look
<1> DEFINE n == a.count
           s == Listed(a)
           back == [i \in 1 .. n |-> a.items[n - i]]
<1>1. /\ n \in Nat /\ s \in Seq(Objects) /\ Len(s) = n
      /\ \A i \in 1 .. n : s[i] = a.items[i - 1]
  BY TableIs
<1>2. a # A!NoArray /\ ListSeen /\ a' = a
  BY SeenAlways DEF A!Look
<1>3. A!Answers(n, s \o A!Until(s) \o A!Until(back))
  <2> HIDE DEF s
  <2> QED BY <1>2 DEF A!Look, ListSeen, s
<1>4. back = A!Abstract!Reverse(s)
  <2>1. A!Abstract!Reverse(s) = [i \in 1 .. Len(s) |-> s[(Len(s) - i) + 1]]
    BY DEF A!Abstract!Reverse
  <2>2. ASSUME NEW i \in 1 .. n PROVE s[(n - i) + 1] = a.items[n - i]
    <3>1. (n - i) + 1 \in 1 .. n /\ (n - i) + 1 - 1 = n - i
      BY <1>1
    <3> QED BY <1>1, <3>1
  <2> HIDE DEF s
  <2> QED BY <1>1, <2>1, <2>2
<1>5. ASSUME NEW z PROVE A!Until(z) = A!Abstract!Until(z)
  BY DEF A!Abstract!Until, A!Until, A!Abstract!SelectInSeq, A!SelectInSeq, A!Min, A!Abstract!Min
<1>6. ArrayInv' /\ A!Items(0, a.count - 1)' = A!Items(0, a.count - 1)
                /\ (a # A!NoArray)' = (a # A!NoArray)
  BY <1>2, ListKept
<1> HIDE DEF s, back
<1>7. A!Answers(n, s \o A!Abstract!Until(s) \o A!Abstract!Until(A!Abstract!Reverse(s)))
  BY <1>3, <1>4, <1>5
<1> QED BY <1>1, <1>2, <1>6, <1>7, Zenon DEF A!Abstract!Look, A!Answers, A!Abstract!Answers, ListSeen, s

ArrayStep == [A!Abstract!Next]_(A!Abstract!vars)

LEMMA ArrayStays ==
  ASSUME ~Wild, ArrayInv, [LibNext]_libvars
  PROVE  ArrayInv' /\ ArrayStep
<1> USE DEF ArrayStep
<1>1. [A!Next]_(A!vars)
  BY ArraySteps
<1>2. Named \subseteq Int
  BY LibraryAssumption
<1>3. ASSUME NEW n \in ArraySizes, A!Create(n) \/ A!Reserve(n)
      PROVE  ArrayInv' /\ ArrayStep
  BY <1>3, CreateSteps, ReserveSteps DEF A!Abstract!Next
<1>4. ASSUME NEW o \in Thing, A!AddLast(o) \/ A!DeleteObj(o)
      PROVE  ArrayInv' /\ ArrayStep
  BY <1>4, AddLastSteps, DeleteObjSteps DEF A!Abstract!Next
<1>5. ASSUME NEW p \in Named, A!DeleteAt(p) \/ A!DeleteSwap(p)
      PROVE  ArrayInv' /\ ArrayStep
  BY <1>2, <1>5, DeleteAtSteps, DeleteSwapSteps DEF A!Abstract!Next
<1>6. ASSUME NEW p \in Named, NEW o \in Thing, NEW after \in {0, 1}, A!Put(p, o, after)
      PROVE  ArrayInv' /\ ArrayStep
  BY <1>2, <1>6, PutSteps DEF A!Abstract!Next
<1>7. ASSUME NEW p \in Named, NEW t \in Named, A!DeleteRange(p, t) \/ A!Move(p, t)
      PROVE  ArrayInv' /\ ArrayStep
  BY <1>2, <1>7, DeleteRangeSteps, MoveSteps DEF A!Abstract!Next
<1>8. CASE A!TakeLast \/ A!TakeFirst \/ A!Look \/ A!Clean \/ A!Free
  BY <1>8, TakeLastSteps, TakeFirstSteps, LookSteps, CleanSteps, FreeSteps DEF A!Abstract!Next
<1>9. CASE UNCHANGED A!vars
  <2>1. a' = a /\ aAnswer' = aAnswer
    BY <1>9 DEF A!vars
  <2>2. ArrayInv' /\ A!Items(0, a.count - 1)' = A!Items(0, a.count - 1)
                  /\ (a # A!NoArray)' = (a # A!NoArray)
    BY <2>1, ListKept
  <2> QED BY <2>1, <2>2 DEF A!Abstract!vars
<1> QED BY <1>1, <1>3, <1>4, <1>5, <1>6, <1>7, <1>8, <1>9 DEF A!Next

\* Array: whatever is put into an array, taken out, deleted, moved and looked at
\* and however it grows meanwhile, it is a list of the objects, every call
\* answers what the list answers, and those it lets go are freed, each as often
\* as it left and in their order (array.c:8-391) - as long as the range or the
\* object that is to be deleted is in the array.
THEOREM ArraysAreLists ==
  ASSUME ~Wild
  PROVE  LibSpec => ArrayImplementsList
<1>1. LibInit => ArrayInv /\ A!Abstract!Init
  BY ArrayBegins
<1>2. ArrayInv /\ [LibNext]_libvars => ArrayInv' /\ [A!Abstract!Next]_(A!Abstract!vars)
  BY ArrayStays DEF ArrayStep
<1> QED BY <1>1, <1>2, PTL DEF LibSpec, ArrayImplementsList, A!ImplementsList, A!Abstract!Spec

-----------------------------------------------------------------------------
\* Fifo: the links are one list.

Queue == F!Along(next, q.head)

Ends == [open : BOOLEAN, head : Box \cup {Null}, tail : Box \cup {Null}, cnt : Int]

\* s is the list of a queue u with links n and p, c what is in its boxes and k
\* the boxes that were handed out.
FifoIs(s, u, n, p, c, k) ==
  /\ u \in Ends
  /\ Chained(Box, Null, s, u.head, u.tail, n, p)
  /\ u.cnt = Len(s)
  /\ u.open \/ Len(s) = 0
  /\ c \in [Box -> Object \cup {Null}]
  /\ k \subseteq Box
  /\ \A b \in Box : c[b] # Null <=> b \in k \/ In(s, b)
  /\ \A b \in k : ~In(s, b)

FifoInv == FifoIs(Queue, q, next, prev, obj, held)

LEMMA BoxesAreSome == F!Cardinality(Box) = Cardinality(Box)
BY DEF F!Cardinality, Cardinality

LEMMA AlongIs ==
  ASSUME NEW s, NEW h, NEW t, NEW n, NEW p, Chained(Box, Null, s, h, t, n, p)
  PROVE  F!Along(n, h) = s
<1>1. Len(s) <= Cardinality(Box) /\ Cardinality(Box) \in Nat
  BY ChainedFits, LibraryAssumption
<1>2. AlongLink(n, h, Cardinality(Box), Null) = s
  BY <1>1, AlongLinkIs
<1>3. AlongLink(n, h, F!Cardinality(Box), Null) = F!Along(n, h)
  BY DEF AlongLink, F!Along
<1> QED BY <1>2, <1>3, BoxesAreSome

LEMMA FifoBecomes ==
  ASSUME NEW s, FifoIs(s, q', next', prev', obj', held')
  PROVE  Queue' = s /\ FifoInv'
<1>1. Chained(Box, Null, s, q'.head, q'.tail, next', prev')
  BY DEF FifoIs
<1>2. F!Along(next', q'.head) = s
  BY <1>1, AlongIs
<1>3. Queue' = s
  BY <1>2 DEF Queue
<1>4. FifoIs(Queue', q', next', prev', obj', held')
  BY <1>3
<1> QED BY <1>3, <1>4 DEF FifoInv, FifoIs

\* What the invariant says, in parts.
LEMMA FifoParts ==
  ASSUME FifoInv
  PROVE  /\ q \in Ends /\ q.cnt = Len(Queue)
         /\ Chained(Box, Null, Queue, q.head, q.tail, next, prev)
         /\ Queue \in Seq(Box) /\ Len(Queue) \in Nat
         /\ next \in [Box -> Box \cup {Null}] /\ prev \in [Box -> Box \cup {Null}]
         /\ q.head = IF Len(Queue) = 0 THEN Null ELSE Queue[1]
         /\ q.tail = IF Len(Queue) = 0 THEN Null ELSE Queue[Len(Queue)]
         /\ \A i \in 1 .. Len(Queue) : Queue[i] \in Box /\ Queue[i] # Null
         /\ \A i, j \in 1 .. Len(Queue) : Queue[i] = Queue[j] => i = j
         /\ obj \in [Box -> Object \cup {Null}] /\ held \subseteq Box
         /\ \A b \in Box : obj[b] # Null <=> b \in held \/ In(Queue, b)
         /\ \A b \in held : ~In(Queue, b)
<1> PICK s : s = Queue
  OBVIOUS
<1>1. FifoIs(s, q, next, prev, obj, held)
  BY DEF FifoInv
<1>2. Chained(Box, Null, s, q.head, q.tail, next, prev)
  BY <1>1 DEF FifoIs
<1>3. /\ s \in Seq(Box) /\ Len(s) \in Nat
      /\ next \in [Box -> Box \cup {Null}] /\ prev \in [Box -> Box \cup {Null}]
      /\ q.head = IF Len(s) = 0 THEN Null ELSE s[1]
      /\ q.tail = IF Len(s) = 0 THEN Null ELSE s[Len(s)]
      /\ \A i \in 1 .. Len(s) : s[i] \in Box /\ s[i] # Null
      /\ \A i, j \in 1 .. Len(s) : s[i] = s[j] => i = j
  BY <1>2, ChainedParts
<1> QED BY <1>1, <1>2, <1>3 DEF FifoIs

-----------------------------------------------------------------------------
\* Fifo: what the calls do to the links.

\* The queue, still open, becomes s.
Linked(s) ==
  /\ q' \in Ends /\ q'.open = q.open /\ q'.cnt = Len(s)
  /\ Chained(Box, Null, s, q'.head, q'.tail, next', prev')

\* The ends after a call that sets both and the count.
Moved(u, h, t, c) == [u EXCEPT !.head = h, !.tail = t, !.cnt = c]

LEMMA EndsAre ==
  ASSUME NEW u \in Ends, NEW h \in Box \cup {Null}, NEW t \in Box \cup {Null}, NEW c \in Int
  PROVE  /\ Moved(u, h, t, c) \in Ends /\ Moved(u, h, t, c).open = u.open
         /\ Moved(u, h, t, c).head = h /\ Moved(u, h, t, c).tail = t
         /\ Moved(u, h, t, c).cnt = c
<1>1. Moved(u, h, t, c) \in Ends
  BY Zenon DEF Ends, Moved
<1>2. Moved(u, h, t, c).open = u.open /\ Moved(u, h, t, c).head = h
  BY DEF Ends, Moved
<1>3. Moved(u, h, t, c).tail = t /\ Moved(u, h, t, c).cnt = c
  BY DEF Ends, Moved
<1> QED BY <1>1, <1>2, <1>3

LEMMA LinkedWith ==
  ASSUME q \in Ends, NEW s, NEW h \in Box \cup {Null}, NEW t \in Box \cup {Null},
         NEW c \in Int, c = Len(s), q' = Moved(q, h, t, c),
         Chained(Box, Null, s, h, t, next', prev')
  PROVE  Linked(s)
<1>0. \A n \in Int : LET v == Moved(q, h, t, n)
                     IN  v \in Ends /\ v.open = q.open /\ v.head = h /\ v.tail = t /\ v.cnt = n
  BY EndsAre
<1>1. q' \in Ends /\ q'.open = q.open /\ q'.head = h /\ q'.tail = t /\ q'.cnt = c
  BY <1>0
<1>2. Chained(Box, Null, s, q'.head, q'.tail, next', prev')
  BY <1>1
<1> QED BY <1>1, <1>2 DEF Linked

\* The only box is at both ends.
LEMMA LinkAloneIs ==
  ASSUME FifoInv, NEW b \in Box, Len(Queue) = 0, F!LinkAlone(b)
  PROVE  Linked(<<b>>)
<1>1. q \in Ends /\ q.cnt = 0 /\ Chained(Box, Null, Queue, q.head, q.tail, next, prev)
  BY FifoParts
<1>2. q' = [q EXCEPT !.head = b, !.tail = b, !.cnt = @ + 1]
  BY DEF F!LinkAlone
<1>3. Chained(Box, Null, <<b>>, b, b, [next EXCEPT ![b] = Null], [prev EXCEPT ![b] = Null])
  BY <1>1, ChainedAlone
<1>4. next' = [next EXCEPT ![b] = Null] /\ prev' = [prev EXCEPT ![b] = Null]
  BY DEF F!LinkAlone
<1> PICK c \in Int : c = q.cnt + 1
  BY <1>1
<1>5. q' = Moved(q, b, b, c) /\ c = Len(<<b>>) /\ b \in Box \cup {Null}
  BY <1>1, <1>2 DEF Moved
<1>6. Chained(Box, Null, <<b>>, b, b, next', prev')
  BY <1>3, <1>4
<1> QED BY <1>1, <1>5, <1>6, LinkedWith, Zenon

LEMMA LinkBackIs ==
  ASSUME FifoInv, NEW b \in Box, ~In(Queue, b), F!LinkBack(b)
  PROVE  Linked(Append(Queue, b))
<1> DEFINE s == Append(Queue, b)
<1>1. /\ q \in Ends /\ q.cnt = Len(Queue) /\ Len(Queue) \in Nat /\ Queue \in Seq(Box)
      /\ Chained(Box, Null, Queue, q.head, q.tail, next, prev)
      /\ q.tail = IF Len(Queue) = 0 THEN Null ELSE Queue[Len(Queue)]
      /\ \A i \in 1 .. Len(Queue) : Queue[i] \in Box /\ Queue[i] # Null
  BY FifoParts
<1>2. CASE Len(Queue) = 0
  <2>1. s = <<b>>
    BY <1>1, <1>2
  <2>2. F!LinkAlone(b)
    BY <1>1, <1>2 DEF F!LinkBack
  <2> QED BY <1>2, <2>1, <2>2, LinkAloneIs
<1>3. CASE Len(Queue) # 0
  <2>0. q.tail # Null
    <3>1. Len(Queue) \in 1 .. Len(Queue)
      BY <1>1, <1>3
    <3> QED BY <1>1, <1>3, <3>1
  <2>1. /\ next' = [next EXCEPT ![q.tail] = b, ![b] = Null]
        /\ prev' = [prev EXCEPT ![b] = q.tail]
        /\ q' = [q EXCEPT !.tail = b, !.cnt = @ + 1]
    BY <2>0 DEF F!LinkBack
  <2>2. Chained(Box, Null, s, q.head, b, [next EXCEPT ![q.tail] = b, ![b] = Null],
                [prev EXCEPT ![b] = q.tail])
    BY <1>1, <1>3, ChainedAppend DEF In
  <2> PICK c \in Int : c = q.cnt + 1
    BY <1>1
  <2>3. c = Len(s)
    BY <1>1
  <2> HIDE DEF s
  <2>4. q' = Moved(q, q.head, b, c)
    BY <1>1, <2>1, Zenon DEF Ends, Moved
  <2>5. Chained(Box, Null, s, q.head, b, next', prev')
    BY <2>1, <2>2
  <2>6. q \in Ends /\ q.head \in Box \cup {Null} /\ b \in Box \cup {Null}
    BY <1>1 DEF Ends
  <2>7. Linked(s)
    BY <2>3, <2>4, <2>5, <2>6, LinkedWith
  <2> QED BY <2>7 DEF s
<1> QED BY <1>2, <1>3

LEMMA LinkFrontIs ==
  ASSUME FifoInv, NEW b \in Box, ~In(Queue, b), F!LinkFront(b)
  PROVE  Linked(<<b>> \o Queue)
<1> DEFINE s == <<b>> \o Queue
<1>1. /\ q \in Ends /\ q.cnt = Len(Queue) /\ Len(Queue) \in Nat /\ Queue \in Seq(Box)
      /\ Chained(Box, Null, Queue, q.head, q.tail, next, prev)
      /\ q.head = IF Len(Queue) = 0 THEN Null ELSE Queue[1]
      /\ \A i \in 1 .. Len(Queue) : Queue[i] \in Box /\ Queue[i] # Null
  BY FifoParts
<1>2. CASE Len(Queue) = 0
  <2>1. s = <<b>>
    BY <1>1, <1>2
  <2>2. F!LinkAlone(b)
    BY <1>1, <1>2 DEF F!LinkFront
  <2> QED BY <1>2, <2>1, <2>2, LinkAloneIs
<1>3. CASE Len(Queue) # 0
  <2>0. q.head # Null
    <3>1. 1 \in 1 .. Len(Queue)
      BY <1>1, <1>3
    <3> QED BY <1>1, <1>3, <3>1
  <2>1. /\ next' = [next EXCEPT ![b] = q.head]
        /\ prev' = [prev EXCEPT ![q.head] = b, ![b] = Null]
        /\ q' = [q EXCEPT !.head = b, !.cnt = @ + 1]
    BY <2>0 DEF F!LinkFront
  <2>2. Chained(Box, Null, s, b, q.tail, [next EXCEPT ![b] = q.head],
                [prev EXCEPT ![q.head] = b, ![b] = Null])
    BY <1>1, <1>3, ChainedPrepend DEF In
  <2> PICK c \in Int : c = q.cnt + 1
    BY <1>1
  <2>3. c = Len(s)
    BY <1>1
  <2> HIDE DEF s
  <2>4. q' = Moved(q, b, q.tail, c)
    BY <1>1, <2>1, Zenon DEF Ends, Moved
  <2>5. Chained(Box, Null, s, b, q.tail, next', prev')
    BY <2>1, <2>2
  <2>6. q \in Ends /\ b \in Box \cup {Null} /\ q.tail \in Box \cup {Null}
    BY <1>1 DEF Ends
  <2>7. Linked(s)
    BY <2>3, <2>4, <2>5, <2>6, LinkedWith
  <2> QED BY <2>7 DEF s
<1> QED BY <1>2, <1>3

\* The links without a box, whichever of them the call writes.
LEMMA UnlinkedIs ==
  ASSUME FifoInv, NEW k \in 1 .. Len(Queue), NEW b, b = Queue[k],
         NEW h, h = (IF prev[b] = Null THEN next[b] ELSE q.head),
         NEW t, t = (IF next[b] = Null THEN prev[b] ELSE q.tail),
         q' = [q EXCEPT !.head = h, !.tail = t, !.cnt = @ - 1],
         next' = [x \in Box |-> IF x = prev[b] THEN next[b] ELSE next[x]],
         prev' = [x \in Box |-> IF x = next[b] THEN prev[b] ELSE prev[x]]
  PROVE  Linked(RemoveAt(Queue, k))
<1> DEFINE s == RemoveAt(Queue, k)
<1>1. /\ q \in Ends /\ q.cnt = Len(Queue) /\ Len(Queue) \in Nat /\ Queue \in Seq(Box)
      /\ Chained(Box, Null, Queue, q.head, q.tail, next, prev)
      /\ next \in [Box -> Box \cup {Null}] /\ prev \in [Box -> Box \cup {Null}]
      /\ \A i \in 1 .. Len(Queue) : Queue[i] \in Box /\ Queue[i] # Null
  BY FifoParts
<1>2. Chained(Box, Null, s, h, t,
              [x \in Box |-> IF x = prev[b] THEN next[b] ELSE next[x]],
              [x \in Box |-> IF x = next[b] THEN prev[b] ELSE prev[x]])
  BY <1>1, ChainedWithout
<1>3. Len(s) = Len(Queue) - 1
  BY <1>1, RemoveAtProperties DEF Without
<1> HIDE DEF s
<1>4. b \in Box /\ q.head \in Box \cup {Null} /\ q.tail \in Box \cup {Null}
  BY <1>1 DEF Ends
<1>5. h \in Box \cup {Null} /\ t \in Box \cup {Null} /\ q \in Ends
  BY <1>1, <1>4
<1> PICK c \in Int : c = Len(Queue) - 1
  BY <1>1
<1>6. q' = Moved(q, h, t, c)
  BY <1>1 DEF Moved
<1>7. Chained(Box, Null, s, h, t, next', prev')
  BY <1>2
<1>8. Linked(s)
  BY <1>3, <1>5, <1>6, <1>7, LinkedWith, Zenon
<1> QED BY <1>8 DEF s

LEMMA HeadOffIs ==
  ASSUME FifoInv, q.head # Null, F!HeadOff, next' = next
  PROVE  /\ Linked(RemoveAt(Queue, 1))
         /\ 1 \in 1 .. Len(Queue) /\ q.head = Queue[1]
<1>1. /\ q \in Ends /\ Len(Queue) \in Nat
      /\ q.head = IF Len(Queue) = 0 THEN Null ELSE Queue[1]
      /\ q.tail = IF Len(Queue) = 0 THEN Null ELSE Queue[Len(Queue)]
      /\ Chained(Box, Null, Queue, q.head, q.tail, next, prev)
      /\ next \in [Box -> Box \cup {Null}] /\ prev \in [Box -> Box \cup {Null}]
      /\ \A i \in 1 .. Len(Queue) : Queue[i] \in Box /\ Queue[i] # Null
  BY FifoParts
<1>2. 1 \in 1 .. Len(Queue) /\ q.head = Queue[1]
  BY <1>1
<1> PICK b : b = q.head
  OBVIOUS
<1>3. b \in Box /\ prev[b] = Null
  <2>1. \A i \in 1 .. Len(Queue) : prev[Queue[i]] = IF i = 1 THEN Null ELSE Queue[i - 1]
    BY <1>1, ChainedParts
  <2> QED BY <1>1, <1>2, <2>1
<1>4. next[b] \in Box \cup {Null} /\ Null \notin Box
  BY <1>1, <1>3, LibraryAssumption
<1>5. next' = [x \in Box |-> IF x = prev[b] THEN next[b] ELSE next[x]]
  BY <1>1, <1>3, <1>4
<1>6. prev' = [x \in Box |-> IF x = next[b] THEN prev[b] ELSE prev[x]]
  <2>1. CASE next[b] = Null
    <3>1. prev' = prev
      BY <2>1 DEF F!HeadOff
    <3> QED BY <1>1, <1>4, <2>1, <3>1
  <2>2. CASE next[b] # Null
    <3>1. prev' = [prev EXCEPT ![next[b]] = Null]
      BY <2>2 DEF F!HeadOff
    <3> QED BY <1>1, <1>3, <1>4, <2>2, <3>1, Zenon
  <2> QED BY <2>1, <2>2
<1>7. q' = [q EXCEPT !.head = next[b], !.tail = IF next[b] = Null THEN Null ELSE q.tail,
                     !.cnt = @ - 1]
  <2>1. CASE next[b] = Null
    BY <2>1 DEF F!HeadOff
  <2>2. CASE next[b] # Null
    <3>1. q' = [q EXCEPT !.head = next[b], !.cnt = @ - 1]
      BY <2>2 DEF F!HeadOff
    <3> QED BY <1>1, <2>2, <3>1, Zenon DEF Ends
  <2> QED BY <2>1, <2>2
<1> PICK h : h = next[b]
  OBVIOUS
<1> PICK t : t = IF next[b] = Null THEN Null ELSE q.tail
  OBVIOUS
<1>8. h = (IF prev[b] = Null THEN next[b] ELSE q.head)
      /\ t = (IF next[b] = Null THEN prev[b] ELSE q.tail)
  BY <1>3
<1>9. q' = [q EXCEPT !.head = h, !.tail = t, !.cnt = @ - 1]
  BY <1>7
<1>10. Linked(RemoveAt(Queue, 1))
  BY <1>2, <1>5, <1>6, <1>8, <1>9, UnlinkedIs, Zenon
<1> QED BY <1>2, <1>10

LEMMA TailOffIs ==
  ASSUME FifoInv, q.tail # Null, F!TailOff, prev' = prev
  PROVE  /\ Linked(RemoveAt(Queue, Len(Queue)))
         /\ Len(Queue) \in 1 .. Len(Queue) /\ q.tail = Queue[Len(Queue)]
<1>1. /\ q \in Ends /\ Len(Queue) \in Nat
      /\ q.tail = IF Len(Queue) = 0 THEN Null ELSE Queue[Len(Queue)]
      /\ Chained(Box, Null, Queue, q.head, q.tail, next, prev)
      /\ next \in [Box -> Box \cup {Null}] /\ prev \in [Box -> Box \cup {Null}]
      /\ \A i \in 1 .. Len(Queue) : Queue[i] \in Box /\ Queue[i] # Null
  BY FifoParts
<1>2. Len(Queue) \in 1 .. Len(Queue) /\ q.tail = Queue[Len(Queue)]
  BY <1>1
<1> PICK b : b = q.tail
  OBVIOUS
<1>3. b \in Box /\ next[b] = Null
  <2>1. \A i \in 1 .. Len(Queue) : next[Queue[i]] = IF i = Len(Queue) THEN Null ELSE Queue[i + 1]
    BY <1>1, ChainedParts
  <2> QED BY <1>1, <1>2, <2>1
<1>4. prev[b] \in Box \cup {Null} /\ Null \notin Box
  BY <1>1, <1>3, LibraryAssumption
<1>5. prev' = [x \in Box |-> IF x = next[b] THEN prev[b] ELSE prev[x]]
  BY <1>1, <1>3, <1>4
<1>6. next' = [x \in Box |-> IF x = prev[b] THEN next[b] ELSE next[x]]
  <2>1. CASE prev[b] = Null
    <3>1. next' = next
      BY <2>1 DEF F!TailOff
    <3> QED BY <1>1, <1>4, <2>1, <3>1
  <2>2. CASE prev[b] # Null
    <3>1. next' = [next EXCEPT ![prev[b]] = Null]
      BY <2>2 DEF F!TailOff
    <3> QED BY <1>1, <1>3, <1>4, <2>2, <3>1, Zenon
  <2> QED BY <2>1, <2>2
<1>7. q' = [q EXCEPT !.head = IF prev[b] = Null THEN Null ELSE q.head, !.tail = prev[b],
                     !.cnt = @ - 1]
  <2>1. CASE prev[b] = Null
    BY <2>1 DEF F!TailOff
  <2>2. CASE prev[b] # Null
    <3>1. q' = [q EXCEPT !.tail = prev[b], !.cnt = @ - 1]
      BY <2>2 DEF F!TailOff
    <3> QED BY <1>1, <2>2, <3>1, Zenon DEF Ends
  <2> QED BY <2>1, <2>2
<1> PICK h : h = IF prev[b] = Null THEN Null ELSE q.head
  OBVIOUS
<1> PICK t : t = prev[b]
  OBVIOUS
<1>8. h = (IF prev[b] = Null THEN next[b] ELSE q.head)
      /\ t = (IF next[b] = Null THEN prev[b] ELSE q.tail)
  BY <1>3
<1>9. q' = [q EXCEPT !.head = h, !.tail = t, !.cnt = @ - 1]
  BY <1>7
<1> PICK k \in 1 .. Len(Queue) : k = Len(Queue) /\ b = Queue[k]
  BY <1>2
<1>10. Linked(RemoveAt(Queue, k))
  BY <1>5, <1>6, <1>8, <1>9, UnlinkedIs, Zenon
<1> QED BY <1>2, <1>10

LEMMA UnlinkIs ==
  ASSUME FifoInv, NEW k \in 1 .. Len(Queue), NEW b, b = Queue[k], F!Unlink(b)
  PROVE  Linked(RemoveAt(Queue, k)) /\ obj' = [obj EXCEPT ![b] = Null]
<1> PICK h : h = IF prev[b] = Null THEN next[b] ELSE q.head
  OBVIOUS
<1> PICK t : t = IF next[b] = Null THEN prev[b] ELSE q.tail
  OBVIOUS
<1>1. q' = [q EXCEPT !.head = h, !.tail = t, !.cnt = @ - 1]
  BY DEF F!Unlink, F!TailWithout
<1>2. /\ next' = [x \in Box |-> IF x = prev[b] THEN next[b] ELSE next[x]]
      /\ prev' = [x \in Box |-> IF x = next[b] THEN prev[b] ELSE prev[x]]
      /\ obj' = [obj EXCEPT ![b] = Null]
  BY DEF F!Unlink
<1>3. Linked(RemoveAt(Queue, k))
  BY <1>1, <1>2, UnlinkedIs, Zenon
<1> QED BY <1>2, <1>3

-----------------------------------------------------------------------------
\* Fifo: what the calls do to the list.

LEMMA Relists ==
  ASSUME q.open, NEW s, Linked(s),
         obj' \in [Box -> Object \cup {Null}], held' \subseteq Box,
         \A b \in Box : obj'[b] # Null <=> b \in held' \/ In(s, b),
         \A b \in held' : ~In(s, b)
  PROVE  FifoInv' /\ Queue' = s /\ q'.open = q.open
<1>1. q' \in Ends /\ q'.open = q.open /\ q'.cnt = Len(s)
  BY DEF Linked
<1>2. Chained(Box, Null, s, q'.head, q'.tail, next', prev')
  BY DEF Linked
<1>3. FifoIs(s, q', next', prev', obj', held')
  BY <1>1, <1>2 DEF FifoIs
<1> QED BY <1>1, <1>3, FifoBecomes

\* A new box comes in with its object.
LEMMA ComesIn ==
  ASSUME FifoInv, q.open, NEW b \in Box, b \notin F!Allocated, NEW o \in Object,
         NEW s, Linked(s), \A x : In(s, x) <=> In(Queue, x) \/ x = b,
         obj' = [obj EXCEPT ![b] = o], held' = held
  PROVE  FifoInv' /\ Queue' = s /\ q'.open = q.open
<1>1. /\ obj \in [Box -> Object \cup {Null}] /\ held \subseteq Box
      /\ \A x \in Box : obj[x] # Null <=> x \in held \/ In(Queue, x)
      /\ \A x \in held : ~In(Queue, x)
  BY FifoParts
<1>2. obj[b] = Null /\ o # Null
  BY LibraryAssumption DEF F!Allocated
<1>3. obj' \in [Box -> Object \cup {Null}]
  BY <1>1
<1>4. \A x \in Box : obj'[x] # Null <=> x \in held' \/ In(s, x)
  BY <1>1, <1>2
<1>5. \A x \in held' : ~In(s, x)
  BY <1>1, <1>2
<1> QED BY <1>1, <1>3, <1>4, <1>5, Relists, Zenon

\* A box goes out and is freed.
LEMMA GoesOut ==
  ASSUME FifoInv, q.open, NEW k \in 1 .. Len(Queue), Linked(RemoveAt(Queue, k)),
         obj' = [obj EXCEPT ![Queue[k]] = Null], held' = held
  PROVE  FifoInv' /\ F!Abstract!TakeOut(k) /\ q'.open = q.open
<1>1. /\ obj \in [Box -> Object \cup {Null}] /\ held \subseteq Box
      /\ \A x \in Box : obj[x] # Null <=> x \in held \/ In(Queue, x)
      /\ \A x \in held : ~In(Queue, x)
      /\ Queue \in Seq(Box)
      /\ \A i, j \in 1 .. Len(Queue) : Queue[i] = Queue[j] => i = j
      /\ \A i \in 1 .. Len(Queue) : Queue[i] \in Box /\ Queue[i] # Null
  BY FifoParts
<1> PICK s : s = RemoveAt(Queue, k)
  OBVIOUS
<1> PICK b : b = Queue[k]
  OBVIOUS
<1>2. \A x : In(s, x) <=> In(Queue, x) /\ x # b
  BY <1>1, InWithout
<1>3. b \in Box /\ In(Queue, b)
  BY <1>1 DEF In
<1>4. obj' \in [Box -> Object \cup {Null}]
  BY <1>1
<1>5. \A x \in Box : obj'[x] # Null <=> x \in held' \/ In(s, x)
  BY <1>1, <1>2, <1>3
<1>6. \A x \in held' : ~In(s, x)
  BY <1>1, <1>2
<1>7. FifoInv' /\ Queue' = s /\ q'.open = q.open
  BY <1>1, <1>4, <1>5, <1>6, Relists, Zenon
<1>8. s = F!Abstract!RemoveAt(Queue, k)
  BY DEF RemoveAt, F!Abstract!RemoveAt
<1>9. Queue' = F!Abstract!RemoveAt(Queue, k)
  BY <1>7, <1>8
<1> QED BY <1>7, <1>9 DEF F!Abstract!TakeOut, Queue

LEMMA FreshIs ==
  ASSUME FifoInv, NEW b \in Box, b \notin F!Allocated
  PROVE  b \in F!Abstract!Fresh /\ ~In(Queue, b)
<1>1. /\ \A x \in Box : obj[x] # Null <=> x \in held \/ In(Queue, x)
      /\ Queue \in Seq(Box)
  BY FifoParts
<1>2. b \notin held /\ ~In(Queue, b)
  BY <1>1 DEF F!Allocated
<1> PICK s : s = Queue
  OBVIOUS
<1>3. DOMAIN s = 1 .. Len(s)
  BY <1>1
<1>4. b \notin F!Abstract!Range(s)
  BY <1>2, <1>3 DEF In, F!Abstract!Range
<1> QED BY <1>2, <1>4 DEF F!Abstract!Fresh, Queue

LEMMA PushBackSteps ==
  ASSUME FifoInv, NEW b \in Box, NEW o \in Object, F!PushBack(b, o)
  PROVE  FifoInv' /\ F!Abstract!PushBack(b, o)
<1>1. /\ q.open /\ b \notin F!Allocated /\ F!LinkBack(b) /\ held' = held
      /\ obj' = [obj EXCEPT ![b] = o] /\ F!Answers(b, <<>>)
  BY DEF F!PushBack
<1>2. b \in F!Abstract!Fresh /\ ~In(Queue, b)
  BY <1>1, FreshIs
<1> PICK s : s = Append(Queue, b)
  BY Zenon
<1>3. Linked(s)
  BY <1>1, <1>2, LinkBackIs
<1>4. \A x : In(s, x) <=> In(Queue, x) \/ x = b
  BY FifoParts, InAppend
<1>5. FifoInv' /\ Queue' = s /\ q'.open = q.open
  BY <1>1, <1>3, <1>4, ComesIn, Zenon
<1>6. Queue' = Append(Queue, b)
  BY <1>5
<1> QED BY <1>1, <1>2, <1>5, <1>6 DEF F!Abstract!PushBack, F!Abstract!Answers, F!Answers, Queue

LEMMA PushFrontSteps ==
  ASSUME FifoInv, NEW b \in Box, NEW o \in Object, F!PushFront(b, o)
  PROVE  FifoInv' /\ F!Abstract!PushFront(b, o)
<1>1. /\ q.open /\ b \notin F!Allocated /\ F!LinkFront(b) /\ held' = held
      /\ obj' = [obj EXCEPT ![b] = o] /\ F!Answers(b, <<>>)
  BY DEF F!PushFront
<1>2. b \in F!Abstract!Fresh /\ ~In(Queue, b)
  BY <1>1, FreshIs
<1> PICK s : s = <<b>> \o Queue
  BY Zenon
<1>3. Linked(s)
  BY <1>1, <1>2, LinkFrontIs
<1>4. \A x : In(s, x) <=> In(Queue, x) \/ x = b
  BY FifoParts, InPrepend
<1>5. FifoInv' /\ Queue' = s /\ q'.open = q.open
  BY <1>1, <1>3, <1>4, ComesIn, Zenon
<1>6. Queue' = <<b>> \o Queue
  BY <1>5
<1> QED BY <1>1, <1>2, <1>5, <1>6 DEF F!Abstract!PushFront, F!Abstract!Answers, F!Answers, Queue

LEMMA PushInfoSteps ==
  ASSUME FifoInv, NEW b \in Box, F!PushInfo(b)
  PROVE  FifoInv' /\ F!Abstract!PushInfo(b)
<1>1. /\ q.open /\ b \in held /\ F!LinkBack(b) /\ held' = held \ {b}
      /\ obj' = obj /\ F!Answers(Null, <<>>)
  BY DEF F!PushInfo
<1>2. /\ obj \in [Box -> Object \cup {Null}] /\ held \subseteq Box
      /\ \A x \in Box : obj[x] # Null <=> x \in held \/ In(Queue, x)
      /\ \A x \in held : ~In(Queue, x)
  BY FifoParts
<1> PICK s : s = Append(Queue, b)
  BY Zenon
<1>3. Linked(s)
  BY <1>1, <1>2, LinkBackIs
<1>4. \A x : In(s, x) <=> In(Queue, x) \/ x = b
  BY FifoParts, InAppend
<1>5. obj' \in [Box -> Object \cup {Null}] /\ held' \subseteq Box
  BY <1>1, <1>2
<1>6. \A x \in Box : obj'[x] # Null <=> x \in held' \/ In(s, x)
  BY <1>1, <1>2, <1>4
<1>7. \A x \in held' : ~In(s, x)
  BY <1>1, <1>2, <1>4
<1>8. FifoInv' /\ Queue' = s /\ q'.open = q.open
  BY <1>1, <1>3, <1>5, <1>6, <1>7, Relists, Zenon
<1>9. Queue' = Append(Queue, b)
  BY <1>8
<1> QED BY <1>1, <1>8, <1>9 DEF F!Abstract!PushInfo, F!Abstract!Answers, F!Answers, Queue

\* Nothing is taken from an empty queue.
LEMMA EmptyIff ==
  ASSUME FifoInv
  PROVE  /\ (q.head = Null) <=> (Queue = <<>>)
         /\ (q.tail = Null) <=> (Queue = <<>>)
<1>1. /\ Queue \in Seq(Box) /\ Len(Queue) \in Nat
      /\ q.head = IF Len(Queue) = 0 THEN Null ELSE Queue[1]
      /\ q.tail = IF Len(Queue) = 0 THEN Null ELSE Queue[Len(Queue)]
      /\ \A i \in 1 .. Len(Queue) : Queue[i] \in Box /\ Queue[i] # Null
  BY FifoParts
<1> PICK s : s = Queue
  OBVIOUS
<1>2. Len(s) = 0 <=> s = <<>>
  BY <1>1
<1>3. Len(s) # 0 => 1 \in 1 .. Len(s) /\ Len(s) \in 1 .. Len(s)
  BY <1>1
<1> QED BY <1>1, <1>2, <1>3

LEMMA FifoKept ==
  ASSUME FifoInv, UNCHANGED <<q, next, prev, obj, held>>
  PROVE  FifoInv' /\ Queue' = Queue
<1>1. FifoIs(Queue, q', next', prev', obj', held')
  BY DEF FifoInv
<1> QED BY <1>1, FifoBecomes

LEMMA PopFrontSteps ==
  ASSUME FifoInv, F!PopFront
  PROVE  FifoInv' /\ F!Abstract!PopFront
<1>1. q.open /\ next' = next /\ held' = held
  BY DEF F!PopFront
<1>2. CASE q.head = Null
  <2>1. F!Answers(Null, <<>>) /\ UNCHANGED <<q, prev, obj>> /\ Queue = <<>>
    BY <1>2, EmptyIff DEF F!PopFront
  <2>2. FifoInv' /\ Queue' = Queue
    BY <1>1, <2>1, FifoKept
  <2> QED BY <1>1, <2>1, <2>2, Zenon DEF F!Abstract!PopFront, F!Abstract!Answers, F!Answers, Queue
<1>3. CASE q.head # Null
  <2>1. F!HeadOff /\ F!Answers(obj[q.head], <<>>) /\ obj' = [obj EXCEPT ![q.head] = Null]
        /\ Queue # <<>>
    BY <1>3, EmptyIff DEF F!PopFront
  <2>2. Linked(RemoveAt(Queue, 1)) /\ 1 \in 1 .. Len(Queue) /\ q.head = Queue[1]
    BY <1>1, <1>3, <2>1, HeadOffIs
  <2>3. obj' = [obj EXCEPT ![Queue[1]] = Null]
    BY <2>1, <2>2
  <2>4. FifoInv' /\ F!Abstract!TakeOut(1) /\ q'.open = q.open
    <3> DEFINE k == 1
    <3>1. k \in 1 .. Len(Queue) /\ Linked(RemoveAt(Queue, k))
          /\ obj' = [obj EXCEPT ![Queue[k]] = Null]
      BY <2>2, <2>3
    <3> HIDE DEF k
    <3>2. FifoInv' /\ F!Abstract!TakeOut(k) /\ q'.open = q.open
      BY <1>1, <3>1, GoesOut, Zenon
    <3> QED BY <3>2 DEF k
  <2>5. qAnswer' = [ret |-> obj[Head(Queue)], all |-> <<>>]
    BY <2>1, <2>2 DEF F!Answers
  <2> QED BY <1>1, <2>1, <2>4, <2>5 DEF F!Abstract!PopFront, F!Abstract!Answers, Queue
<1> QED BY <1>2, <1>3

LEMMA PopBackSteps ==
  ASSUME FifoInv, F!PopBack
  PROVE  FifoInv' /\ F!Abstract!PopBack
<1>1. q.open /\ prev' = prev /\ held' = held
  BY DEF F!PopBack
<1>2. CASE q.tail = Null
  <2>1. F!Answers(Null, <<>>) /\ UNCHANGED <<q, next, obj>> /\ Queue = <<>>
    BY <1>2, EmptyIff DEF F!PopBack
  <2>2. FifoInv' /\ Queue' = Queue
    BY <1>1, <2>1, FifoKept
  <2> QED BY <1>1, <2>1, <2>2, Zenon DEF F!Abstract!PopBack, F!Abstract!Answers, F!Answers, Queue
<1>3. CASE q.tail # Null
  <2>1. F!TailOff /\ F!Answers(obj[q.tail], <<>>) /\ obj' = [obj EXCEPT ![q.tail] = Null]
        /\ Queue # <<>>
    BY <1>3, EmptyIff DEF F!PopBack
  <2>2. /\ Linked(RemoveAt(Queue, Len(Queue)))
        /\ Len(Queue) \in 1 .. Len(Queue) /\ q.tail = Queue[Len(Queue)]
    BY <1>1, <1>3, <2>1, TailOffIs
  <2>3. obj' = [obj EXCEPT ![Queue[Len(Queue)]] = Null]
    BY <2>1, <2>2
  <2>4. FifoInv' /\ F!Abstract!TakeOut(Len(Queue)) /\ q'.open = q.open
    BY <1>1, <2>2, <2>3, GoesOut, Zenon
  <2>5. qAnswer' = [ret |-> obj[F!Abstract!Last(Queue)], all |-> <<>>]
    BY <2>1, <2>2 DEF F!Answers, F!Abstract!Last
  <2> QED BY <1>1, <2>1, <2>4, <2>5 DEF F!Abstract!PopBack, F!Abstract!Answers, Queue
<1> QED BY <1>2, <1>3

LEMMA PopInfoSteps ==
  ASSUME FifoInv, F!PopInfo
  PROVE  FifoInv' /\ F!Abstract!PopInfo
<1>1. q.open /\ next' = next /\ obj' = obj
  BY DEF F!PopInfo
<1>2. CASE q.head = Null
  <2>1. F!Answers(Null, <<>>) /\ UNCHANGED <<q, prev, held>> /\ Queue = <<>>
    BY <1>2, EmptyIff DEF F!PopInfo
  <2>2. FifoInv' /\ Queue' = Queue
    BY <1>1, <2>1, FifoKept
  <2> QED BY <1>1, <2>1, <2>2, Zenon DEF F!Abstract!PopInfo, F!Abstract!Answers, F!Answers, Queue
<1>3. CASE q.head # Null
  <2>1. F!HeadOff /\ F!Answers(q.head, <<>>) /\ held' = held \cup {q.head} /\ Queue # <<>>
    BY <1>3, EmptyIff DEF F!PopInfo
  <2>2. Linked(RemoveAt(Queue, 1)) /\ 1 \in 1 .. Len(Queue) /\ q.head = Queue[1]
    BY <1>1, <1>3, <2>1, HeadOffIs
  <2>3. /\ obj \in [Box -> Object \cup {Null}] /\ held \subseteq Box /\ Queue \in Seq(Box)
        /\ \A x \in Box : obj[x] # Null <=> x \in held \/ In(Queue, x)
        /\ \A x \in held : ~In(Queue, x)
        /\ \A i, j \in 1 .. Len(Queue) : Queue[i] = Queue[j] => i = j
        /\ \A i \in 1 .. Len(Queue) : Queue[i] \in Box /\ Queue[i] # Null
    BY FifoParts
  <2> PICK b : b = q.head
    OBVIOUS
  <2> PICK s : s = RemoveAt(Queue, 1)
    OBVIOUS
  <2>4. b \in Box /\ In(Queue, b) /\ held' = held \cup {b}
    BY <2>1, <2>2, <2>3 DEF In
  <2>5. \A x : In(s, x) <=> In(Queue, x) /\ x # b
    <3> DEFINE k == 1
    <3>1. k \in 1 .. Len(Queue) /\ Queue \in Seq(Box) /\ b = Queue[k]
          /\ s = RemoveAt(Queue, k)
      BY <2>2, <2>3
    <3> HIDE DEF k
    <3> QED BY <2>3, <3>1, InWithout
  <2>6. obj' \in [Box -> Object \cup {Null}] /\ held' \subseteq Box
    BY <1>1, <2>3, <2>4
  <2>7. \A x \in Box : obj'[x] # Null <=> x \in held' \/ In(s, x)
    BY <1>1, <2>3, <2>4, <2>5
  <2>8. \A x \in held' : ~In(s, x)
    BY <2>3, <2>4, <2>5
  <2>9. FifoInv' /\ Queue' = s /\ q'.open = q.open
    BY <1>1, <2>2, <2>6, <2>7, <2>8, Relists, Zenon
  <2>10. s = Tail(Queue)
    <3> PICK r : r = Queue
      OBVIOUS
    <3>1. r \in Seq(Box) /\ r # <<>>
      BY <2>1, <2>3
    <3>0. /\ Tail(r) \in Seq(Box) /\ Len(Tail(r)) = Len(r) - 1
          /\ \A i \in 1 .. Len(r) - 1 : Tail(r)[i] = r[i + 1]
      BY <3>1
    <3>2. RemoveAt(r, 1) \in Seq(Box) /\ Len(RemoveAt(r, 1)) = Len(r) - 1
          /\ \A i \in 1 .. Len(r) - 1 : RemoveAt(r, 1)[i] = r[IF i < 1 THEN i ELSE i + 1]
      <4> DEFINE k == 1
      <4>1. k \in 1 .. Len(r) /\ r \in Seq(Box)
        BY <2>2, <2>3
      <4> HIDE DEF k
      <4>2. Without(Box, RemoveAt(r, k), r, k)
        BY <4>1, RemoveAtProperties
      <4> QED BY <4>2 DEF Without, k
    <3> PICK w : w = RemoveAt(r, 1)
      OBVIOUS
    <3>3. \A i \in 1 .. Len(r) - 1 : w[i] = r[i + 1]
      BY <3>2
    <3> PICK z : z = Tail(r)
      BY Zenon
    <3>4. w \in Seq(Box) /\ z \in Seq(Box) /\ Len(w) = Len(z)
          /\ \A i \in 1 .. Len(w) : w[i] = z[i]
      BY <3>0, <3>2, <3>3, Zenon
    <3>5. w = z
      BY <3>4
    <3> QED BY <3>5
  <2>11. b = Head(Queue)
    BY <2>2
  <2>12. Queue' = Tail(Queue) /\ held' = held \cup {Head(Queue)}
         /\ qAnswer' = [ret |-> Head(Queue), all |-> <<>>]
    BY <2>1, <2>4, <2>9, <2>10, <2>11 DEF F!Answers
  <2> QED BY <1>1, <2>1, <2>9, <2>12 DEF F!Abstract!PopInfo, F!Abstract!Answers, Queue
<1> QED BY <1>2, <1>3

LEMMA DeleteInfoSteps ==
  ASSUME FifoInv, NEW b \in Box, F!DeleteInfo(b)
  PROVE  FifoInv' /\ F!Abstract!DeleteInfo(b)
<1>1. /\ q.open /\ b \in F!Allocated /\ b \notin held /\ F!Unlink(b)
      /\ held' = held /\ F!Answers(Null, <<>>)
  BY DEF F!DeleteInfo
<1>2. /\ \A x \in Box : obj[x] # Null <=> x \in held \/ In(Queue, x)
      /\ Queue \in Seq(Box)
  BY FifoParts
<1>3. In(Queue, b)
  BY <1>1, <1>2 DEF F!Allocated
<1>4. PICK k \in 1 .. Len(Queue) : Queue[k] = b
  BY <1>3 DEF In
<1>5. Linked(RemoveAt(Queue, k)) /\ obj' = [obj EXCEPT ![b] = Null]
  BY <1>1, <1>4, UnlinkIs
<1>6. obj' = [obj EXCEPT ![Queue[k]] = Null]
  BY <1>4, <1>5
<1>7. FifoInv' /\ F!Abstract!TakeOut(k) /\ q'.open = q.open
  BY <1>1, <1>5, <1>6, GoesOut, Zenon
<1>8. k \in DOMAIN Queue
  BY <1>2
<1>9. \E i \in DOMAIN Queue : Queue[i] = b /\ F!Abstract!TakeOut(i)
  BY <1>4, <1>7, <1>8
<1> QED BY <1>1, <1>7, <1>9 DEF F!Abstract!DeleteInfo, F!Abstract!Answers, F!Answers, Queue

\* The first place at which an object is.
LEMMA FirstIs ==
  ASSUME FifoInv, NEW o
  PROVE  LET b == F!SelectInSeq(F!Forward, LAMBDA x : x = o)
             at == {i \in DOMAIN Queue : obj[Queue[i]] = o}
         IN  /\ at = {} <=> b = 0
             /\ at # {} => b \in at /\ \A i \in at : b <= i
<1> DEFINE s == Queue
           w == [i \in DOMAIN s |-> obj[s[i]]]
           at == {i \in DOMAIN s : obj[s[i]] = o}
           I == {i \in 1 .. Len(w) : w[i] = o}
           b == F!SelectInSeq(w, LAMBDA x : x = o)
<1>1. s \in Seq(Box) /\ DOMAIN s = 1 .. Len(s)
  BY FifoParts
<1>2. F!Forward = w
  BY DEF F!Forward, Queue
<1> HIDE DEF s
<1>3. Len(w) = Len(s) /\ \A i \in 1 .. Len(s) : w[i] = obj[s[i]]
  BY <1>1
<1>4. I = at
  BY <1>1, <1>3
<1>5. b = IF I # {} THEN F!Min(I) ELSE 0
  BY DEF F!SelectInSeq
<1>6. at \in SUBSET Nat /\ 0 \notin at
  BY <1>1
<1> HIDE DEF at, I, w, b
<1>7. CASE at = {}
  BY <1>2, <1>4, <1>5, <1>7, Zenon DEF at, b, s
<1>8. CASE at # {}
  <2>1. \E m \in at : \A i \in at : m <= i
    BY <1>6, <1>8, LeastExists
  <2>2. F!Min(at) = CHOOSE x \in at : \A y \in at : x <= y
    BY DEF F!Min
  <2>3. F!Min(at) \in at /\ \A i \in at : F!Min(at) <= i
    BY <2>1, <2>2
  <2>4. b = F!Min(at)
    BY <1>4, <1>5, <1>8
  <2>5. b \in at /\ b # 0 /\ \A i \in at : b <= i
    BY <1>6, <2>3, <2>4
  <2> QED BY <1>2, <1>8, <2>5, Zenon DEF at, b, s
<1> QED BY <1>7, <1>8, Zenon

LEMMA DeleteSteps ==
  ASSUME FifoInv, NEW o, F!Delete(o)
  PROVE  FifoInv' /\ F!Abstract!Delete(o)
<1> DEFINE at == {i \in DOMAIN Queue : obj[Queue[i]] = o}
           k == F!SelectInSeq(F!Forward, LAMBDA x : x = o)
<1>1. (at = {} <=> k = 0) /\ (at # {} => k \in at /\ \A i \in at : k <= i)
  BY FirstIs, Zenon
<1>2. q.open /\ held' = held
  BY DEF F!Delete
<1>3. Queue \in Seq(Box) /\ DOMAIN Queue = 1 .. Len(Queue)
  BY FifoParts
<1>4. CASE k = 0
  <2>1. F!Answers(0, <<>>) /\ UNCHANGED <<q, next, prev, obj>>
    BY <1>4 DEF F!Delete
  <2>2. FifoInv' /\ Queue' = Queue
    BY <1>2, <2>1, FifoKept
  <2>3. at = {}
    BY <1>1, <1>4
  <2> QED BY <1>2, <2>1, <2>2, <2>3, Zenon DEF F!Abstract!Delete, F!Abstract!Answers, F!Answers, Queue
<1>5. CASE k # 0
  <2>1. F!Answers(1, <<>>) /\ F!Unlink(F!Along(next, q.head)[k])
    BY <1>5 DEF F!Delete
  <2>2. F!Unlink(Queue[k])
    BY <2>1 DEF Queue
  <2>3. at # {} /\ k \in at /\ \A i \in at : k <= i
    BY <1>1, <1>5, Zenon
  <2>4. k \in 1 .. Len(Queue)
    BY <1>3, <2>3
  <2>5. Linked(RemoveAt(Queue, k)) /\ obj' = [obj EXCEPT ![Queue[k]] = Null]
    BY <2>2, <2>4, UnlinkIs, Zenon
  <2>6. FifoInv' /\ F!Abstract!TakeOut(k) /\ q'.open = q.open
    BY <1>2, <2>4, <2>5, GoesOut, Zenon
  <2>7. at # {} /\ \E i \in at : (\A j \in at : i <= j) /\ F!Abstract!TakeOut(i)
    BY <2>3, <2>6, Zenon
  <2> QED BY <1>2, <2>1, <2>6, <2>7 DEF F!Abstract!Delete, F!Abstract!Answers, F!Answers, Queue
<1> QED BY <1>4, <1>5

LEMMA QueueLookSteps ==
  ASSUME FifoInv, F!Look
  PROVE  FifoInv' /\ F!Abstract!Look
<1> PICK s : s = Queue
  OBVIOUS
<1> DEFINE r == [i \in 1 .. Len(s) |-> s[Len(s) - i + 1]]
           w == [i \in DOMAIN s |-> obj[s[i]]]
<1>1. /\ q.open /\ UNCHANGED <<q, next, prev, obj, held>>
  BY DEF F!Look
<1>2. FifoInv' /\ Queue' = Queue
  BY <1>1, FifoKept
<1>3. /\ s \in Seq(Box) /\ Len(s) \in Nat /\ q.cnt = Len(s)
      /\ Chained(Box, Null, s, q.head, q.tail, next, prev)
      /\ q.head = IF Len(s) = 0 THEN Null ELSE s[1]
      /\ q.tail = IF Len(s) = 0 THEN Null ELSE s[Len(s)]
  BY FifoParts
<1>4. F!Along(prev, q.tail) = r
  <2>1. Chained(Box, Null, r, q.tail, q.head, prev, next)
    BY <1>3, ChainedBack
  <2> HIDE DEF r
  <2> QED BY <2>1, AlongIs
<1>5. F!Forward = w
  BY DEF F!Forward, Queue
<1>6. F!Backward = F!Abstract!Reverse(w)
  <2>1. F!Backward = [i \in DOMAIN r |-> obj[r[i]]]
    BY <1>4 DEF F!Backward
  <2>2. DOMAIN s = 1 .. Len(s) /\ DOMAIN r = 1 .. Len(s) /\ Len(w) = Len(s)
    BY <1>3
  <2>3. F!Abstract!Reverse(w) = [i \in 1 .. Len(s) |-> w[(Len(s) - i) + 1]]
    BY <2>2 DEF F!Abstract!Reverse
  <2>4. \A i \in 1 .. Len(s) : (Len(s) - i) + 1 \in 1 .. Len(s)
    BY <1>3
  <2>5. \A i \in 1 .. Len(s) : obj[r[i]] = w[(Len(s) - i) + 1]
    BY <2>2, <2>4
  <2> HIDE DEF r, w
  <2> QED BY <2>1, <2>2, <2>3, <2>5
<1>7. (q.head = Null) <=> (s = <<>>)
  BY EmptyIff
<1>8. s # <<>> => q.head = Head(s) /\ q.tail = F!Abstract!Last(s)
  BY <1>3 DEF F!Abstract!Last
<1> DEFINE ends == IF s = <<>> THEN <<>> ELSE <<obj[Head(s)], obj[F!Abstract!Last(s)]>>
           theirs == IF q.head = Null THEN <<>> ELSE <<obj[q.head], obj[q.tail]>>
<1>9. F!Answers(q.cnt, theirs \o F!Forward \o F!Backward)
  BY DEF F!Look
<1>10. theirs = ends
  BY <1>7, <1>8
<1> HIDE DEF w, ends, theirs
<1>11. qAnswer' = [ret |-> Len(s), all |-> ends \o w \o F!Abstract!Reverse(w)]
  BY <1>3, <1>5, <1>6, <1>9, <1>10 DEF F!Answers
<1>12. w = F!Abstract!Objects
  BY DEF w, F!Abstract!Objects, Queue
<1>13. F!Abstract!Answers(Len(s), ends \o F!Abstract!Objects \o F!Abstract!Reverse(F!Abstract!Objects))
  BY <1>11, <1>12 DEF F!Abstract!Answers
<1> QED BY <1>1, <1>2, <1>13, Zenon DEF F!Abstract!Look, ends, Queue

\* A queue without boxes.
LEMMA EmptyQueue ==
  ASSUME NEW v \in BOOLEAN, NEW u, u = [open |-> v, head |-> Null, tail |-> Null, cnt |-> 0],
         NEW n \in [Box -> Box \cup {Null}], NEW p \in [Box -> Box \cup {Null}],
         NEW c \in [Box -> Object \cup {Null}], NEW k \in SUBSET Box,
         \A b \in Box : c[b] # Null <=> b \in k
  PROVE  FifoIs(<<>>, u, n, p, c, k)
<1> DEFINE s == <<>>
<1>1. Len(s) = 0 /\ \A b : ~In(s, b)
  BY DEF In
<1>2. Chained(Box, Null, s, Null, Null, n, p)
  BY ChainedEmpty, LibraryAssumption
<1> HIDE DEF s
<1>3. u \in Ends /\ u.cnt = 0 /\ u.head = Null /\ u.tail = Null
  BY DEF Ends
<1>4. Chained(Box, Null, s, u.head, u.tail, n, p)
  BY <1>2, <1>3
<1>5. FifoIs(s, u, n, p, c, k)
  BY <1>1, <1>3, <1>4 DEF FifoIs
<1> QED BY <1>5 DEF s

LEMMA FifoBegins == LibInit => FifoInv /\ F!Abstract!Init
<1> SUFFICES ASSUME LibInit PROVE FifoInv /\ F!Abstract!Init
  OBVIOUS
<1>1. F!Init
  BY DEF LibInit
<1>2. /\ q = [open |-> FALSE, head |-> Null, tail |-> Null, cnt |-> 0]
      /\ next = [b \in Box |-> Null] /\ prev = [b \in Box |-> Null]
      /\ obj = [b \in Box |-> Null] /\ held = {}
      /\ qAnswer = [ret |-> Null, all |-> <<>>]
  BY <1>1 DEF F!Init
<1>3. /\ next \in [Box -> Box \cup {Null}] /\ prev \in [Box -> Box \cup {Null}]
      /\ obj \in [Box -> Object \cup {Null}] /\ held \in SUBSET Box
      /\ \A b \in Box : obj[b] # Null <=> b \in held
  BY <1>2
<1>4. FifoIs(<<>>, q, next, prev, obj, held)
  BY <1>2, <1>3, EmptyQueue, Zenon
<1>5. Chained(Box, Null, <<>>, q.head, q.tail, next, prev)
  BY <1>4 DEF FifoIs
<1>6. Queue = <<>>
  BY <1>5, AlongIs DEF Queue
<1>7. FifoInv
  BY <1>4, <1>6 DEF FifoInv
<1>8. q.open = FALSE
  BY <1>2
<1> QED BY <1>2, <1>6, <1>7, <1>8 DEF F!Abstract!Init, Queue

LEMMA NewSteps ==
  ASSUME FifoInv, F!New
  PROVE  FifoInv' /\ F!Abstract!New
<1>1. /\ ~q.open /\ q' = [open |-> TRUE, head |-> Null, tail |-> Null, cnt |-> 0]
      /\ F!Answers(Null, <<>>) /\ UNCHANGED <<next, prev, obj, held>>
  BY DEF F!New
<1>2. /\ next \in [Box -> Box \cup {Null}] /\ prev \in [Box -> Box \cup {Null}]
      /\ obj \in [Box -> Object \cup {Null}] /\ held \subseteq Box
      /\ \A x \in Box : obj[x] # Null <=> x \in held \/ In(Queue, x)
      /\ Queue \in Seq(Box)
  BY FifoParts
<1>3. Len(Queue) = 0
  BY <1>1 DEF FifoInv, FifoIs
<1>4. Queue = <<>> /\ \A x : ~In(Queue, x)
  BY <1>2, <1>3 DEF In
<1>5. /\ next' \in [Box -> Box \cup {Null}] /\ prev' \in [Box -> Box \cup {Null}]
      /\ obj' \in [Box -> Object \cup {Null}] /\ held' \in SUBSET Box
      /\ \A b \in Box : obj'[b] # Null <=> b \in held'
  BY <1>1, <1>2, <1>4
<1>6. FifoIs(<<>>, q', next', prev', obj', held')
  BY <1>1, <1>5, EmptyQueue, Zenon
<1>7. FifoInv' /\ Queue' = <<>>
  BY <1>6, FifoBecomes
<1>8. q'.open = TRUE
  BY <1>1
<1>9. Queue' = Queue
  BY <1>4, <1>7
<1> QED BY <1>1, <1>7, <1>8, <1>9 DEF F!Abstract!New, F!Abstract!Answers, F!Answers, Queue

LEMMA QueueFreeSteps ==
  ASSUME FifoInv, F!Free
  PROVE  FifoInv' /\ F!Abstract!Free
<1>1. /\ q.open /\ q' = [open |-> FALSE, head |-> Null, tail |-> Null, cnt |-> 0]
      /\ obj' = [b \in Box |-> IF b \in held THEN obj[b] ELSE Null]
      /\ F!Answers(0, F!Forward) /\ UNCHANGED <<next, prev, held>>
  BY DEF F!Free
<1>2. /\ next \in [Box -> Box \cup {Null}] /\ prev \in [Box -> Box \cup {Null}]
      /\ obj \in [Box -> Object \cup {Null}] /\ held \subseteq Box
      /\ \A x \in Box : obj[x] # Null <=> x \in held \/ In(Queue, x)
  BY FifoParts
<1>3. /\ next' \in [Box -> Box \cup {Null}] /\ prev' \in [Box -> Box \cup {Null}]
      /\ obj' \in [Box -> Object \cup {Null}] /\ held' \in SUBSET Box
      /\ \A b \in Box : obj'[b] # Null <=> b \in held'
  BY <1>1, <1>2
<1>4. FifoIs(<<>>, q', next', prev', obj', held')
  BY <1>1, <1>3, EmptyQueue, Zenon
<1>5. FifoInv' /\ Queue' = <<>>
  BY <1>4, FifoBecomes
<1>6. F!Forward = F!Abstract!Objects
  BY DEF F!Forward, F!Abstract!Objects
<1>7. q'.open = FALSE
  BY <1>1
<1> QED BY <1>1, <1>5, <1>6, <1>7 DEF F!Abstract!Free, F!Abstract!Answers, F!Answers, Queue

FifoStep == [F!Abstract!Next]_(F!Abstract!vars)

LEMMA FifoStays ==
  ASSUME FifoInv, [LibNext]_libvars
  PROVE  FifoInv' /\ FifoStep
<1> USE DEF FifoStep
<1>1. [F!Next]_(F!vars)
  BY DEF LibNext, IdleRest, libvars, F!vars
<1>2. ASSUME NEW b \in Box, NEW o \in Object, F!PushBack(b, o) \/ F!PushFront(b, o)
      PROVE  FifoInv' /\ FifoStep
  BY <1>2, PushBackSteps, PushFrontSteps DEF F!Abstract!Next
<1>3. ASSUME NEW o \in Object, F!Delete(o)
      PROVE  FifoInv' /\ FifoStep
  BY <1>3, DeleteSteps DEF F!Abstract!Next
<1>4. ASSUME NEW b \in Box, F!PushInfo(b) \/ F!DeleteInfo(b)
      PROVE  FifoInv' /\ FifoStep
  BY <1>4, PushInfoSteps, DeleteInfoSteps DEF F!Abstract!Next
<1>5. CASE F!New \/ F!PopFront \/ F!PopBack \/ F!PopInfo \/ F!Look \/ F!Free
  BY <1>5, NewSteps, PopFrontSteps, PopBackSteps, PopInfoSteps, QueueLookSteps, QueueFreeSteps
     DEF F!Abstract!Next
<1>6. CASE UNCHANGED F!vars
  <2>1. UNCHANGED <<q, next, prev, obj, held>> /\ qAnswer' = qAnswer
    BY <1>6 DEF F!vars
  <2>2. FifoInv' /\ Queue' = Queue
    BY <2>1, FifoKept
  <2> QED BY <2>1, <2>2 DEF F!Abstract!vars, Queue
<1> QED BY <1>1, <1>2, <1>3, <1>4, <1>5, <1>6 DEF F!Next

\* Fifo: boxes put in at either end, popped, handed out, put back and taken out
\* of the middle in any order leave what a sequence would, read from either
\* end; every call answers what the sequence answers, and the count that each
\* call keeps by itself is its length (fifo.c:5-349).
THEOREM QueuesAreDeques == LibSpec => FifoImplementsDeque
<1>1. LibInit => FifoInv /\ F!Abstract!Init
  BY FifoBegins
<1>2. FifoInv /\ [LibNext]_libvars => FifoInv' /\ [F!Abstract!Next]_(F!Abstract!vars)
  BY FifoStays DEF FifoStep
<1> QED BY <1>1, <1>2, PTL DEF LibSpec, FifoImplementsDeque, F!ImplementsDeque, F!Abstract!Spec

LEMMA ClockSteps == ASSUME [LibNext]_libvars PROVE [C!Next]_(C!vars)
BY DEF LibNext, IdleRest, libvars, C!vars

\* Clock: as long as the system's time is only put forward, what a thread is
\* told never goes back, across the renewals of its base, whatever passes between
\* them and their stamps, and with microseconds that are not carried; and when
\* the last change was a day before the call, it is the system's time but for
\* what the thread was kept between base and stamp and one millisecond lost in
\* rounding, whatever the rate of the counter (gettimeofday.c:76-134,
\* ct_event.h:10-14).
THEOREM ClocksReadTheTime == LibSpec => ClockReadsTheTime
<1>1. LibInit => ClockInv
  BY ClockBegins DEF LibInit
<1>2. ClockInv /\ [LibNext]_libvars => ClockInv'
  BY ClockSteps, ClockStays
<1> DEFINE Right == \A t \in Reader : C!Tell(t) /\ ~set.back =>
       /\ told'[t] >= told[t]
       /\ C!Settled(call[t].asked) =>
            told'[t] - (C!TimeAgo(call[t].late) * Millis) \div Micros \in {-1, 0}
<1>3. ClockInv => Right
  BY ToldIsRight
<1>4. ClockInv /\ [LibNext]_libvars => [Right]_(C!vars)
  BY <1>3
<1> QED BY <1>1, <1>2, <1>4, PTL DEF LibSpec, ClockReadsTheTime, C!ReadsTheTime

-----------------------------------------------------------------------------
\* Htable: the chains are lists, each of keys of its own.

SlotIn(n) == [k \in TableKey |-> (Hash[k] % n)]

Tab(z, i, u, d, n, p, v) ==
  [size |-> z, initSize |-> i, used |-> u, data |-> d, next |-> n, prev |-> p, value |-> v]

\* The keys in the lists B, as many as there are slots.
There(B, n) == {k \in TableKey : In(B[SlotIn(n)[k]], k)}

\* The chains of t are B.
HashIs(t, B) ==
  /\ t = Tab(t.size, t.initSize, t.used, t.data, t.next, t.prev, t.value)
  /\ t.size \in Nat \ {0} /\ t.initSize \in Int
  /\ t.value \in [TableKey -> Stored \cup {Null}]
  /\ Bucketed(TableKey, Null, SlotIn(t.size), t.size, B, t.data, t.next, t.prev)
  /\ t.used = Cardinality(There(B, t.size))

\* The keys of t are W.
HashWith(t, W) == \E B : HashIs(t, B) /\ There(B, t.size) = W

HashInv == table = H!NoTable \/ \E W : HashWith(table, W)

LEMMA SlotIs ==
  ASSUME NEW n \in Nat \ {0}
  PROVE  /\ SlotIn(n) \in [TableKey -> 0 .. n - 1]
         /\ \A k \in TableKey : SlotIn(n)[k] = (Hash[k] % n)
<1>1. \A k \in TableKey : Hash[k] \in Nat
  BY LibraryAssumption
<1>2. \A x \in Nat : (x % n) \in 0 .. n - 1
  OBVIOUS
<1> QED BY <1>1, <1>2 DEF SlotIn

\* A table is its parts.
LEMMA HashMakes ==
  ASSUME NEW z \in Nat \ {0}, NEW i \in Int, NEW d, NEW n, NEW p,
         NEW v \in [TableKey -> Stored \cup {Null}], NEW B, NEW u,
         Bucketed(TableKey, Null, SlotIn(z), z, B, d, n, p),
         u = Cardinality(There(B, z))
  PROVE  /\ HashIs(Tab(z, i, u, d, n, p, v), B)
         /\ HashWith(Tab(z, i, u, d, n, p, v), There(B, z))
<1> DEFINE t == Tab(z, i, u, d, n, p, v)
<1>1. /\ t.size = z /\ t.initSize = i /\ t.used = u /\ t.data = d /\ t.next = n
      /\ t.prev = p /\ t.value = v
  BY DEF Tab
<1> HIDE DEF t
<1>2. t = Tab(t.size, t.initSize, t.used, t.data, t.next, t.prev, t.value)
  BY <1>1 DEF t
<1>3. HashIs(t, B)
  BY <1>1, <1>2 DEF HashIs
<1>4. HashWith(t, There(B, z))
  BY <1>1, <1>3 DEF HashWith
<1> QED BY <1>3, <1>4 DEF t

LEMMA KeysAreSome == H!Cardinality(TableKey) = Cardinality(TableKey)
BY DEF H!Cardinality, Cardinality

LEMMA ThereIs ==
  ASSUME NEW B, NEW n
  PROVE  /\ There(B, n) \subseteq TableKey /\ IsFiniteSet(There(B, n))
         /\ Cardinality(There(B, n)) \in Nat
<1>1. There(B, n) \subseteq TableKey /\ IsFiniteSet(TableKey)
  BY LibraryAssumption DEF There
<1>2. IsFiniteSet(There(B, n))
  BY <1>1, FS_Subset
<1> QED BY <1>1, <1>2, FS_CardinalityType

LEMMA HashChain ==
  ASSUME NEW t, NEW B, HashIs(t, B), NEW i \in 0 .. t.size - 1
  PROVE  /\ H!Chain(t, t.data[i]) = B[i] /\ B[i] \in Seq(TableKey)
         /\ Chained(TableKey, Null, B[i], t.data[i], End(B[i], Null), t.next, t.prev)
<1>1. Chained(TableKey, Null, B[i], t.data[i], End(B[i], Null), t.next, t.prev)
  BY DEF HashIs, Bucketed
<1>2. Len(B[i]) <= Cardinality(TableKey) /\ Cardinality(TableKey) \in Nat
  BY <1>1, ChainedFits, LibraryAssumption
<1>3. AlongLink(t.next, t.data[i], Cardinality(TableKey), Null) = B[i]
  BY <1>1, <1>2, AlongLinkIs
<1>4. AlongLink(t.next, t.data[i], H!Cardinality(TableKey), Null) = H!Chain(t, t.data[i])
  BY DEF AlongLink, H!Chain
<1>5. B[i] \in Seq(TableKey)
  BY <1>1, ChainedParts
<1> QED BY <1>1, <1>3, <1>4, <1>5, KeysAreSome

LEMMA HashLocates ==
  ASSUME NEW t, NEW W, HashWith(t, W), NEW k \in TableKey
  PROVE  /\ H!Locate(t, k) = IF k \in W THEN k ELSE Null
         /\ k # Null
<1> PICK B : HashIs(t, B) /\ There(B, t.size) = W
  BY DEF HashWith
<1> PICK i \in 0 .. t.size - 1 : i = SlotIn(t.size)[k] /\ i = H!Slot(t, k)
  BY SlotIs DEF HashIs, H!Slot
<1>1. H!Chain(t, t.data[i]) = B[i] /\ B[i] \in Seq(TableKey)
  BY HashChain
<1>2. k \in H!Range(B[i]) <=> In(B[i], k)
  BY <1>1 DEF H!Range, In
<1>3. k \in W <=> In(B[i], k)
  BY Zenon DEF There
<1>4. H!Locate(t, k) = IF k \in H!Range(H!Chain(t, t.data[H!Slot(t, k)])) THEN k ELSE Null
  BY DEF H!Locate
<1> QED BY <1>1, <1>2, <1>3, <1>4, LibraryAssumption

\* The keys of lists of which one has changed.
LEMMA ThereAfter ==
  ASSUME NEW n \in Nat \ {0}, NEW B, NEW R, NEW k \in TableKey, NEW i, i = SlotIn(n)[k],
         NEW s, B \in [0 .. n - 1 -> Seq(TableKey)], R = [B EXCEPT ![i] = s],
         \A x : x # k => (In(s, x) <=> In(B[i], x))
  PROVE  \A x : x # k => (x \in There(R, n) <=> x \in There(B, n))
<1> SUFFICES ASSUME NEW x \in TableKey, x # k
             PROVE  In(R[SlotIn(n)[x]], x) <=> In(B[SlotIn(n)[x]], x)
  BY DEF There
<1> PICK j \in 0 .. n - 1 : j = SlotIn(n)[x]
  BY SlotIs
<1>1. i \in 0 .. n - 1
  BY SlotIs
<1>2. R[j] = IF j = i THEN s ELSE B[j]
  BY <1>1
<1> QED BY <1>2

\* A table in parts that have names.
LEMMA HashOpens ==
  ASSUME NEW t, NEW W, HashWith(t, W)
  PROVE  \E z, i, v, u, d, n, p, B, g :
           /\ z \in Nat \ {0} /\ i \in Int /\ v \in [TableKey -> Stored \cup {Null}]
           /\ t = Tab(z, i, u, d, n, p, v) /\ g = SlotIn(z)
           /\ Bucketed(TableKey, Null, g, z, B, d, n, p)
           /\ u = Cardinality(W) /\ There(B, z) = W
<1> PICK B : HashIs(t, B) /\ There(B, t.size) = W
  BY DEF HashWith
<1>1. /\ t = Tab(t.size, t.initSize, t.used, t.data, t.next, t.prev, t.value)
      /\ t.size \in Nat \ {0} /\ t.initSize \in Int
      /\ t.value \in [TableKey -> Stored \cup {Null}]
      /\ Bucketed(TableKey, Null, SlotIn(t.size), t.size, B, t.data, t.next, t.prev)
      /\ t.used = Cardinality(W)
  BY DEF HashIs
<1> PICK z, i, v, u, d, n, p, g :
         /\ z \in Nat \ {0} /\ i \in Int /\ v \in [TableKey -> Stored \cup {Null}]
         /\ z = t.size /\ i = t.initSize /\ v = t.value /\ u = t.used /\ d = t.data
         /\ n = t.next /\ p = t.prev /\ g = SlotIn(z)
  BY <1>1
<1>2. /\ t = Tab(z, i, u, d, n, p, v) /\ g = SlotIn(z)
      /\ Bucketed(TableKey, Null, g, z, B, d, n, p)
      /\ u = Cardinality(W) /\ There(B, z) = W
  BY <1>1
<1> QED BY <1>2, Zenon

\* A call that leaves sizes and values.
Relinks(t, u, d, n, p) == [t EXCEPT !.next = n, !.prev = p, !.data = d, !.used = u]

LEMMA TabChanges ==
  ASSUME NEW z, NEW i, NEW u, NEW d, NEW n, NEW p, NEW v, NEW u2, NEW d2, NEW n2, NEW p2,
         NEW t, t = Tab(z, i, u, d, n, p, v)
  PROVE  Relinks(t, u2, d2, n2, p2) = Tab(z, i, u2, d2, n2, p2, v)
<1>1. [Tab(z, i, u, d, n, p, v) EXCEPT !.next = n2] = Tab(z, i, u, d, n2, p, v)
  BY DEF Tab
<1>2. [Tab(z, i, u, d, n2, p, v) EXCEPT !.prev = p2] = Tab(z, i, u, d, n2, p2, v)
  BY DEF Tab
<1>3. [Tab(z, i, u, d, n2, p2, v) EXCEPT !.data = d2] = Tab(z, i, u, d2, n2, p2, v)
  BY DEF Tab
<1>4. [Tab(z, i, u, d2, n2, p2, v) EXCEPT !.used = u2] = Tab(z, i, u2, d2, n2, p2, v)
  BY DEF Tab
<1>5. Relinks(t, u2, d2, n2, p2)
        = [[[[t EXCEPT !.next = n2] EXCEPT !.prev = p2] EXCEPT !.data = d2] EXCEPT !.used = u2]
  BY DEF Relinks
<1> QED BY <1>1, <1>2, <1>3, <1>4, <1>5, Zenon

LEMMA HashLinks ==
  ASSUME NEW t, NEW W, HashWith(t, W), NEW k \in TableKey, k \notin W
  PROVE  /\ HashWith(H!Link(t, k), W \cup {k})
         /\ H!Link(t, k).size = t.size /\ H!Link(t, k).initSize = t.initSize
         /\ H!Link(t, k).value = t.value
<1> PICK z, i, v, u, d, n, p, B, g :
         /\ z \in Nat \ {0} /\ i \in Int /\ v \in [TableKey -> Stored \cup {Null}]
         /\ t = Tab(z, i, u, d, n, p, v) /\ g = SlotIn(z)
         /\ Bucketed(TableKey, Null, g, z, B, d, n, p)
         /\ u = Cardinality(W) /\ There(B, z) = W
  BY HashOpens
<1>0. t.size = z /\ t.initSize = i /\ t.data = d /\ t.next = n /\ t.prev = p /\ t.value = v /\ t.used = u
  BY DEF Tab
<1> PICK m \in 0 .. z - 1 : m = g[k] /\ m = H!Slot(t, k)
  BY <1>0, SlotIs DEF H!Slot
<1> PICK f : f = d[m]
  OBVIOUS
<1> DEFINE s == <<k>> \o B[m]
           R == [B EXCEPT ![m] = <<k>> \o @]
           d2 == [d EXCEPT ![m] = k]
           n2 == [n EXCEPT ![k] = f]
           p2 == [e \in TableKey |-> IF e = k THEN Null ELSE IF e = f THEN k ELSE p[e]]
<1>2. ~In(B[m], k)
  BY Zenon DEF There
<1>3. Bucketed(TableKey, Null, g, z, R, d2, n2, p2)
  <2>1. \A h : h = g[k] /\ ~In(B[h], k) =>
          \A e : e = d[h] =>
            Bucketed(TableKey, Null, g, z, [B EXCEPT ![h] = <<k>> \o @], [d EXCEPT ![h] = k],
                     [n EXCEPT ![k] = e],
                     [x \in TableKey |-> IF x = k THEN Null ELSE IF x = e THEN k ELSE p[x]])
    BY BucketsLink
  <2> QED BY <1>2, <2>1
<1>4. B \in [0 .. z - 1 -> Seq(TableKey)] /\ B[m] \in Seq(TableKey)
  BY DEF Bucketed
<1>5. There(R, z) = W \cup {k}
  <2>1. \A x : In(s, x) <=> In(B[m], x) \/ x = k
    BY <1>4, InPrepend
  <2> HIDE DEF s
  <2>2. R = [B EXCEPT ![m] = s]
    BY DEF s
  <2> HIDE DEF R
  <2>3. \A x : x # k => (In(s, x) <=> In(B[m], x))
    BY <2>1
  <2>4. \A x : x # k => (x \in There(R, z) <=> x \in There(B, z))
    BY <1>4, <2>2, <2>3, ThereAfter, Zenon
  <2>5. R[m] = s
    BY <1>4, <2>2
  <2>6. k \in There(R, z)
    BY <2>1, <2>5, Zenon DEF There
  <2>7. There(R, z) \subseteq TableKey /\ W \subseteq TableKey
    BY ThereIs
  <2> QED BY <2>4, <2>6, <2>7
<1>6. Cardinality(W \cup {k}) = u + 1
  <2>1. IsFiniteSet(W)
    BY ThereIs
  <2> QED BY <2>1, FS_AddElement, Zenon
<1>7. H!Link(t, k) = Tab(z, i, u + 1, d2, n2, p2, v)
  <2>1. H!Link(t, k) = Relinks(t, u + 1, d2, n2, p2)
    <3> DEFINE h == t.data[H!Slot(t, k)]
               n3 == [t.next EXCEPT ![k] = h]
               p3 == [e \in TableKey |-> IF e = k THEN Null ELSE IF e = h THEN k ELSE t.prev[e]]
               d3 == [t.data EXCEPT ![H!Slot(t, k)] = k]
               u3 == t.used + 1
    <3>1. H!Link(t, k) = Relinks(t, u3, d3, n3, p3)
      BY DEF H!Link, Relinks
    <3>2. n3 = n2 /\ d3 = d2 /\ u3 = u + 1
      BY <1>0
    <3>3. p3 = p2
      BY <1>0
    <3> HIDE DEF n3, p3, d3, u3, n2, p2, d2
    <3> QED BY <3>1, <3>2, <3>3
  <2> HIDE DEF d2, n2, p2
  <2> QED BY <2>1, TabChanges
<1> HIDE DEF d2, n2, p2, R
<1>8. HashWith(Tab(z, i, u + 1, d2, n2, p2, v), W \cup {k})
  <2>1. \A w : w = Cardinality(There(R, z)) => HashWith(Tab(z, i, w, d2, n2, p2, v), There(R, z))
    BY <1>3, HashMakes
  <2> QED BY <1>5, <1>6, <2>1, Zenon
<1> QED BY <1>0, <1>7, <1>8 DEF Tab

LEMMA HashUnlinks ==
  ASSUME NEW t, NEW W, HashWith(t, W), NEW k \in W
  PROVE  /\ HashWith(H!Unlink(t, k), W \ {k})
         /\ H!Unlink(t, k).value = t.value
<1> PICK z, i, v, u, d, n, p, B, g :
         /\ z \in Nat \ {0} /\ i \in Int /\ v \in [TableKey -> Stored \cup {Null}]
         /\ t = Tab(z, i, u, d, n, p, v) /\ g = SlotIn(z)
         /\ Bucketed(TableKey, Null, g, z, B, d, n, p)
         /\ u = Cardinality(W) /\ There(B, z) = W
  BY HashOpens
<1>0. t.size = z /\ t.initSize = i /\ t.data = d /\ t.next = n /\ t.prev = p /\ t.value = v /\ t.used = u
  BY DEF Tab
<1>1. k \in TableKey
  BY DEF There
<1> PICK m \in 0 .. z - 1 : m = g[k] /\ m = H!Slot(t, k)
  BY <1>0, <1>1, SlotIs DEF H!Slot
<1> PICK j \in 1 .. Len(B[m]) : k = B[m][j]
  BY Zenon DEF There, In
<1> DEFINE s == RemoveAt(B[m], j)
           R == [B EXCEPT ![m] = RemoveAt(@, j)]
           d2 == IF p[k] # Null THEN d ELSE [d EXCEPT ![m] = n[k]]
           n2 == [e \in TableKey |-> IF e = k THEN Null ELSE IF e = p[k] THEN n[k] ELSE n[e]]
           p2 == [e \in TableKey |-> IF e = k THEN Null ELSE IF e = n[k] THEN p[k] ELSE p[e]]
<1>3. Bucketed(TableKey, Null, g, z, R, d2, n2, p2)
  <2>1. /\ \A e \in TableKey : n2[e] = IF e = k THEN Null ELSE IF e = p[k] THEN n[k] ELSE n[e]
        /\ \A e \in TableKey : p2[e] = IF e = k THEN Null ELSE IF e = n[k] THEN p[k] ELSE p[e]
    OBVIOUS
  <2>5. n \in [TableKey -> TableKey \cup {Null}] /\ p \in [TableKey -> TableKey \cup {Null}]
    BY Zenon DEF Bucketed
  <2>6. /\ n2 \in [TableKey -> TableKey \cup {Null}]
        /\ p2 \in [TableKey -> TableKey \cup {Null}]
    BY <1>1, <2>5
  <2>7. B \in [0 .. z - 1 -> Seq(TableKey)] /\ d \in [0 .. z - 1 -> TableKey \cup {Null}]
    BY Zenon DEF Bucketed
  <2>8. s \in Seq(TableKey)
    BY <2>7, RemoveAtProperties DEF Without
  <2>2. /\ R \in [0 .. z - 1 -> Seq(TableKey)]
        /\ \A x \in 0 .. z - 1 : R[x] = IF x = m THEN RemoveAt(B[m], j) ELSE B[x]
    BY <2>7, <2>8
  <2>3. /\ d2 \in [0 .. z - 1 -> TableKey \cup {Null}]
        /\ \A x \in 0 .. z - 1 : d2[x] = IF x = m /\ p[k] = Null THEN n[k] ELSE d[x]
    BY <1>1, <2>5, <2>7
  <2> HIDE DEF n2, p2, R, d2, s
  <2>9. TakenOut(TableKey, Null, z, B, d, n, p, m, j, R, d2, n2, p2)
    BY <2>1, <2>2, <2>3, <2>6, Zenon DEF TakenOut
  <2> QED BY <2>9, BucketsUnlink
<1>4. B \in [0 .. z - 1 -> Seq(TableKey)] /\ B[m] \in Seq(TableKey)
  BY DEF Bucketed
<1>5. There(R, z) = W \ {k}
  <2>0. \A l, h \in 1 .. Len(B[m]) : B[m][l] = B[m][h] => l = h
    <3>1. Chained(TableKey, Null, B[m], d[m], End(B[m], Null), n, p)
      BY DEF Bucketed
    <3> QED BY <3>1, ChainedParts
  <2>1. \A x : In(s, x) <=> In(B[m], x) /\ x # k
    BY <1>4, <2>0, InWithout, Zenon
  <2> HIDE DEF s
  <2>2. R = [B EXCEPT ![m] = s]
    BY DEF s
  <2> HIDE DEF R
  <2>3. \A x : x # k => (In(s, x) <=> In(B[m], x))
    BY <2>1
  <2>4. \A x : x # k => (x \in There(R, z) <=> x \in There(B, z))
    BY <1>1, <1>4, <2>2, <2>3, ThereAfter, Zenon
  <2>5. R[m] = s
    BY <1>4, <2>2, Zenon
  <2>6. k \notin There(R, z)
    BY <2>1, <2>5, Zenon DEF There
  <2>7. There(R, z) \subseteq TableKey /\ W \subseteq TableKey
    BY ThereIs
  <2> QED BY <2>4, <2>6, <2>7
<1>6. Cardinality(W \ {k}) = u - 1
  <2>1. IsFiniteSet(W)
    BY ThereIs
  <2> QED BY <2>1, FS_RemoveElement, Zenon
<1>7. H!Unlink(t, k) = Tab(z, i, u - 1, d2, n2, p2, v)
  <2>1. H!Unlink(t, k) = Relinks(t, u - 1, d2, n2, p2)
    <3> DEFINE n3 == [e \in TableKey |-> IF e = k THEN Null
                                         ELSE IF e = t.prev[k] THEN t.next[k] ELSE t.next[e]]
               p3 == [e \in TableKey |-> IF e = k THEN Null
                                         ELSE IF e = t.next[k] THEN t.prev[k] ELSE t.prev[e]]
               d3 == H!HeadsWithout(t, k)
               u3 == t.used - 1
    <3>1. H!Unlink(t, k) = Relinks(t, u3, d3, n3, p3)
      BY DEF H!Unlink, Relinks
    <3>2. n3 = n2 /\ p3 = p2 /\ u3 = u - 1
      BY <1>0
    <3>3. d3 = d2
      BY <1>0 DEF H!HeadsWithout
    <3> HIDE DEF n3, p3, d3, u3, n2, p2, d2
    <3> QED BY <3>1, <3>2, <3>3
  <2> HIDE DEF d2, n2, p2
  <2> QED BY <2>1, TabChanges
<1> HIDE DEF d2, n2, p2, R
<1>8. HashWith(Tab(z, i, u - 1, d2, n2, p2, v), W \ {k})
  <2>1. \A w : w = Cardinality(There(R, z)) => HashWith(Tab(z, i, w, d2, n2, p2, v), There(R, z))
    BY <1>3, HashMakes
  <2> QED BY <1>5, <1>6, <2>1, Zenon
<1> QED BY <1>0, <1>7, <1>8 DEF Tab

\* An array without chains.
Resized(t, z, d) == [t EXCEPT !.size = z, !.used = 0, !.data = d]

LEMMA HashSized ==
  ASSUME NEW y \in Nat, NEW z, NEW i \in Int, NEW u, NEW d,
         NEW n \in [TableKey -> TableKey \cup {Null}],
         NEW p \in [TableKey -> TableKey \cup {Null}],
         NEW v \in [TableKey -> Stored \cup {Null}], NEW t, t = Tab(z, i, u, d, n, p, v)
  PROVE  /\ HashWith(H!Sized(t, y), {})
         /\ H!Sized(t, y).initSize = i /\ H!Sized(t, y).value = v
<1> PICK w \in Nat \ {0} : w = IF y % 2 = 0 THEN y + 1 ELSE y
  OBVIOUS
<1> DEFINE B == [x \in 0 .. w - 1 |-> <<>>]
           d2 == [x \in 0 .. w - 1 |-> Null]
<1>1. Bucketed(TableKey, Null, SlotIn(w), w, B, d2, n, p)
  <2>1. SlotIn(w) \in [TableKey -> 0 .. w - 1]
    BY SlotIs
  <2>2. w \in Nat /\ Null \notin TableKey
    BY LibraryAssumption
  <2>3. /\ B \in [0 .. w - 1 -> Seq(TableKey)]
        /\ d2 \in [0 .. w - 1 -> TableKey \cup {Null}]
        /\ \A x \in 0 .. w - 1 : B[x] = <<>> /\ d2[x] = Null
    OBVIOUS
  <2> HIDE DEF B, d2
  <2> QED BY <2>1, <2>2, <2>3, BucketsEmpty, Zenon
<1>2. There(B, w) = {}
  <2>1. \A x : ~In(<<>>, x)
    BY DEF In
  <2>2. \A x \in TableKey : B[SlotIn(w)[x]] = <<>>
    BY SlotIs
  <2> HIDE DEF B
  <2> QED BY <2>1, <2>2 DEF There
<1>3. H!Sized(t, y) = Tab(w, i, 0, d2, n, p, v)
  <2>1. H!Sized(t, y) = Resized(t, w, d2)
    BY DEF H!Sized, Resized
  <2> HIDE DEF d2
  <2>2. [Tab(z, i, u, d, n, p, v) EXCEPT !.size = w] = Tab(w, i, u, d, n, p, v)
    BY DEF Tab
  <2>3. [Tab(w, i, u, d, n, p, v) EXCEPT !.used = 0] = Tab(w, i, 0, d, n, p, v)
    BY DEF Tab
  <2>4. [Tab(w, i, 0, d, n, p, v) EXCEPT !.data = d2] = Tab(w, i, 0, d2, n, p, v)
    BY DEF Tab
  <2>5. Resized(t, w, d2) = [[[t EXCEPT !.size = w] EXCEPT !.used = 0] EXCEPT !.data = d2]
    BY DEF Resized
  <2> QED BY <2>1, <2>2, <2>3, <2>4, <2>5, Zenon
<1>4. Cardinality({}) = 0
  BY FS_EmptySet
<1> HIDE DEF B, d2
<1>5. HashWith(Tab(w, i, 0, d2, n, p, v), {})
  <2>1. \A x : x = Cardinality(There(B, w)) => HashWith(Tab(w, i, x, d2, n, p, v), There(B, w))
    BY <1>1, HashMakes
  <2> QED BY <1>2, <1>4, <2>1
<1> QED BY <1>3, <1>5 DEF Tab

\* Every key is listed once, in either order.
LEMMA HashListed ==
  ASSUME NEW t, NEW W, HashWith(t, W), NEW s, s \in {H!Listed(t), H!ListedBack(t)}
  PROVE  /\ s \in Seq(TableKey) /\ Once(s) /\ W \subseteq TableKey
         /\ \A x : In(s, x) <=> x \in W
<1> PICK B : HashIs(t, B) /\ There(B, t.size) = W
  BY DEF HashWith
<1> PICK z \in Nat \ {0} : z = t.size
  BY DEF HashIs
<1>1. /\ Bucketed(TableKey, Null, SlotIn(z), z, B, t.data, t.next, t.prev)
      /\ B \in [0 .. z - 1 -> Seq(TableKey)]
  BY Zenon DEF HashIs, Bucketed
<1>2. \A i \in 0 .. z - 1 : H!Chain(t, t.data[i]) = B[i]
  BY HashChain
<1> DEFINE g == [i \in 1 .. z |-> i - 1]
           b == [i \in 1 .. z |-> z - i]
           cg == [i \in 1 .. z |-> B[g[i]]]
           cb == [i \in 1 .. z |-> B[b[i]]]
<1>3. /\ g \in [1 .. z -> 0 .. z - 1] /\ \A i, j \in 1 .. z : g[i] = g[j] => i = j
      /\ \A k \in 0 .. z - 1 : \E i \in 1 .. z : g[i] = k
  <2>1. g \in [1 .. z -> 0 .. z - 1] /\ \A i, j \in 1 .. z : g[i] = g[j] => i = j
    OBVIOUS
  <2>2. ASSUME NEW k \in 0 .. z - 1 PROVE \E i \in 1 .. z : g[i] = k
    <3>1. k + 1 \in 1 .. z /\ g[k + 1] = k
      OBVIOUS
    <3> QED BY <3>1
  <2> QED BY <2>1, <2>2
<1>4. /\ b \in [1 .. z -> 0 .. z - 1] /\ \A i, j \in 1 .. z : b[i] = b[j] => i = j
      /\ \A k \in 0 .. z - 1 : \E i \in 1 .. z : b[i] = k
  <2>1. b \in [1 .. z -> 0 .. z - 1] /\ \A i, j \in 1 .. z : b[i] = b[j] => i = j
    OBVIOUS
  <2>2. ASSUME NEW k \in 0 .. z - 1 PROVE \E i \in 1 .. z : b[i] = k
    <3>1. z - k \in 1 .. z /\ b[z - k] = k
      OBVIOUS
    <3> QED BY <3>1
  <2> QED BY <2>1, <2>2
<1>5. \A c : H!FlattenSeq(c) = FlattenSeq(c)
  BY DEF H!FlattenSeq, FlattenSeq
<1>6. H!Listed(t) = FlattenSeq(cg)
  <2>1. cg = [i \in 1 .. z |-> H!Chain(t, t.data[i - 1])]
    BY <1>2
  <2> HIDE DEF cg
  <2> QED BY <1>5, <2>1 DEF H!Listed
<1>7. H!ListedBack(t) = FlattenSeq(cb)
  <2>1. cb = [i \in 1 .. z |-> H!Chain(t, t.data[z - i])]
    BY <1>2
  <2> HIDE DEF cb
  <2> QED BY <1>5, <2>1 DEF H!ListedBack
<1>8. \A x : x \in TableKey /\ In(B[SlotIn(z)[x]], x) <=> x \in W
  BY DEF There
<1> HIDE DEF g, b
<1>9. Ordered(TableKey, B, g, z, cg) /\ Ordered(TableKey, B, b, z, cb)
  <2>0. \A i \in 1 .. z : B[g[i]] \in Seq(TableKey) /\ B[b[i]] \in Seq(TableKey)
    BY <1>1, <1>3, <1>4, Zenon
  <2>1. cg \in Seq(Seq(TableKey)) /\ Len(cg) = z /\ \A i \in 1 .. z : cg[i] = B[g[i]]
    BY <2>0
  <2>2. cb \in Seq(Seq(TableKey)) /\ Len(cb) = z /\ \A i \in 1 .. z : cb[i] = B[b[i]]
    BY <2>0
  <2> HIDE DEF cg, cb
  <2>3. Ordered(TableKey, B, g, z, cg)
    BY <1>3, <2>1 DEF Ordered
  <2> QED BY <1>4, <2>2, <2>3 DEF Ordered
<1> HIDE DEF cg, cb
<1>10. /\ FlattenSeq(cg) \in Seq(TableKey) /\ Once(FlattenSeq(cg))
       /\ \A x : In(FlattenSeq(cg), x) <=> x \in TableKey /\ In(B[SlotIn(z)[x]], x)
  BY <1>1, <1>9, BucketsListed
<1>11. /\ FlattenSeq(cb) \in Seq(TableKey) /\ Once(FlattenSeq(cb))
       /\ \A x : In(FlattenSeq(cb), x) <=> x \in TableKey /\ In(B[SlotIn(z)[x]], x)
  BY <1>1, <1>9, BucketsListed
<1>12. W \subseteq TableKey
  BY <1>8
<1> QED BY <1>6, <1>7, <1>8, <1>10, <1>11, <1>12

\* f moves the entries of s, one after the other, to the array that is there first.
Moves(f, t, s, n) ==
  f = [i \in 0 .. n |-> IF i = 0 THEN H!Sized(t, 2 * t.size) ELSE H!Link(f[i - 1], s[i])]

LEMMA MovesThere ==
  ASSUME NEW t, NEW s, NEW n \in Nat
  PROVE  \E f : Moves(f, t, s, n)
<1> DEFINE D == {k \in Nat : \E f : Moves(f, t, s, k)}
<1>1. 0 \in D
  <2> DEFINE f == [i \in 0 .. 0 |-> H!Sized(t, 2 * t.size)]
  <2>1. f = [i \in 0 .. 0 |-> IF i = 0 THEN H!Sized(t, 2 * t.size) ELSE H!Link(f[i - 1], s[i])]
    OBVIOUS
  <2> HIDE DEF f
  <2>2. Moves(f, t, s, 0)
    BY <2>1 DEF Moves
  <2> QED BY <2>2
<1>2. ASSUME NEW k \in D PROVE k + 1 \in D
  <2> PICK f : Moves(f, t, s, k)
    OBVIOUS
  <2>0. k \in Nat
    OBVIOUS
  <2>1. f = [i \in 0 .. k |-> IF i = 0 THEN H!Sized(t, 2 * t.size) ELSE H!Link(f[i - 1], s[i])]
    BY DEF Moves
  <2> PICK l \in Nat : l = k + 1
    BY <2>0
  <2> DEFINE Q == [i \in 0 .. l |-> IF i <= k THEN f[i] ELSE H!Link(f[k], s[l])]
  <2>2. ASSUME NEW i \in 0 .. l
        PROVE  Q[i] = IF i = 0 THEN H!Sized(t, 2 * t.size) ELSE H!Link(Q[i - 1], s[i])
    <3>1. CASE i = 0
      <4>1. i \in 0 .. k /\ i <= k
        BY <2>0, <3>1
      <4> QED BY <2>1, <3>1, <4>1
    <3>2. CASE i # 0 /\ i <= k
      <4>1. i \in 0 .. k /\ i - 1 \in 0 .. l /\ i - 1 <= k
        BY <2>0, <3>2
      <4>2. Q[i - 1] = f[i - 1] /\ Q[i] = f[i]
        BY <3>2, <4>1
      <4>3. f[i] = H!Link(f[i - 1], s[i])
        BY <2>1, <3>2, <4>1, Zenon
      <4> QED BY <3>2, <4>2, <4>3
    <3>3. CASE ~(i <= k)
      <4>1. i = l /\ i - 1 = k /\ k \in 0 .. l /\ i # 0
        BY <2>0, <3>3
      <4>2. Q[k] = f[k] /\ Q[i] = H!Link(f[k], s[l])
        BY <2>0, <3>3, <4>1
      <4> HIDE DEF Q
      <4> QED BY <4>1, <4>2
    <3> QED BY <3>1, <3>2, <3>3
  <2>3. Q = [i \in 0 .. l |-> Q[i]]
    OBVIOUS
  <2> HIDE DEF Q
  <2>4. Moves(Q, t, s, l)
    BY <2>2, <2>3, Zenon DEF Moves
  <2> HIDE DEF D
  <2>5. l \in D
    BY <2>4 DEF D
  <2> QED BY <2>5
<1> HIDE DEF D
<1>3. D \in SUBSET Nat
  BY DEF D
<1>4. n \in D
  BY <1>1, <1>2, <1>3, SetInduction
<1> QED BY <1>4 DEF D

LEMMA HashMoved ==
  ASSUME NEW t, NEW W, HashWith(t, W), NEW s \in Seq(TableKey), Once(s)
  PROVE  /\ HashWith(H!Relinked(t, s), {x \in TableKey : In(s, x)})
         /\ H!Relinked(t, s).initSize = t.initSize /\ H!Relinked(t, s).value = t.value
<1> DEFINE f == CHOOSE moved : moved =
                  [n \in 0 .. Len(s) |-> IF n = 0 THEN H!Sized(t, 2 * t.size)
                                         ELSE H!Link(moved[n - 1], s[n])]
           To(n) == {x \in TableKey : \E i \in 1 .. n : s[i] = x}
           D == {k \in Nat : k <= Len(s) =>
                   HashWith(f[k], To(k)) /\ f[k].initSize = t.initSize /\ f[k].value = t.value}
<1>0. Len(s) \in Nat /\ \A i \in 1 .. Len(s) : s[i] \in TableKey
  OBVIOUS
<1>1. H!Relinked(t, s) = f[Len(s)]
  BY DEF H!Relinked
<1>2. Moves(f, t, s, Len(s))
  <2>1. \E moved : moved = [n \in 0 .. Len(s) |-> IF n = 0 THEN H!Sized(t, 2 * t.size)
                                                  ELSE H!Link(moved[n - 1], s[n])]
    <3> PICK m : Moves(m, t, s, Len(s))
      BY <1>0, MovesThere, Zenon
    <3>1. m = [n \in 0 .. Len(s) |-> IF n = 0 THEN H!Sized(t, 2 * t.size)
                                     ELSE H!Link(m[n - 1], s[n])]
      BY DEF Moves
    <3> QED BY <3>1
  <2>2. f = [n \in 0 .. Len(s) |-> IF n = 0 THEN H!Sized(t, 2 * t.size)
                                   ELSE H!Link(f[n - 1], s[n])]
    BY <2>1, Zenon
  <2> HIDE DEF f
  <2> QED BY <2>2 DEF Moves
<1> HIDE DEF f
<1>3. /\ f[0] = H!Sized(t, 2 * t.size)
      /\ \A i \in 1 .. Len(s) : f[i] = H!Link(f[i - 1], s[i])
  <2>1. f = [n \in 0 .. Len(s) |-> IF n = 0 THEN H!Sized(t, 2 * t.size)
                                   ELSE H!Link(f[n - 1], s[n])]
    BY <1>2 DEF Moves
  <2>2. 0 \in 0 .. Len(s) /\ \A i \in 1 .. Len(s) : i \in 0 .. Len(s) /\ i # 0
    BY <1>0
  <2> QED BY <2>1, <2>2
<1>4. 0 \in D
  <2> PICK z, i, v, u, d, n, p, B, g :
           /\ z \in Nat \ {0} /\ i \in Int /\ v \in [TableKey -> Stored \cup {Null}]
           /\ t = Tab(z, i, u, d, n, p, v) /\ g = SlotIn(z)
           /\ Bucketed(TableKey, Null, g, z, B, d, n, p)
           /\ u = Cardinality(W) /\ There(B, z) = W
    BY HashOpens
  <2>1. t.size = z /\ t.initSize = i /\ t.value = v
    BY DEF Tab
  <2>2. n \in [TableKey -> TableKey \cup {Null}] /\ p \in [TableKey -> TableKey \cup {Null}]
    BY DEF Bucketed
  <2> PICK y \in Nat : y = 2 * z
    OBVIOUS
  <2>3. HashWith(H!Sized(t, y), {}) /\ H!Sized(t, y).initSize = i /\ H!Sized(t, y).value = v
    BY <2>2, HashSized
  <2>4. To(0) = {}
    OBVIOUS
  <2> HIDE DEF To
  <2> QED BY <1>3, <2>1, <2>3, <2>4, Zenon
<1>5. ASSUME NEW k \in D PROVE k + 1 \in D
  <2>1. k \in Nat /\ (k <= Len(s) => HashWith(f[k], To(k)) /\ f[k].initSize = t.initSize
                                       /\ f[k].value = t.value)
    OBVIOUS
  <2>2. ASSUME k + 1 <= Len(s)
        PROVE  /\ HashWith(f[k + 1], To(k + 1))
               /\ f[k + 1].initSize = t.initSize /\ f[k + 1].value = t.value
    <3> PICK l \in 1 .. Len(s) : l = k + 1 /\ l - 1 = k /\ k <= Len(s)
      BY <1>0, <2>1, <2>2
    <3>1. s[l] \in TableKey /\ s[l] \notin To(k)
      <4>1. \A i \in 1 .. k : i \in 1 .. Len(s) /\ i # l
        BY <1>0, <2>1
      <4> QED BY <1>0, <4>1 DEF Once
    <3>2. To(l) = To(k) \cup {s[l]}
      <4>1. \A i : i \in 1 .. l <=> i \in 1 .. k \/ i = l
        BY <1>0, <2>1
      <4> QED BY <3>1, <4>1
    <3> HIDE DEF To
    <3>3. HashWith(f[k], To(k)) /\ f[k].initSize = t.initSize /\ f[k].value = t.value
      BY <2>1
    <3>4. /\ HashWith(H!Link(f[k], s[l]), To(k) \cup {s[l]})
          /\ H!Link(f[k], s[l]).initSize = t.initSize /\ H!Link(f[k], s[l]).value = t.value
      BY <3>1, <3>3, HashLinks, Zenon
    <3>5. f[l] = H!Link(f[k], s[l])
      BY <1>3
    <3> QED BY <3>2, <3>4, <3>5, Zenon
  <2>3. k + 1 \in Nat
    BY <2>1
  <2> HIDE DEF To
  <2> QED BY <2>2, <2>3
<1> HIDE DEF To
<1>6. Len(s) \in D
  <2> HIDE DEF D
  <2>1. D \in SUBSET Nat
    BY DEF D
  <2> QED BY <1>0, <1>4, <1>5, <2>1, SetInduction
<1>7. To(Len(s)) = {x \in TableKey : In(s, x)}
  BY DEF In, To
<1>8. Len(s) <= Len(s)
  BY <1>0
<1> QED BY <1>1, <1>6, <1>7, <1>8, Zenon

LEMMA HashGrows ==
  ASSUME NEW t, NEW W, HashWith(t, W)
  PROVE  /\ HashWith(H!Grown(t), W)
         /\ H!Grown(t).initSize = t.initSize /\ H!Grown(t).value = t.value
<1> PICK s : s = H!Listed(t)
  OBVIOUS
<1>1. /\ s \in Seq(TableKey) /\ Once(s) /\ W \subseteq TableKey
      /\ \A x : In(s, x) <=> x \in W
  BY HashListed
<1>2. {x \in TableKey : In(s, x)} = W
  BY <1>1
<1>3. H!Grown(t) = H!Relinked(t, s)
  BY DEF H!Grown
<1> QED BY <1>1, <1>2, <1>3, HashMoved

LEMMA HashNew ==
  ASSUME NEW z \in Int
  PROVE  HashWith(H!NewTable(z), {})
<1> PICK y \in Nat : y = H!Wanted(z)
  BY LibraryAssumption DEF H!Wanted
<1> DEFINE n == [k \in TableKey |-> Null]
           t == Tab(0, z, 0, <<>>, n, n, n)
<1>1. [H!NoTable EXCEPT !.initSize = z] = t
  BY DEF H!NoTable, H!NoLinks, Tab
<1>2. n \in [TableKey -> TableKey \cup {Null}] /\ n \in [TableKey -> Stored \cup {Null}]
  OBVIOUS
<1>3. H!NewTable(z) = H!Sized(t, y)
  BY <1>1 DEF H!NewTable
<1> HIDE DEF n
<1>4. HashWith(H!Sized(t, y), {})
  <2>1. t = Tab(0, z, 0, <<>>, n, n, n)
    OBVIOUS
  <2> HIDE DEF t
  <2> QED BY <1>2, <2>1, HashSized
<1> QED BY <1>3, <1>4

\* A value is written, or no longer there.
Valued(t, k, v) == [t EXCEPT !.value[k] = v]

LEMMA HashValued ==
  ASSUME NEW t, NEW W, HashWith(t, W), NEW k \in TableKey, NEW x \in Stored \cup {Null}
  PROVE  /\ HashWith(Valued(t, k, x), W)
         /\ Valued(t, k, x).value = [t.value EXCEPT ![k] = x]
         /\ t.value \in [TableKey -> Stored \cup {Null}]
<1> PICK z, i, v, u, d, n, p, B, g :
         /\ z \in Nat \ {0} /\ i \in Int /\ v \in [TableKey -> Stored \cup {Null}]
         /\ t = Tab(z, i, u, d, n, p, v) /\ g = SlotIn(z)
         /\ Bucketed(TableKey, Null, g, z, B, d, n, p)
         /\ u = Cardinality(W) /\ There(B, z) = W
  BY HashOpens
<1> PICK w \in [TableKey -> Stored \cup {Null}] : w = [v EXCEPT ![k] = x]
  BY Zenon
<1>1. t.value = v
  BY DEF Tab
<1>2. Valued(t, k, x) = Tab(z, i, u, d, n, p, w)
  <2>1. Valued(t, k, x) = [t EXCEPT !.value = w]
    BY <1>1 DEF Valued
  <2>2. [Tab(z, i, u, d, n, p, v) EXCEPT !.value = w] = Tab(z, i, u, d, n, p, w)
    BY DEF Tab
  <2> QED BY <2>1, <2>2
<1>3. HashWith(Tab(z, i, u, d, n, p, w), W)
  <2>1. HashWith(Tab(z, i, u, d, n, p, w), There(B, z))
    BY HashMakes, Zenon
  <2> QED BY <2>1
<1>4. Tab(z, i, u, d, n, p, w).value = w
  BY DEF Tab
<1> QED BY <1>1, <1>2, <1>3, <1>4, Zenon

\* How often each value is freed.
Frees(m, Y) == [v \in Stored |-> Cardinality({k \in Y : m[k] = v})]

LEMMA HashAway ==
  ASSUME NEW t, NEW s \in Seq(TableKey), Once(s), NEW Y, Y \subseteq TableKey,
         \A x : In(s, x) <=> x \in Y
  PROVE  H!Away(t, s) = Frees(t.value, Y)
<1>1. ASSUME NEW v
      PROVE  H!Cardinality({i \in DOMAIN s : t.value[s[i]] = v})
               = Cardinality({k \in Y : t.value[k] = v})
  <2> DEFINE W == {k \in TableKey : t.value[k] = v}
  <2>1. Cardinality({i \in DOMAIN s : s[i] \in W}) = Cardinality({x \in TableKey : In(s, x) /\ x \in W})
    <3> HIDE DEF W
    <3>1. Cardinality(Places(s, W)) = Cardinality(Elements(TableKey, s, W))
      BY OnceCounts
    <3> QED BY <3>1 DEF Places, Elements
  <2>2. {i \in DOMAIN s : s[i] \in W} = {i \in DOMAIN s : t.value[s[i]] = v}
    OBVIOUS
  <2>3. {x \in TableKey : In(s, x) /\ x \in W} = {k \in Y : t.value[k] = v}
    OBVIOUS
  <2>4. \A X : H!Cardinality(X) = Cardinality(X)
    BY DEF H!Cardinality, Cardinality
  <2> QED BY <2>1, <2>2, <2>3, <2>4, Zenon
<1> QED BY <1>1, Zenon DEF H!Away, Frees

-----------------------------------------------------------------------------
\* Htable: the map that a table is.

FoundIn(t) == IF t = H!NoTable THEN {} ELSE {k \in TableKey : H!Locate(t, k) # Null}

MapOf(t) == [k \in FoundIn(t) |-> t.value[k]]

LEMMA FoundIs ==
  ASSUME NEW t, NEW W, HashWith(t, W)
  PROVE  /\ t # H!NoTable /\ FoundIn(t) = W /\ MapOf(t) = [k \in W |-> t.value[k]]
         /\ W \subseteq TableKey
<1>1. t # H!NoTable
  BY DEF HashWith, HashIs, H!NoTable
<1>2. W \subseteq TableKey
  BY ThereIs DEF HashWith
<1>3. {k \in TableKey : H!Locate(t, k) # Null} = W
  BY <1>2, HashLocates
<1> QED BY <1>1, <1>2, <1>3 DEF FoundIn, MapOf

LEMMA NoneFound == FoundIn(H!NoTable) = {} /\ MapOf(H!NoTable) = <<>>
<1>1. FoundIn(H!NoTable) = {}
  BY DEF FoundIn
<1> QED BY <1>1 DEF MapOf

\* KeyMap's actions, of the tables before and after.
MapStep == [H!Abstract!Next]_(H!Abstract!vars)

LEMMA MapNow == /\ H!Found = FoundIn(table) /\ H!Found' = FoundIn(table')
                /\ (\A Y : H!Abstract!Away(Y) = Frees(MapOf(table), Y))
<1>1. H!Found = FoundIn(table) /\ H!Found' = FoundIn(table')
  BY DEF H!Found, FoundIn
<1>2. \A X : H!Abstract!Cardinality(X) = Cardinality(X)
  BY DEF H!Abstract!Cardinality, Cardinality
<1> QED BY <1>1, <1>2 DEF H!Abstract!Away, Frees, MapOf

LEMMA MapIs ==
  /\ [k \in H!Found |-> table.value[k]] = MapOf(table)
  /\ [k \in H!Found' |-> table'.value[k]] = MapOf(table')
  BY DEF H!Found, FoundIn, MapOf

LEMMA AnswerIs == \A r : H!Returns(r) => H!Abstract!Returns(r)
  BY DEF H!Returns, H!Abstract!Returns, H!Nothing, H!Abstract!Nothing

LEMMA MapEnters ==
  ASSUME NEW k, NEW v, table # H!NoTable, table' # H!NoTable,
         \/ /\ k \in DOMAIN MapOf(table)
            /\ MapOf(table') = MapOf(table) /\ status' = "DUPLEX_KEY"
         \/ /\ k \notin DOMAIN MapOf(table)
            /\ MapOf(table') = [x \in DOMAIN MapOf(table) \cup {k} |->
                                  IF x = k THEN v ELSE MapOf(table)[x]]
            /\ status' = "OK",
         H!Returns(MapOf(table')[k])
  PROVE  H!Abstract!Enter(k, v)
<1>1. H!Abstract!Returns(MapOf(table')[k])
  BY AnswerIs
<1>2. H!Abstract!Enter(k, v) <=>
        /\ table # H!NoTable
        /\ IF k \in DOMAIN MapOf(table)
           THEN MapOf(table') = MapOf(table) /\ status' = "DUPLEX_KEY"
           ELSE MapOf(table') = [x \in DOMAIN MapOf(table) \cup {k} |->
                                   IF x = k THEN v ELSE MapOf(table)[x]]
                /\ status' = "OK"
        /\ H!Abstract!Returns(MapOf(table')[k])
        /\ (table' # H!NoTable) = (table # H!NoTable)
  BY MapIs DEF H!Abstract!Enter
<1> QED BY <1>1, <1>2

LEMMA EnterSteps ==
  ASSUME HashInv, NEW k \in TableKey, NEW v \in Stored \cup {Null}, H!Enter(k, v)
  PROVE  HashInv' /\ H!Abstract!Enter(k, v)
<1> DEFINE t == IF table.used >= table.size THEN H!Grown(table) ELSE table
<1>1. /\ table # H!NoTable
      /\ IF H!Locate(t, k) # Null
         THEN table' = t /\ status' = "DUPLEX_KEY" /\ H!Returns(t.value[k])
         ELSE table' = H!Link(Valued(t, k, v), k) /\ status' = "OK" /\ H!Returns(v)
  BY DEF H!Enter, Valued
<1> PICK W : HashWith(table, W)
  BY <1>1 DEF HashInv
<1>2. HashWith(t, W) /\ t.value = table.value
  BY HashGrows
<1> HIDE DEF t
<1>3. /\ FoundIn(table) = W /\ W \subseteq TableKey
      /\ MapOf(table) = [x \in W |-> table.value[x]]
  BY FoundIs
<1>4. /\ MapOf(t) = [x \in W |-> t.value[x]] /\ t # H!NoTable
  BY <1>2, FoundIs
<1>5. (H!Locate(t, k) # Null) <=> k \in W
  BY <1>2, HashLocates
<1>6. MapOf(table) = MapOf(t) /\ DOMAIN MapOf(table) = W
  BY <1>2, <1>3, <1>4
<1>7. CASE k \in W
  <2>1. table' = t /\ status' = "DUPLEX_KEY" /\ H!Returns(t.value[k])
    BY <1>1, <1>5, <1>7
  <2>2. HashInv'
    BY <1>2, <2>1 DEF HashInv
  <2>3. MapOf(table')[k] = t.value[k]
    BY <1>4, <1>7, <2>1
  <2> QED BY <1>1, <1>4, <1>6, <1>7, <2>1, <2>2, <2>3, MapEnters
<1>8. CASE k \notin W
  <2>1. table' = H!Link(Valued(t, k, v), k) /\ status' = "OK" /\ H!Returns(v)
    BY <1>1, <1>5, <1>8
  <2>2. /\ HashWith(Valued(t, k, v), W) /\ Valued(t, k, v).value = [t.value EXCEPT ![k] = v]
        /\ t.value \in [TableKey -> Stored \cup {Null}]
    BY <1>2, HashValued
  <2>3. HashWith(table', W \cup {k}) /\ table'.value = [t.value EXCEPT ![k] = v]
    BY <1>8, <2>1, <2>2, HashLinks
  <2>4. HashInv'
    BY <2>3 DEF HashInv
  <2>5. /\ table' # H!NoTable
        /\ MapOf(table') = [x \in W \cup {k} |-> table'.value[x]]
    BY <2>3, FoundIs, Zenon
  <2>6. \A x \in W \cup {k} : table'.value[x] = IF x = k THEN v ELSE MapOf(table)[x]
    BY <1>2, <1>3, <2>2, <2>3
  <2>7. MapOf(table') = [x \in DOMAIN MapOf(table) \cup {k} |->
                           IF x = k THEN v ELSE MapOf(table)[x]]
    BY <1>6, <2>5, <2>6
  <2>8. MapOf(table')[k] = v
    BY <2>5, <2>6
  <2> QED BY <1>1, <1>6, <1>8, <2>1, <2>4, <2>5, <2>7, <2>8, MapEnters
<1> QED BY <1>7, <1>8

LEMMA FindSteps ==
  ASSUME HashInv, NEW k \in TableKey, H!Find(k)
  PROVE  HashInv' /\ H!Abstract!Find(k)
<1>1. /\ table # H!NoTable /\ table' = table /\ status' = status
      /\ H!Returns(IF H!Locate(table, k) # Null THEN table.value[k] ELSE Null)
  BY DEF H!Find
<1> PICK W : HashWith(table, W)
  BY <1>1 DEF HashInv
<1>2. HashInv'
  BY <1>1 DEF HashInv
<1>3. (H!Locate(table, k) # Null) <=> k \in W
  BY HashLocates
<1>4. MapOf(table) = [x \in W |-> table.value[x]]
  BY FoundIs
<1>5. H!Abstract!Returns(IF k \in DOMAIN MapOf(table) THEN MapOf(table)[k] ELSE Null)
  <2>1. (IF H!Locate(table, k) # Null THEN table.value[k] ELSE Null)
          = IF k \in DOMAIN MapOf(table) THEN MapOf(table)[k] ELSE Null
    BY <1>3, <1>4
  <2> QED BY <1>1, <2>1, AnswerIs
<1>6. MapOf(table') = MapOf(table) /\ (table' # H!NoTable) = (table # H!NoTable)
  BY <1>1
<1>7. H!Abstract!Find(k) <=>
        /\ table # H!NoTable
        /\ H!Abstract!Returns(IF k \in DOMAIN MapOf(table) THEN MapOf(table)[k] ELSE Null)
        /\ (table' # H!NoTable) = (table # H!NoTable)
        /\ MapOf(table') = MapOf(table) /\ status' = status
  BY MapIs DEF H!Abstract!Find
<1> QED BY <1>1, <1>2, <1>5, <1>6, <1>7

LEMMA DeleteKeySteps ==
  ASSUME HashInv, NEW k \in TableKey, H!Delete(k)
  PROVE  HashInv' /\ H!Abstract!Delete(k)
<1>1. /\ table # H!NoTable /\ status' = status
      /\ IF H!Locate(table, k) = Null
         THEN H!Returns(-1) /\ table' = table
         ELSE table' = Valued(H!Unlink(table, k), k, Null)
              /\ tAnswer' = [ret |-> 0, freed |-> H!Away(table, <<k>>)]
  BY DEF H!Delete, Valued
<1> PICK W : HashWith(table, W)
  BY <1>1 DEF HashInv
<1>2. (H!Locate(table, k) = Null) <=> k \notin W
  BY HashLocates
<1>3. MapOf(table) = [x \in W |-> table.value[x]] /\ W \subseteq TableKey
  BY FoundIs
<1>4. H!Abstract!Delete(k) <=>
        /\ table # H!NoTable
        /\ tAnswer' = [ret |-> IF k \in DOMAIN MapOf(table) THEN 0 ELSE -1,
                       freed |-> H!Abstract!Away({k} \cap DOMAIN MapOf(table))]
        /\ MapOf(table') = H!Abstract!Restrict(MapOf(table), DOMAIN MapOf(table) \ {k})
        /\ (table' # H!NoTable) = (table # H!NoTable) /\ status' = status
  BY MapIs DEF H!Abstract!Delete
<1>5. H!Abstract!Restrict(MapOf(table), W \ {k}) = [x \in W \ {k} |-> MapOf(table)[x]]
  BY DEF H!Abstract!Restrict
<1>6. \A Y : H!Abstract!Away(Y) = Frees(MapOf(table), Y)
  BY MapNow
<1>7. CASE k \notin W
  <2>1. H!Returns(-1) /\ table' = table
    BY <1>1, <1>2, <1>7
  <2>2. HashInv'
    BY <2>1 DEF HashInv
  <2>3. Frees(MapOf(table), {}) = [v \in Stored |-> 0]
    <3>1. \A v : {x \in {} : MapOf(table)[x] = v} = {}
      OBVIOUS
    <3> QED BY <3>1, FS_EmptySet DEF Frees
  <2>4. {k} \cap W = {} /\ W \ {k} = W
    BY <1>7
  <2>5. tAnswer' = [ret |-> -1, freed |-> [v \in Stored |-> 0]]
    BY <2>1 DEF H!Returns, H!Nothing
  <2>6. [x \in W |-> MapOf(table)[x]] = MapOf(table)
    BY <1>3
  <2> QED BY <1>1, <1>3, <1>4, <1>5, <1>6, <1>7, <2>1, <2>2, <2>3, <2>4, <2>5, <2>6
<1>8. CASE k \in W
  <2>1. /\ table' = Valued(H!Unlink(table, k), k, Null)
        /\ tAnswer' = [ret |-> 0, freed |-> H!Away(table, <<k>>)]
    BY <1>1, <1>2, <1>8
  <2>2. HashWith(H!Unlink(table, k), W \ {k}) /\ H!Unlink(table, k).value = table.value
    BY <1>8, HashUnlinks
  <2>3. /\ HashWith(table', W \ {k}) /\ table'.value = [table.value EXCEPT ![k] = Null]
        /\ table.value \in [TableKey -> Stored \cup {Null}]
    BY <2>1, <2>2, HashValued
  <2>4. HashInv'
    BY <2>3 DEF HashInv
  <2>5. table' # H!NoTable /\ MapOf(table') = [x \in W \ {k} |-> table'.value[x]]
    BY <2>3, FoundIs
  <2>6. MapOf(table') = [x \in W \ {k} |-> MapOf(table)[x]]
    <3>1. \A x \in W \ {k} : table'.value[x] = MapOf(table)[x]
      BY <1>3, <2>3
    <3> QED BY <2>5, <3>1
  <2>7. H!Away(table, <<k>>) = Frees(table.value, {k})
    <3> DEFINE s == <<k>>
    <3>1. s \in Seq(TableKey) /\ Len(s) = 1 /\ s[1] = k
      OBVIOUS
    <3> HIDE DEF s
    <3>2. Once(s) /\ \A x : In(s, x) <=> x \in {k}
      BY <3>1 DEF Once, In
    <3>3. H!Away(table, s) = Frees(table.value, {k})
      BY <3>1, <3>2, HashAway
    <3> QED BY <3>3 DEF s
  <2>8. Frees(table.value, {k}) = Frees(MapOf(table), {k} \cap W)
    <3>1. {k} \cap W = {k} /\ table.value[k] = MapOf(table)[k]
      BY <1>3, <1>8
    <3>2. \A v : {x \in {k} : table.value[x] = v} = {x \in {k} : MapOf(table)[x] = v}
      BY <3>1
    <3> QED BY <3>1, <3>2 DEF Frees
  <2> QED BY <1>1, <1>3, <1>4, <1>5, <1>6, <1>8, <2>1, <2>4, <2>5, <2>6, <2>7, <2>8
<1> QED BY <1>7, <1>8

LEMMA AllAway ==
  ASSUME NEW t, NEW W, HashWith(t, W)
  PROVE  H!Away(t, H!Listed(t)) = Frees(MapOf(t), W)
<1> PICK s : s = H!Listed(t)
  OBVIOUS
<1>1. s \in Seq(TableKey) /\ Once(s) /\ W \subseteq TableKey /\ \A x : In(s, x) <=> x \in W
  BY HashListed
<1>2. H!Away(t, s) = Frees(t.value, W)
  BY <1>1, HashAway, Zenon
<1>3. Frees(t.value, W) = Frees(MapOf(t), W)
  <2>1. MapOf(t) = [x \in W |-> t.value[x]]
    BY FoundIs
  <2>2. \A v : {x \in W : t.value[x] = v} = {x \in W : MapOf(t)[x] = v}
    BY <2>1
  <2> QED BY <2>2 DEF Frees
<1> QED BY <1>2, <1>3

LEMMA ResetSteps ==
  ASSUME HashInv, H!Reset
  PROVE  HashInv' /\ H!Abstract!Reset
<1>1. /\ table # H!NoTable /\ status' = status
      /\ tAnswer' = [ret |-> 0, freed |-> H!Away(table, H!Listed(table))]
      /\ table' = H!NewTable(table.initSize)
  BY DEF H!Reset
<1> PICK W : HashWith(table, W)
  BY <1>1 DEF HashInv
<1>2. table.initSize \in Int
  BY DEF HashWith, HashIs
<1>3. HashWith(table', {})
  BY <1>1, <1>2, HashNew
<1>4. HashInv'
  BY <1>3 DEF HashInv
<1>5. table' # H!NoTable /\ MapOf(table') = <<>>
  <2>1. table' # H!NoTable /\ MapOf(table') = [x \in {} |-> table'.value[x]]
    BY <1>3, FoundIs
  <2> QED BY <2>1
<1>6. MapOf(table) = [x \in W |-> table.value[x]]
  BY FoundIs
<1>7. tAnswer' = [ret |-> 0, freed |-> H!Abstract!Away(DOMAIN MapOf(table))]
  BY <1>1, <1>6, AllAway, MapNow
<1>8. H!Abstract!Reset <=>
        /\ table # H!NoTable
        /\ tAnswer' = [ret |-> 0, freed |-> H!Abstract!Away(DOMAIN MapOf(table))]
        /\ MapOf(table') = <<>>
        /\ (table' # H!NoTable) = (table # H!NoTable) /\ status' = status
  BY MapIs, Zenon DEF H!Abstract!Reset
<1> QED BY <1>1, <1>4, <1>5, <1>7, <1>8

LEMMA FreeTableSteps ==
  ASSUME HashInv, H!Free
  PROVE  HashInv' /\ H!Abstract!Free
<1>1. /\ table # H!NoTable /\ status' = status
      /\ tAnswer' = [ret |-> 0, freed |-> H!Away(table, H!Listed(table))]
      /\ table' = H!NoTable
  BY DEF H!Free
<1> PICK W : HashWith(table, W)
  BY <1>1 DEF HashInv
<1>2. HashInv'
  BY <1>1 DEF HashInv
<1>3. MapOf(table') = <<>>
  BY <1>1, NoneFound
<1>4. MapOf(table) = [x \in W |-> table.value[x]]
  BY FoundIs
<1>5. tAnswer' = [ret |-> 0, freed |-> H!Abstract!Away(DOMAIN MapOf(table))]
  BY <1>1, <1>4, AllAway, MapNow
<1>6. H!Abstract!Free <=>
        /\ table # H!NoTable /\ (table' # H!NoTable) = FALSE
        /\ tAnswer' = [ret |-> 0, freed |-> H!Abstract!Away(DOMAIN MapOf(table))]
        /\ MapOf(table') = <<>> /\ status' = status
  BY MapIs, Zenon DEF H!Abstract!Free
<1> QED BY <1>1, <1>2, <1>3, <1>5, <1>6

LEMMA CreateTableSteps ==
  ASSUME NEW z \in TableSizes, H!Create(z)
  PROVE  HashInv' /\ H!Abstract!Create
<1>1. /\ table = H!NoTable /\ table' = H!NewTable(z) /\ status' = "OK"
      /\ tAnswer' = H!Nothing
  BY DEF H!Create
<1>2. z \in Int
  BY LibraryAssumption
<1>3. HashWith(table', {})
  BY <1>1, <1>2, HashNew
<1>4. HashInv'
  BY <1>3 DEF HashInv
<1>5. table' # H!NoTable /\ MapOf(table') = <<>>
  <2>1. table' # H!NoTable /\ MapOf(table') = [x \in {} |-> table'.value[x]]
    BY <1>3, FoundIs
  <2> QED BY <2>1
<1>6. H!Abstract!Create <=>
        /\ ~(table # H!NoTable) /\ (table' # H!NoTable) = TRUE
        /\ MapOf(table') = <<>> /\ status' = "OK" /\ tAnswer' = H!Abstract!Nothing
  BY MapIs DEF H!Abstract!Create
<1>7. H!Abstract!Nothing = H!Nothing
  BY DEF H!Abstract!Nothing, H!Nothing
<1> QED BY <1>1, <1>4, <1>5, <1>6, <1>7

LEMMA TableBegins == LibInit => HashInv /\ H!Abstract!Init
<1> SUFFICES ASSUME LibInit PROVE HashInv /\ H!Abstract!Init
  OBVIOUS
<1>1. table = H!NoTable /\ status = "OK" /\ tAnswer = H!Nothing
  BY DEF LibInit, H!Init
<1>2. HashInv
  BY <1>1 DEF HashInv
<1>3. MapOf(table) = <<>>
  BY <1>1, NoneFound
<1>4. H!Abstract!Init <=>
        /\ (table # H!NoTable) = FALSE /\ MapOf(table) = <<>> /\ status = "OK"
        /\ tAnswer = H!Abstract!Nothing
  BY MapIs, Zenon DEF H!Abstract!Init
<1>5. H!Abstract!Nothing = H!Nothing
  BY DEF H!Abstract!Nothing, H!Nothing
<1> QED BY <1>1, <1>2, <1>3, <1>4, <1>5

LEMMA TableSteps == ASSUME [LibNext]_libvars PROVE [H!Next]_(H!vars)
BY DEF LibNext, IdleRest, libvars, H!vars

LEMMA TableStays ==
  ASSUME HashInv, [LibNext]_libvars
  PROVE  HashInv' /\ MapStep
<1> USE DEF MapStep
<1>1. [H!Next]_(H!vars)
  BY TableSteps
<1>2. ASSUME NEW k \in TableKey, NEW v \in Stored \cup {Null}, H!Enter(k, v)
      PROVE  HashInv' /\ MapStep
  BY <1>2, EnterSteps DEF H!Abstract!Next
<1>3. ASSUME NEW k \in TableKey, H!Find(k) \/ H!Delete(k)
      PROVE  HashInv' /\ MapStep
  BY <1>3, FindSteps, DeleteKeySteps DEF H!Abstract!Next
<1>4. ASSUME NEW z \in TableSizes, H!Create(z)
      PROVE  HashInv' /\ MapStep
  BY <1>4, CreateTableSteps DEF H!Abstract!Next
<1>5. CASE H!Reset \/ H!Free
  BY <1>5, ResetSteps, FreeTableSteps DEF H!Abstract!Next
<1>6. CASE UNCHANGED H!vars
  <2>1. table' = table /\ status' = status /\ tAnswer' = tAnswer
    BY <1>6 DEF H!vars
  <2>2. HashInv' /\ MapOf(table') = MapOf(table)
    BY <2>1 DEF HashInv
  <2>3. UNCHANGED H!Abstract!vars
    BY <2>1, <2>2, MapIs DEF H!Abstract!vars
  <2> QED BY <2>2, <2>3
<1> QED BY <1>1, <1>2, <1>3, <1>4, <1>5, <1>6 DEF H!Next

\* Htable: whatever was entered, deleted and moved to a larger array before,
\* with keys in the same bucket or not, each call finds, adds and takes out
\* what a map would, and every value is freed once (htable.c:182-207, 253-414).
THEOREM TablesAreMaps == LibSpec => HtableImplementsMap
<1>1. LibInit => HashInv /\ H!Abstract!Init
  BY TableBegins
<1>2. HashInv /\ [LibNext]_libvars => HashInv' /\ [H!Abstract!Next]_(H!Abstract!vars)
  BY TableStays DEF MapStep
<1> QED BY <1>1, <1>2, PTL DEF LibSpec, HtableImplementsMap, H!ImplementsMap, H!Abstract!Spec

-----------------------------------------------------------------------------
\* Htable: iteration meets every key once.

\* The lists of B in the order of g.
InOrder(B, g, z, c) ==
  /\ g \in [1 .. z -> 0 .. z - 1]
  /\ c = [i \in 1 .. z |-> B[g[i]]]

\* I are the buckets behind the place x of the order g, first says whether
\* g goes up.
Behind(I, g, z, x, first) ==
  /\ I \subseteq 0 .. z - 1
  /\ \A y \in x + 1 .. z : g[y] \in I
  /\ \A i \in I : \E y \in x + 1 .. z : g[y] = i
  /\ \A y, w \in x + 1 .. z : (IF first THEN g[y] <= g[w] ELSE g[w] <= g[y]) => y <= w

LEMMA BucketLands ==
  ASSUME NEW t, NEW B, HashIs(t, B), NEW g, NEW c, InOrder(B, g, t.size, c),
         NEW x \in 0 .. t.size, NEW I, NEW first \in BOOLEAN, Behind(I, g, t.size, x, first)
  PROVE  Lands(H!AtBucket(t, I, first), Null, c, t.size, g, x)
<1> DEFINE full == {i \in I : t.data[i] # Null}
           at == CHOOSE i \in full : \A j \in full : IF first THEN i <= j ELSE j <= i
           e == H!AtBucket(t, I, first)
<1>1. t.size \in Nat \ {0} /\ I \subseteq 0 .. t.size - 1
  BY DEF HashIs, Behind
<1>2. \A i \in 0 .. t.size - 1 : Len(B[i]) \in Nat /\ (t.data[i] # Null <=> Len(B[i]) # 0)
                                /\ (Len(B[i]) # 0 => t.data[i] = B[i][1])
  <2> SUFFICES ASSUME NEW i \in 0 .. t.size - 1
               PROVE  Len(B[i]) \in Nat /\ (t.data[i] # Null <=> Len(B[i]) # 0)
                      /\ (Len(B[i]) # 0 => t.data[i] = B[i][1])
    OBVIOUS
  <2>1. Chained(TableKey, Null, B[i], t.data[i], End(B[i], Null), t.next, t.prev)
    BY HashChain
  <2>2. /\ Len(B[i]) \in Nat /\ t.data[i] = IF Len(B[i]) = 0 THEN Null ELSE B[i][1]
        /\ \A j \in 1 .. Len(B[i]) : B[i][j] # Null
    BY <2>1, ChainedParts
  <2>3. Len(B[i]) # 0 => 1 \in 1 .. Len(B[i])
    BY <2>2
  <2> QED BY <2>2, <2>3
<1>3. e = IF full = {} THEN [i |-> -1, ptr |-> Null] ELSE [i |-> at, ptr |-> t.data[at]]
  BY DEF H!AtBucket
<1>4. \A y \in x + 1 .. t.size :
        c[y] = B[g[y]] /\ g[y] \in I /\ g[y] \in 0 .. t.size - 1
  BY <1>1 DEF InOrder, Behind
<1>5. CASE full = {}
  <2>1. \A y \in x + 1 .. t.size : Len(c[y]) = 0
    BY <1>2, <1>4, <1>5
  <2>2. e.ptr = Null
    BY <1>3, <1>5
  <2> HIDE DEF e
  <2>3. Lands(e, Null, c, t.size, g, x)
    BY <2>1, <2>2 DEF Lands
  <2> QED BY <2>3 DEF e
<1>6. CASE full # {}
  <2>1. at \in full /\ \A j \in full : IF first THEN at <= j ELSE j <= at
    <3>1. \E i \in full : \A j \in full : IF first THEN i <= j ELSE j <= i
      <4> PICK n \in Nat : n = t.size - 1
        BY <1>1
      <4>1. full \in SUBSET (0 .. n)
        BY <1>1, Zenon
      <4> HIDE DEF full
      <4>2. /\ \E i \in full : \A j \in full : i <= j
            /\ \E i \in full : \A j \in full : j <= i
        BY <1>6, <4>1, EndsThere, Zenon
      <4> QED BY <4>2
    <3> HIDE DEF full
    <3> QED BY <3>1
  <2>2. e.i = at /\ e.ptr = t.data[at]
    BY <1>3, <1>6
  <2> HIDE DEF at, e
  <2>3. at \in I /\ t.data[at] # Null
    BY <2>1
  <2> PICK y \in x + 1 .. t.size : g[y] = at
    BY <2>3 DEF Behind
  <2>4. Len(c[y]) # 0 /\ e.i = g[y] /\ e.ptr = c[y][1]
    BY <1>2, <1>4, <2>2, <2>3
  <2>5. ASSUME NEW w \in x + 1 .. y - 1, Len(c[w]) # 0 PROVE FALSE
    <3>1. w \in x + 1 .. t.size /\ ~(y <= w)
      BY <1>1
    <3>2. g[w] \in full
      BY <1>2, <1>4, <2>5, <3>1
    <3>3. IF first THEN g[y] <= g[w] ELSE g[w] <= g[y]
      BY <2>1, <3>2
    <3> QED BY <3>1, <3>3 DEF Behind
  <2>6. Lands(e, Null, c, t.size, g, x)
    BY <2>4, <2>5 DEF Lands
  <2> QED BY <2>6 DEF e
<1> QED BY <1>5, <1>6

\* The buckets in their own order, and backwards.
GoesUp(g, z) == g = [i \in 1 .. z |-> i - 1]

GoesDown(g, z) == g = [i \in 1 .. z |-> z - i]

LEMMA BehindUp ==
  ASSUME NEW z \in Nat, NEW g, GoesUp(g, z), NEW x \in 0 .. z
  PROVE  Behind(x .. z - 1, g, z, x, TRUE)
<1>1. \A y \in x + 1 .. z : g[y] = y - 1
  BY DEF GoesUp
<1>2. ASSUME NEW i \in x .. z - 1 PROVE \E y \in x + 1 .. z : g[y] = i
  <2>1. i + 1 \in x + 1 .. z /\ i + 1 - 1 = i
    OBVIOUS
  <2> QED BY <1>1, <2>1
<1>3. x .. z - 1 \subseteq 0 .. z - 1
  OBVIOUS
<1>4. \A y \in x + 1 .. z : g[y] \in x .. z - 1
  BY <1>1
<1>5. \A y, w \in x + 1 .. z : g[y] <= g[w] => y <= w
  BY <1>1
<1> QED BY <1>2, <1>3, <1>4, <1>5 DEF Behind

LEMMA BehindDown ==
  ASSUME NEW z \in Nat, NEW g, GoesDown(g, z), NEW x \in 0 .. z
  PROVE  Behind(0 .. z - x - 1, g, z, x, FALSE)
<1>1. \A y \in x + 1 .. z : g[y] = z - y
  BY DEF GoesDown
<1>2. ASSUME NEW i \in 0 .. z - x - 1 PROVE \E y \in x + 1 .. z : g[y] = i
  <2>1. z - i \in x + 1 .. z /\ z - (z - i) = i
    OBVIOUS
  <2> QED BY <1>1, <2>1
<1>3. 0 .. z - x - 1 \subseteq 0 .. z - 1
  OBVIOUS
<1>4. \A y \in x + 1 .. z : g[y] \in 0 .. z - x - 1
  BY <1>1
<1>5. \A y, w \in x + 1 .. z : g[w] <= g[y] => y <= w
  BY <1>1
<1> QED BY <1>2, <1>3, <1>4, <1>5 DEF Behind

\* The iteration over t from its head or its tail.
StartOf(t, up) == IF up THEN H!IterHead(t) ELSE H!IterTail(t)

StepFrom(t, up, e) == IF up THEN H!IterNext(t, e) ELSE H!IterPrev(t, e)

Iterated(f, t, up, n) ==
  f = [i \in 0 .. n |-> IF i = 0 THEN StartOf(t, up)
                        ELSE IF f[i - 1].ptr = Null THEN f[i - 1] ELSE StepFrom(t, up, f[i - 1])]

LEMMA WalkThere ==
  ASSUME NEW t, NEW up, NEW n \in Nat
  PROVE  \E f : Iterated(f, t, up, n)
<1> DEFINE D == {k \in Nat : \E f : Iterated(f, t, up, k)}
<1>1. 0 \in D
  <2> DEFINE f == [i \in 0 .. 0 |-> StartOf(t, up)]
  <2>1. f = [i \in 0 .. 0 |->
               IF i = 0 THEN StartOf(t, up)
               ELSE IF f[i - 1].ptr = Null THEN f[i - 1] ELSE StepFrom(t, up, f[i - 1])]
    OBVIOUS
  <2> HIDE DEF f
  <2>2. Iterated(f, t, up, 0)
    BY <2>1 DEF Iterated
  <2> QED BY <2>2
<1>2. ASSUME NEW k \in D PROVE k + 1 \in D
  <2> PICK f : Iterated(f, t, up, k)
    OBVIOUS
  <2>0. k \in Nat
    OBVIOUS
  <2>1. \A i \in 0 .. k :
          f[i] = IF i = 0 THEN StartOf(t, up)
                 ELSE IF f[i - 1].ptr = Null THEN f[i - 1] ELSE StepFrom(t, up, f[i - 1])
    BY DEF Iterated
  <2> PICK l \in Nat : l = k + 1
    BY <2>0
  <2> DEFINE Q == [i \in 0 .. l |->
                     IF i <= k THEN f[i]
                     ELSE IF f[k].ptr = Null THEN f[k] ELSE StepFrom(t, up, f[k])]
  <2>2. ASSUME NEW i \in 0 .. l
        PROVE  Q[i] = IF i = 0 THEN StartOf(t, up)
                      ELSE IF Q[i - 1].ptr = Null THEN Q[i - 1] ELSE StepFrom(t, up, Q[i - 1])
    <3>1. CASE i = 0
      <4>1. i \in 0 .. k /\ i <= k
        BY <2>0, <3>1
      <4> QED BY <2>1, <3>1, <4>1
    <3>2. CASE i # 0 /\ i <= k
      <4>1. i \in 0 .. k /\ i - 1 \in 0 .. l /\ i - 1 <= k
        BY <2>0, <3>2
      <4>2. Q[i - 1] = f[i - 1] /\ Q[i] = f[i]
        BY <3>2, <4>1
      <4> HIDE DEF Q
      <4> QED BY <2>1, <3>2, <4>1, <4>2
    <3>3. CASE ~(i <= k)
      <4>1. i = l /\ i - 1 = k /\ k \in 0 .. l /\ i # 0
        BY <2>0, <3>3
      <4>2. Q[k] = f[k] /\ Q[i] = IF f[k].ptr = Null THEN f[k] ELSE StepFrom(t, up, f[k])
        BY <2>0, <3>3, <4>1
      <4> HIDE DEF Q
      <4> QED BY <4>1, <4>2
    <3> QED BY <3>1, <3>2, <3>3
  <2>3. Q = [i \in 0 .. l |-> Q[i]]
    OBVIOUS
  <2> HIDE DEF Q
  <2>4. Iterated(Q, t, up, l)
    BY <2>2, <2>3, Zenon DEF Iterated
  <2> HIDE DEF D
  <2>5. l \in D
    BY <2>4 DEF D
  <2> QED BY <2>5
<1> HIDE DEF D
<1>3. D \in SUBSET Nat
  BY DEF D
<1>4. n \in D
  BY <1>1, <1>2, <1>3, SetInduction
<1> QED BY <1>4 DEF D

\* The entry behind the last of a chain is in a bucket behind.
LEMMA WalkLands ==
  ASSUME NEW t, NEW B, HashIs(t, B), NEW g, NEW c, InOrder(B, g, t.size, c),
         NEW up \in BOOLEAN, IF up THEN GoesUp(g, t.size) ELSE GoesDown(g, t.size)
  PROVE  /\ Lands(StartOf(t, up), Null, c, t.size, g, 0)
         /\ \A e : e.ptr # Null =>
               IF t.next[e.ptr] # Null
               THEN /\ StepFrom(t, up, e).i = e.i
                    /\ StepFrom(t, up, e).ptr = t.next[e.ptr]
               ELSE \A x \in 1 .. t.size :
                      e.i = g[x] => Lands(StepFrom(t, up, e), Null, c, t.size, g, x)
<1> PICK z \in Nat \ {0} : z = t.size
  BY DEF HashIs
<1>0. 0 \in 0 .. z /\ z - 0 - 1 = z - 1
  OBVIOUS
<1>1. CASE up
  <2>0. GoesUp(g, z)
    BY <1>1
  <2>1. ASSUME NEW x \in 0 .. z
        PROVE  Lands(H!AtBucket(t, x .. z - 1, TRUE), Null, c, z, g, x)
    <3>1. Behind(x .. z - 1, g, z, x, TRUE)
      BY <2>0, BehindUp, Zenon
    <3> QED BY <3>1, BucketLands, Zenon
  <2>2. Lands(StartOf(t, up), Null, c, z, g, 0)
    BY <1>0, <1>1, <2>1, Zenon DEF StartOf, H!IterHead
  <2>3. ASSUME NEW e, t.next[e.ptr] # Null
        PROVE  StepFrom(t, up, e).i = e.i /\ StepFrom(t, up, e).ptr = t.next[e.ptr]
    BY <1>1, <2>3 DEF StepFrom, H!IterNext
  <2>4. ASSUME NEW e, t.next[e.ptr] = Null, NEW x \in 1 .. z, e.i = g[x]
        PROVE  Lands(StepFrom(t, up, e), Null, c, z, g, x)
    <3>1. x \in 0 .. z /\ e.i + 1 = x
      BY <2>0, <2>4 DEF GoesUp
    <3>2. StepFrom(t, up, e) = H!AtBucket(t, x .. z - 1, TRUE)
      BY <1>1, <2>4, <3>1, Zenon DEF StepFrom, H!IterNext
    <3> QED BY <2>1, <3>1, <3>2, Zenon
  <2> QED BY <2>2, <2>3, <2>4
<1>2. CASE ~up
  <2>0. GoesDown(g, z)
    BY <1>2
  <2>1. ASSUME NEW x \in 0 .. z
        PROVE  Lands(H!AtBucket(t, 0 .. z - x - 1, FALSE), Null, c, z, g, x)
    <3>1. Behind(0 .. z - x - 1, g, z, x, FALSE)
      BY <2>0, BehindDown, Zenon
    <3> QED BY <3>1, BucketLands, Zenon
  <2>2. Lands(StartOf(t, up), Null, c, z, g, 0)
    <3>1. StartOf(t, up) = H!AtBucket(t, 0 .. z - 1, FALSE)
      BY <1>2 DEF StartOf, H!IterTail
    <3>2. Lands(H!AtBucket(t, 0 .. z - 0 - 1, FALSE), Null, c, z, g, 0)
      BY <1>0, <2>1, Zenon
    <3> QED BY <1>0, <3>1, <3>2, Zenon
  <2>3. ASSUME NEW e, t.next[e.ptr] # Null
        PROVE  StepFrom(t, up, e).i = e.i /\ StepFrom(t, up, e).ptr = t.next[e.ptr]
    BY <1>2, <2>3 DEF StepFrom, H!IterPrev
  <2>4. ASSUME NEW e, t.next[e.ptr] = Null, NEW x \in 1 .. z, e.i = g[x]
        PROVE  Lands(StepFrom(t, up, e), Null, c, z, g, x)
    <3>1. x \in 0 .. z /\ e.i = z - x
      BY <2>0, <2>4 DEF GoesDown
    <3>2. StepFrom(t, up, e) = H!AtBucket(t, 0 .. z - x - 1, FALSE)
      BY <1>2, <2>4, <3>1 DEF StepFrom, H!IterPrev
    <3> QED BY <2>1, <3>1, <3>2, Zenon
  <2> QED BY <2>2, <2>3, <2>4
<1> QED BY <1>1, <1>2

LEMMA WalkIterates ==
  ASSUME NEW t, NEW B, HashIs(t, B), NEW g, NEW c, InOrder(B, g, t.size, c),
         NEW up \in BOOLEAN, IF up THEN GoesUp(g, t.size) ELSE GoesDown(g, t.size),
         NEW n \in Nat, NEW f, Iterated(f, t, up, n)
  PROVE  Iterates(f, TableKey, Null, c, t.size, g, t.next, n)
<1>1. /\ Lands(StartOf(t, up), Null, c, t.size, g, 0)
      /\ \A e : e.ptr # Null =>
            IF t.next[e.ptr] # Null
            THEN /\ StepFrom(t, up, e).i = e.i
                 /\ StepFrom(t, up, e).ptr = t.next[e.ptr]
            ELSE \A x \in 1 .. t.size :
                   e.i = g[x] => Lands(StepFrom(t, up, e), Null, c, t.size, g, x)
  BY WalkLands, Zenon
<1>2. f = [i \in 0 .. n |->
             IF i = 0 THEN StartOf(t, up)
             ELSE IF f[i - 1].ptr = Null THEN f[i - 1] ELSE StepFrom(t, up, f[i - 1])]
  BY DEF Iterated
<1>3. f[0] = StartOf(t, up)
  BY <1>2
<1>4. \A k \in 1 .. n :
        f[k] = IF f[k - 1].ptr = Null THEN f[k - 1] ELSE StepFrom(t, up, f[k - 1])
  BY <1>2
<1> QED BY <1>1, <1>3, <1>4 DEF Iterates

LEMMA ListedInOrder ==
  ASSUME NEW t, NEW B, HashIs(t, B), NEW g, NEW c, InOrder(B, g, t.size, c)
  PROVE  /\ GoesUp(g, t.size) => H!Listed(t) = FlattenSeq(c)
         /\ GoesDown(g, t.size) => H!ListedBack(t) = FlattenSeq(c)
<1> PICK z \in Nat \ {0} : z = t.size
  BY DEF HashIs
<1>1. \A i \in 0 .. z - 1 : H!Chain(t, t.data[i]) = B[i]
  BY HashChain
<1>2. \A b : H!FlattenSeq(b) = FlattenSeq(b)
  BY DEF H!FlattenSeq, FlattenSeq
<1>3. c = [i \in 1 .. z |-> B[g[i]]]
  BY DEF InOrder
<1>4. ASSUME GoesUp(g, z) PROVE H!Listed(t) = FlattenSeq(c)
  <2>1. c = [i \in 1 .. z |-> H!Chain(t, t.data[i - 1])]
    <3>1. ASSUME NEW i \in 1 .. z PROVE B[g[i]] = H!Chain(t, t.data[i - 1])
      <4>1. g[i] = i - 1 /\ i - 1 \in 0 .. z - 1
        BY <1>4 DEF GoesUp
      <4> QED BY <1>1, <4>1
    <3> QED BY <1>3, <3>1
  <2> QED BY <1>2, <2>1 DEF H!Listed
<1>5. ASSUME GoesDown(g, z) PROVE H!ListedBack(t) = FlattenSeq(c)
  <2>1. c = [i \in 1 .. z |-> H!Chain(t, t.data[z - i])]
    BY <1>1, <1>3, <1>5 DEF GoesDown
  <2> QED BY <1>2, <2>1 DEF H!ListedBack
<1> QED BY <1>4, <1>5

\* What an iteration of n + 1 steps meets.
Met(f, n) == [k \in {i \in 1 .. n + 1 : f[i - 1].ptr # Null} |-> f[k - 1].ptr]

LEMMA WalkMeets ==
  ASSUME NEW t, NEW B, HashIs(t, B), NEW g, NEW c, InOrder(B, g, t.size, c),
         NEW up \in BOOLEAN, IF up THEN GoesUp(g, t.size) ELSE GoesDown(g, t.size),
         NEW f, Iterated(f, t, up, Cardinality(TableKey)),
         FlattenSeq(c) \in Seq(TableKey), Once(FlattenSeq(c))
  PROVE  Met(f, Cardinality(TableKey)) = FlattenSeq(c)
<1> PICK z \in Nat \ {0} : z = t.size
  BY DEF HashIs
<1> PICK n \in Nat : n = Cardinality(TableKey)
  BY LibraryAssumption, FS_CardinalityType
<1> PICK s : s = FlattenSeq(c)
  OBVIOUS
<1>1. s \in Seq(TableKey) /\ Once(s) /\ Len(s) \in Nat /\ s = [k \in 1 .. Len(s) |-> s[k]]
  OBVIOUS
<1>2. Len(s) <= n
  <2>1. Len(s) = Cardinality({x \in TableKey : In(s, x)})
    <3> DEFINE W == {x \in TableKey : In(s, x)}
    <3>1. \A x : In(s, x) <=> x \in W
      BY <1>1 DEF In
    <3> HIDE DEF W
    <3>2. Len(s) = Cardinality(W)
      BY <1>1, <3>1, OnceLen
    <3> QED BY <3>2 DEF W
  <2>2. {x \in TableKey : In(s, x)} \subseteq TableKey /\ IsFiniteSet(TableKey)
    BY LibraryAssumption
  <2> QED BY <2>1, <2>2, FS_Subset
<1>3. B \in [0 .. z - 1 -> Seq(TableKey)]
  BY DEF HashIs, Bucketed
<1>4. g \in [1 .. z -> 0 .. z - 1] /\ c = [i \in 1 .. z |-> B[g[i]]]
  BY DEF InOrder
<1>5. c \in Seq(Seq(TableKey)) /\ Len(c) = z
  <2>1. \A i \in 1 .. z : B[g[i]] \in Seq(TableKey)
    BY <1>3, <1>4, Zenon
  <2> QED BY <1>4, <2>1
<1>6. LinkedLists(TableKey, Null, c, z, t.next)
  <2> SUFFICES ASSUME NEW x \in 1 .. z, NEW j \in 1 .. Len(c[x])
               PROVE  /\ c[x][j] # Null
                      /\ t.next[c[x][j]] = IF j = Len(c[x]) THEN Null ELSE c[x][j + 1]
    BY DEF LinkedLists
  <2> PICK i \in 0 .. z - 1 : i = g[x] /\ c[x] = B[i]
    BY <1>4, Zenon
  <2>1. ASSUME NEW b, NEW h, NEW e, NEW w, Chained(TableKey, Null, b, h, e, t.next, w),
               NEW k \in 1 .. Len(b)
        PROVE  b[k] # Null /\ t.next[b[k]] = IF k = Len(b) THEN Null ELSE b[k + 1]
    <3>1. \A l \in 1 .. Len(b) : b[l] # Null
      BY <2>1, ChainedParts
    <3>2. \A l \in 1 .. Len(b) : t.next[b[l]] = IF l = Len(b) THEN Null ELSE b[l + 1]
      BY <2>1, ChainedParts
    <3> QED BY <3>1, <3>2, Zenon
  <2>2. Chained(TableKey, Null, c[x], t.data[i], End(c[x], Null), t.next, t.prev)
    BY HashChain
  <2> QED BY <2>1, <2>2, Zenon
<1> PICK Q : Joins(Q, TableKey, c, z)
  <2>1. z <= Len(c)
    BY <1>5
  <2> QED BY <1>5, <2>1, JoinsThere
<1>7. Grow(Q, TableKey, c, z)
  <2>1. z <= Len(c)
    BY <1>5
  <2> QED BY <1>5, <2>1, JoinsGrow
<1>8. s = Q[z]
  <2>1. Joins(Q, TableKey, c, Len(c)) /\ c \in Seq(Seq(TableKey))
    BY <1>5
  <2>2. \A b \in Seq(Seq(TableKey)) : \A h : Joins(h, TableKey, b, Len(b)) => FlattenSeq(b) = h[Len(b)]
    BY FlattenJoins
  <2>3. FlattenSeq(c) = Q[Len(c)]
    BY <2>1, <2>2, Zenon
  <2> QED BY <1>5, <2>3
<1>9. Iterates(f, TableKey, Null, c, z, g, t.next, n)
  BY WalkIterates, Zenon
<1>10. ASSUME NEW k \in 1 .. n + 1
       PROVE  /\ f[k - 1].ptr # Null <=> k <= Len(s)
              /\ k <= Len(s) => f[k - 1].ptr = s[k]
  <2>1. MeetsAt(f[k - 1], Null, Q[z], k)
    <3>1. z \in Nat
      OBVIOUS
    <3> QED BY <1>6, <1>7, <1>9, <3>1, IterationIs, Zenon
  <2> QED BY <1>8, <2>1 DEF MeetsAt
<1>11. {i \in 1 .. n + 1 : f[i - 1].ptr # Null} = 1 .. Len(s)
  <2>1. \A i : i \in 1 .. Len(s) <=> i \in 1 .. n + 1 /\ i <= Len(s)
    BY <1>1, <1>2
  <2> QED BY <1>10, <2>1
<1>12. \A k \in 1 .. Len(s) : f[k - 1].ptr = s[k]
  <2>1. \A k \in 1 .. Len(s) : k \in 1 .. n + 1 /\ k <= Len(s)
    BY <1>1, <1>2
  <2> QED BY <1>10, <2>1
<1>13. Met(f, n) = [k \in 1 .. Len(s) |-> s[k]]
  BY <1>11, <1>12 DEF Met
<1> QED BY <1>1, <1>13

LEMMA VisitsAreWalks ==
  /\ \E f : /\ Iterated(f, table, TRUE, Cardinality(TableKey))
             /\ H!Visits(H!IterHead, H!IterNext) = Met(f, Cardinality(TableKey))
  /\ \E f : /\ Iterated(f, table, FALSE, Cardinality(TableKey))
             /\ H!Visits(H!IterTail, H!IterPrev) = Met(f, Cardinality(TableKey))
<1> PICK n \in Nat : n = Cardinality(TableKey) /\ n = H!Cardinality(TableKey)
  BY LibraryAssumption, FS_CardinalityType, KeysAreSome
<1>1. \E f : Iterated(f, table, TRUE, n) /\ H!Visits(H!IterHead, H!IterNext) = Met(f, n)
  <2> DEFINE f == CHOOSE it : it = [i \in 0 .. n |->
                    IF i = 0 THEN H!IterHead(table)
                    ELSE IF it[i - 1].ptr = Null THEN it[i - 1] ELSE H!IterNext(table, it[i - 1])]
  <2>1. \E it : it = [i \in 0 .. n |->
                    IF i = 0 THEN H!IterHead(table)
                    ELSE IF it[i - 1].ptr = Null THEN it[i - 1] ELSE H!IterNext(table, it[i - 1])]
    <3> PICK w : Iterated(w, table, TRUE, n)
      BY WalkThere, Zenon
    <3>1. w = [i \in 0 .. n |->
                    IF i = 0 THEN H!IterHead(table)
                    ELSE IF w[i - 1].ptr = Null THEN w[i - 1] ELSE H!IterNext(table, w[i - 1])]
      BY DEF Iterated, StartOf, StepFrom
    <3> QED BY <3>1
  <2>2. f = [i \in 0 .. n |->
                    IF i = 0 THEN H!IterHead(table)
                    ELSE IF f[i - 1].ptr = Null THEN f[i - 1] ELSE H!IterNext(table, f[i - 1])]
    BY <2>1, Zenon
  <2>3. H!Visits(H!IterHead, H!IterNext) = [k \in {i \in 1 .. n + 1 : f[i - 1].ptr # Null} |-> f[k - 1].ptr]
    BY DEF H!Visits
  <2> HIDE DEF f
  <2>4. Iterated(f, table, TRUE, n)
    BY <2>2 DEF Iterated, StartOf, StepFrom
  <2> QED BY <2>3, <2>4, Zenon DEF Met
<1>2. \E f : Iterated(f, table, FALSE, n) /\ H!Visits(H!IterTail, H!IterPrev) = Met(f, n)
  <2> DEFINE f == CHOOSE it : it = [i \in 0 .. n |->
                    IF i = 0 THEN H!IterTail(table)
                    ELSE IF it[i - 1].ptr = Null THEN it[i - 1] ELSE H!IterPrev(table, it[i - 1])]
  <2>1. \E it : it = [i \in 0 .. n |->
                    IF i = 0 THEN H!IterTail(table)
                    ELSE IF it[i - 1].ptr = Null THEN it[i - 1] ELSE H!IterPrev(table, it[i - 1])]
    <3> PICK w : Iterated(w, table, FALSE, n)
      BY WalkThere, Zenon
    <3>1. w = [i \in 0 .. n |->
                    IF i = 0 THEN H!IterTail(table)
                    ELSE IF w[i - 1].ptr = Null THEN w[i - 1] ELSE H!IterPrev(table, w[i - 1])]
      BY DEF Iterated, StartOf, StepFrom
    <3> QED BY <3>1
  <2>2. f = [i \in 0 .. n |->
                    IF i = 0 THEN H!IterTail(table)
                    ELSE IF f[i - 1].ptr = Null THEN f[i - 1] ELSE H!IterPrev(table, f[i - 1])]
    BY <2>1, Zenon
  <2>3. H!Visits(H!IterTail, H!IterPrev) = [k \in {i \in 1 .. n + 1 : f[i - 1].ptr # Null} |-> f[k - 1].ptr]
    BY DEF H!Visits
  <2> HIDE DEF f
  <2>4. Iterated(f, table, FALSE, n)
    BY <2>2 DEF Iterated, StartOf, StepFrom
  <2> QED BY <2>3, <2>4, Zenon DEF Met
<1> QED BY <1>1, <1>2, Zenon

LEMMA VisitsListed ==
  ASSUME NEW W, HashWith(table, W)
  PROVE  /\ H!Visits(H!IterHead, H!IterNext) = H!Listed(table)
         /\ H!Visits(H!IterTail, H!IterPrev) = H!ListedBack(table)
<1> PICK B : HashIs(table, B)
  BY DEF HashWith
<1> PICK z \in Nat \ {0} : z = table.size
  BY DEF HashIs
<1>1. \A s \in {H!Listed(table), H!ListedBack(table)} : s \in Seq(TableKey) /\ Once(s)
  BY HashListed
<1>2. H!Visits(H!IterHead, H!IterNext) = H!Listed(table)
  <2> PICK g : g = [i \in 1 .. z |-> i - 1]
    BY Zenon
  <2> PICK c : c = [i \in 1 .. z |-> B[g[i]]]
    BY Zenon
  <2>1. GoesUp(g, z) /\ g \in [1 .. z -> 0 .. z - 1]
    BY DEF GoesUp
  <2>2. InOrder(B, g, z, c)
    BY <2>1 DEF InOrder
  <2>3. H!Listed(table) = FlattenSeq(c)
    BY <2>1, <2>2, ListedInOrder, Zenon
  <2> PICK f : /\ Iterated(f, table, TRUE, Cardinality(TableKey))
               /\ H!Visits(H!IterHead, H!IterNext) = Met(f, Cardinality(TableKey))
    BY VisitsAreWalks, Zenon
  <2>4. Met(f, Cardinality(TableKey)) = FlattenSeq(c)
    BY <1>1, <2>1, <2>2, <2>3, WalkMeets, Zenon
  <2> QED BY <2>3, <2>4
<1>3. H!Visits(H!IterTail, H!IterPrev) = H!ListedBack(table)
  <2> PICK g : g = [i \in 1 .. z |-> z - i]
    BY Zenon
  <2> PICK c : c = [i \in 1 .. z |-> B[g[i]]]
    BY Zenon
  <2>1. GoesDown(g, z) /\ g \in [1 .. z -> 0 .. z - 1]
    BY DEF GoesDown
  <2>2. InOrder(B, g, z, c)
    BY <2>1 DEF InOrder
  <2>3. H!ListedBack(table) = FlattenSeq(c)
    BY <2>1, <2>2, ListedInOrder
  <2> PICK f : /\ Iterated(f, table, FALSE, Cardinality(TableKey))
               /\ H!Visits(H!IterTail, H!IterPrev) = Met(f, Cardinality(TableKey))
    BY VisitsAreWalks, Zenon
  <2>4. Met(f, Cardinality(TableKey)) = FlattenSeq(c)
    BY <1>1, <2>1, <2>2, <2>3, WalkMeets, Zenon
  <2> QED BY <2>3, <2>4
<1> QED BY <1>2, <1>3

LEMMA VisitsOnce ==
  ASSUME HashInv PROVE H!VisitsAll
<1> SUFFICES ASSUME table # H!NoTable
             PROVE  /\ H!Visits(H!IterHead, H!IterNext) = H!Listed(table)
                    /\ H!Visits(H!IterTail, H!IterPrev) = H!ListedBack(table)
                    /\ \A s \in {H!Listed(table), H!ListedBack(table)} :
                         H!IsInjective(s) /\ H!Range(s) = H!Found /\ Len(s) = table.used
  BY DEF H!VisitsAll
<1> PICK W : HashWith(table, W)
  BY DEF HashInv
<1>1. table.used = Cardinality(W)
  BY DEF HashWith, HashIs
<1>2. H!Found = W
  BY FoundIs, MapNow
<1>3. ASSUME NEW s \in {H!Listed(table), H!ListedBack(table)}
      PROVE  H!IsInjective(s) /\ H!Range(s) = H!Found /\ Len(s) = table.used
  <2>1. s \in Seq(TableKey) /\ Once(s) /\ \A x : In(s, x) <=> x \in W
    BY HashListed
  <2>2. DOMAIN s = 1 .. Len(s)
    BY <2>1
  <2>3. H!IsInjective(s)
    BY <2>1, <2>2 DEF H!IsInjective, Once
  <2>4. H!Range(s) = W
    BY <2>1, <2>2 DEF H!Range, In
  <2>5. Len(s) = Cardinality(W)
    BY <2>1, OnceLen
  <2> QED BY <1>1, <1>2, <2>3, <2>4, <2>5
<1> QED BY <1>3, VisitsListed

\* Htable: whatever was entered, deleted and moved to a larger array before,
\* an iteration from either end meets every key that htable_find finds once
\* and nothing else, and used counts them (htable.c:6-131, 436-468).
THEOREM IterationIsComplete == LibSpec => []HtableVisitsAll
<1>1. LibInit => HashInv
  BY TableBegins
<1>2. HashInv /\ [LibNext]_libvars => HashInv'
  BY TableStays
<1>3. HashInv => HtableVisitsAll
  BY VisitsOnce DEF HtableVisitsAll
<1> QED BY <1>1, <1>2, <1>3, PTL DEF LibSpec

LEMMA SelectSteps == ASSUME [LibNext]_libvars PROVE [S!Next]_(S!vars)
BY DEF LibNext, IdleRest, libvars, S!vars

\* SelectPoll: no call of select is refused, though the array has room for the
\* largest set only; its entries are of sockets that were asked for, each has one
\* at most, and no event is in it that no set asks for, none missing that one does
\* (select.c:32-161).
THEOREM SelectsFit == LibSpec => []SelectEntriesAreAsked
<1>1. LibInit => SelectInv
  <2> SUFFICES ASSUME LibInit PROVE SelectInv
    OBVIOUS
  <2>1. sets = [k \in 1 .. 3 |-> Null] /\ asked = sets /\ fds = <<>> /\ ret = 0
    BY DEF LibInit, S!Init
  <2> QED BY <2>1 DEF SelectInv
<1>2. SelectInv /\ [LibNext]_libvars => SelectInv'
  <2> SUFFICES ASSUME SelectInv, [LibNext]_libvars PROVE SelectInv'
    OBVIOUS
  <2>1. [S!Next]_(S!vars)
    BY SelectSteps
  <2>2. CASE UNCHANGED S!vars
    <3>1. sets' = sets /\ asked' = asked /\ fds' = fds /\ ret' = ret
      BY <2>2 DEF S!vars
    <3>2. S!Asked' = S!Asked /\ \A i \in 1 .. 3 : S!AskedIn(i)' = S!AskedIn(i)
      BY <3>1 DEF S!Asked, S!AskedIn
    <3>3. FirstEntryOnly => FirstEntryOnly'
      BY <3>1, <3>2 DEF FirstEntryOnly
    <3> QED BY <3>1, <3>3 DEF SelectInv
  <2>3. CASE S!Select
    BY <2>3, SelectStays
  <2>4. ASSUME NEW k \in 1 .. 3, S!Give(k) \/ \E fd \in Socket : S!FdSet(k, fd)
        PROVE  SelectInv'
    BY <2>4, SetsStay
  <2> QED BY <2>1, <2>2, <2>3, <2>4 DEF S!Next
<1>3. SelectInv => SelectEntriesAreAsked
  BY ServicesAssumption, SelectSuffices DEF SelectEntriesAreAsked
<1> QED BY <1>1, <1>2, <1>3, PTL DEF LibSpec

LEMMA TextSteps == ASSUME [LibNext]_libvars PROVE [T!Next]_(T!vars)
BY Zenon DEF LibNext, IdleRest, libvars, T!vars

LEMMA TextInvariance == LibSpec => []TextInv
<1>1. LibInit => TextInv
  <2> SUFFICES ASSUME LibInit PROVE TextInv
    OBVIOUS
  <2>1. alphabet \in Alphabets /\ text = <<>>
    BY DEF LibInit, T!Init
  <2> QED BY <2>1, ShortTexts, Zenon DEF TextInv
<1>2. TextInv /\ [LibNext]_libvars => TextInv'
  <2> SUFFICES ASSUME TextInv, [LibNext]_libvars PROVE TextInv'
    OBVIOUS
  <2>1. [T!Next]_(T!vars)
    BY TextSteps
  <2>2. CASE UNCHANGED T!vars
    BY <2>2 DEF T!vars, TextInv
  <2> QED BY <2>1, <2>2, TextStays
<1> QED BY <1>1, <1>2, PTL DEF LibSpec

\* Addresses: whatever text it is given, valid_hostname accepts it when it is a
\* host name, labels, hyphens, lengths and all, and only then
\* (valid_hostname.c:9-84).
THEOREM NamesAreRecognized == LibSpec => []TextNames
<1>1. TextInv => TextNames
  <2> SUFFICES ASSUME IsText(text) PROVE T!NamesRecognized
    BY DEF TextInv, TextNames
  <2> PICK M : text \in Seq(M)
    BY DEF IsText
  <2>1. T!ValidHostname(text) <=> T!IsName(text)
    BY NameIsKnown
  <2> QED BY <2>1 DEF T!NamesRecognized
<1> QED BY TextInvariance, <1>1, PTL

=============================================================================
