-------------------------- MODULE EventLoop_proofs --------------------------
(* For any descriptors, the event layer's table, masks, queue and callbacks   *)
(* stay in step, nothing it keeps is freed, and it implements the poller.     *)
EXTENDS EventLoop, RingSeq_proofs, TLAPS

\* A pending change, as in oper.
Change == {"add", "del"} \X Dir

\* The types of EVENT_SELECT and of what it sets in FILE_EVENT.
SelectType ==
  [set : [Dir -> SUBSET Fd], x : SUBSET Fd, files : Seq(Fd), id : [Fd -> Int],
   fdcount : Int, mask : [Fd -> SUBSET Dir]]

\* A record with the fields of EVENT_SELECT.
Whole(e) ==
  e = [set |-> e.set, x |-> e.x, files |-> e.files, id |-> e.id,
       fdcount |-> e.fdcount, mask |-> e.mask]

\* The types of the fields.
Fields(e) ==
  /\ e.set \in [Dir -> SUBSET Fd] /\ e.x \in SUBSET Fd /\ e.files \in Seq(Fd)
  /\ e.id \in [Fd -> Int] /\ e.fdcount \in Int /\ e.mask \in [Fd -> SUBSET Dir]

\* The type of EVENT_SELECT is that of its fields.
LEMMA WholeType ==
  ASSUME NEW e
  PROVE  /\ e \in SelectType => Fields(e)
         /\ Whole(e) /\ Fields(e) => e \in SelectType
  BY DEF Whole, Fields, SelectType

\* The steps of select_add_read: a descriptor joins the table, ...
Listing(e, f) ==
  [e EXCEPT !.files = Append(@, f), !.id[f] = Len(e.files),
            !.x = @ \cup {f}, !.fdcount = @ + 1]

\* ... and a direction is registered.
Registering(e, f, d) == [e EXCEPT !.mask[f] = @ \cup {d}, !.set[d] = @ \cup {f}]

\* The table and the ids agree, ...
Filed(e) ==
  /\ e.x = ToSet(e.files)
  /\ e.fdcount = Len(e.files)
  /\ \A k \in DOMAIN e.files : e.id[e.files[k]] = k - 1
  /\ \A f \in Fd \ ToSet(e.files) : e.id[f] = -1

\* ... and so do masks and sets: what is left of TableOK is that the
\* descriptors in the sets are the listed ones.
Listed(e) ==
  /\ Filed(e)
  /\ \A f \in Fd : \A d \in Dir : d \in e.mask[f] <=> f \in e.set[d]

\* A descriptor that joins the table gets the next place, and its id.
LEMMA ListingProperties ==
  ASSUME NEW e \in SelectType, TableOK(e), NEW f \in Fd, f \notin ToSet(e.files)
  PROVE  /\ Listing(e, f) \in SelectType
         /\ Listing(e, f).set = e.set /\ Listing(e, f).mask = e.mask
         /\ ToSet(Listing(e, f).files) = ToSet(e.files) \cup {f}
         /\ Listed(Listing(e, f))
<1> PICK b : b = Listing(e, f)
  OBVIOUS
<1>0. Fields(e)
  BY WholeType
<1>1. /\ b.set = e.set /\ b.mask = e.mask /\ b.files = Append(e.files, f)
      /\ b.id = [e.id EXCEPT ![f] = Len(e.files)]
      /\ b.x = e.x \cup {f} /\ b.fdcount = e.fdcount + 1
      /\ Whole(b)
  BY DEF SelectType, Whole, Listing
<1>2. b \in SelectType
  <2>1. b.id \in [Fd -> Int] /\ b.files \in Seq(Fd)
    BY <1>0, <1>1 DEF Fields
  <2>2. Fields(b)
    BY <1>0, <1>1, <2>1 DEF Fields
  <2> QED BY <1>1, <2>2, WholeType
<1>3. ToSet(b.files) = ToSet(e.files) \cup {f}
  <2>1. e.files \in Seq(Fd)
    BY <1>0 DEF Fields
  <2>2. b.files = Append(e.files, f)
    BY <1>1
  <2>3. \A k \in DOMAIN Append(e.files, f) :
          Append(e.files, f)[k] = IF k = Len(e.files) + 1 THEN f ELSE e.files[k]
    BY <2>1
  <2>4. DOMAIN Append(e.files, f) = 1 .. Len(e.files) + 1
    BY <2>1
  <2>5. /\ ToSet(b.files) = {b.files[k] : k \in DOMAIN b.files}
        /\ ToSet(e.files) = {e.files[k] : k \in 1 .. Len(e.files)}
    BY <2>1 DEF ToSet
  <2> QED BY <2>1, <2>2, <2>3, <2>4, <2>5
<1>4. \A k \in DOMAIN b.files : b.id[b.files[k]] = k - 1
  <2> SUFFICES ASSUME NEW k \in 1 .. Len(e.files) + 1
               PROVE  b.id[b.files[k]] = k - 1
    BY <1>0, <1>1 DEF Fields
  <2>1. CASE k = Len(e.files) + 1
    BY <2>1, <1>0, <1>1 DEF Fields
  <2>2. CASE k \in 1 .. Len(e.files)
    <3>1. b.files[k] = e.files[k] /\ e.files[k] \in Fd /\ e.files[k] # f
      BY <2>2, <1>0, <1>1 DEF ToSet, Fields
    <3>2. e.id[e.files[k]] = k - 1
      BY <2>2, <1>0 DEF TableOK, Fields
    <3> QED BY <3>1, <3>2, <1>0, <1>1 DEF Fields
  <2> QED BY <2>1, <2>2
<1>5. \A g \in Fd \ ToSet(b.files) : b.id[g] = -1
  BY <1>0, <1>1, <1>3 DEF TableOK, Fields
<1>6. b.x = ToSet(b.files) /\ b.fdcount = Len(b.files)
  BY <1>0, <1>1, <1>3 DEF TableOK, Fields
<1>7. \A g \in Fd : \A d \in Dir : d \in b.mask[g] <=> g \in b.set[d]
  BY <1>1 DEF TableOK
<1> QED BY <1>1, <1>2, <1>3, <1>4, <1>5, <1>6, <1>7 DEF Listed, Filed

\* To register a direction of a listed descriptor leaves the table sound.
LEMMA RegisteringProperties ==
  ASSUME NEW e \in SelectType, NEW f \in Fd, NEW d \in Dir, Listed(e),
         f \in ToSet(e.files),
         ToSet(e.files) \cup {f} = e.set["R"] \cup e.set["W"] \cup {f}
  PROVE  /\ Registering(e, f, d) \in SelectType
         /\ TableOK(Registering(e, f, d))
         /\ Registering(e, f, d).mask = [e.mask EXCEPT ![f] = @ \cup {d}]
         /\ Registering(e, f, d).files = e.files
<1> PICK b : b = Registering(e, f, d)
  OBVIOUS
<1>0. Fields(e)
  BY WholeType
<1>1. /\ b.mask = [e.mask EXCEPT ![f] = @ \cup {d}]
      /\ b.set = [e.set EXCEPT ![d] = @ \cup {f}]
      /\ b.files = e.files /\ b.id = e.id /\ b.x = e.x /\ b.fdcount = e.fdcount
      /\ Whole(b)
  BY DEF SelectType, Whole, Registering
<1>2. b \in SelectType
  <2>1. b.mask \in [Fd -> SUBSET Dir] /\ b.set \in [Dir -> SUBSET Fd]
    BY <1>0, <1>1 DEF Fields
  <2>2. Fields(b)
    BY <1>0, <1>1, <2>1 DEF Fields
  <2> QED BY <1>1, <2>2, WholeType
<1>3. ToSet(b.files) = b.set["R"] \cup b.set["W"]
  BY <1>0, <1>1 DEF Dir, Fields
<1>4. \A g \in Fd : \A c \in Dir : c \in b.mask[g] <=> g \in b.set[c]
  BY <1>0, <1>1 DEF Listed, Filed, Fields
<1> QED BY <1>1, <1>2, <1>3, <1>4 DEF TableOK, Listed, Filed

\* select_add_read and select_add_write.
LEMMA SelectAddProperties ==
  ASSUME NEW e \in SelectType, TableOK(e), NEW f \in Fd, NEW d \in Dir
  PROVE  /\ SelectAdd(e, f, d) \in SelectType
         /\ TableOK(SelectAdd(e, f, d))
         /\ SelectAdd(e, f, d).mask = [e.mask EXCEPT ![f] = @ \cup {d}]
         /\ ToSet(SelectAdd(e, f, d).files) = ToSet(e.files) \cup {f}
<1>0. Listed(e) /\ ToSet(e.files) = e.set["R"] \cup e.set["W"]
  BY DEF TableOK, Listed, Filed
<1>1. CASE f \in e.set["R"] \cup e.set["W"]
  <2>1. SelectAdd(e, f, d) = Registering(e, f, d)
    BY <1>1 DEF SelectAdd, Registering
  <2> QED BY <1>0, <1>1, <2>1, RegisteringProperties
<1>2. CASE f \notin e.set["R"] \cup e.set["W"]
  <2>2. SelectAdd(e, f, d) = Registering(Listing(e, f), f, d)
    BY <1>2 DEF SelectAdd, Registering, Listing
  <2> PICK b : b = Listing(e, f)
    OBVIOUS
  <2>4. /\ b \in SelectType
        /\ b.set = e.set /\ b.mask = e.mask
        /\ ToSet(b.files) = ToSet(e.files) \cup {f}
        /\ Listed(b)
    BY <1>0, <1>2, ListingProperties
  <2>5. ToSet(b.files) \cup {f} = b.set["R"] \cup b.set["W"] \cup {f}
    BY <1>0, <2>4
  <2>6. /\ Registering(b, f, d) \in SelectType
        /\ TableOK(Registering(b, f, d))
        /\ Registering(b, f, d).mask = [b.mask EXCEPT ![f] = @ \cup {d}]
        /\ Registering(b, f, d).files = b.files
    BY <2>4, <2>5, RegisteringProperties
  <2> QED BY <2>2, <2>4, <2>6
<1> QED BY <1>1, <1>2

\* A descriptor leaves the table and the last one takes its place.
LEMMA UnlistProperties ==
  ASSUME NEW e \in SelectType, Filed(e), NEW f \in ToSet(e.files)
  PROVE  /\ Unlist(e, f) \in SelectType
         /\ Filed(Unlist(e, f))
         /\ Unlist(e, f).set = e.set /\ Unlist(e, f).mask = e.mask
         /\ ToSet(Unlist(e, f).files) = ToSet(e.files) \ {f}
<1> PICK b : b = Unlist(e, f)
  OBVIOUS
<1> DEFINE k == e.id[f] + 1
           n == Len(e.files)
<1>0. Fields(e)
  BY WholeType
<1>1. f \in Fd /\ k \in 1 .. n /\ e.files[k] = f /\ n \in Nat
  <2>1. PICK j \in 1 .. n : f = e.files[j]
    BY <1>0 DEF ToSet, Fields
  <2>2. e.id[f] = j - 1
    BY <2>1, <1>0 DEF Filed, Fields
  <2> QED BY <2>1, <2>2, <1>0 DEF Fields
<1>2. /\ b.set = e.set /\ b.mask = e.mask
      /\ b.files = [i \in 1 .. n - 1 |-> IF i = k THEN e.files[n] ELSE e.files[i]]
      /\ b.id = [e.id EXCEPT ![e.files[n]] = e.id[f], ![f] = -1]
      /\ b.x = e.x \ {f} /\ b.fdcount = e.fdcount - 1
      /\ Whole(b)
  BY DEF SelectType, Whole, Unlist
<1>3. /\ b.files \in Seq(Fd) /\ Len(b.files) = n - 1
      /\ \A i \in 1 .. n - 1 : b.files[i] = IF i = k THEN e.files[n] ELSE e.files[i]
  <2>1. \A i \in 1 .. n - 1 : (IF i = k THEN e.files[n] ELSE e.files[i]) \in Fd
    BY <1>0, <1>1 DEF Fields
  <2>2. n - 1 \in Nat
    BY <1>1
  <2> HIDE DEF k, n
  <2> QED BY <1>2, <2>1, <2>2
<1> HIDE DEF k, n
<1>4. \A i, j \in 1 .. n : e.files[i] = e.files[j] => i = j
  <2> SUFFICES ASSUME NEW i \in 1 .. n, NEW j \in 1 .. n, e.files[i] = e.files[j]
               PROVE  i = j
    OBVIOUS
  <2>1. e.id[e.files[i]] = i - 1 /\ e.id[e.files[j]] = j - 1
    BY <1>0 DEF n, Filed, Fields
  <2> QED BY <2>1
<1>5. e.files[n] \in Fd /\ n \in 1 .. n
  BY <1>0, <1>1 DEF n, Fields
<1>6. e.id[f] = k - 1 /\ k - 1 \in Int
  <2>1. e.id[f] \in Int
    BY <1>0, <1>1 DEF Fields
  <2> QED BY <2>1 DEF k
<1>7. /\ b.id \in [Fd -> Int]
      /\ \A g \in Fd : b.id[g] = IF g = f THEN -1
                                ELSE IF g = e.files[n] THEN k - 1 ELSE e.id[g]
  <2> DEFINE m == [e.id EXCEPT ![e.files[n]] = e.id[f]]
  <2>1. m \in [Fd -> Int] /\ b.id = [m EXCEPT ![f] = -1]
    BY <1>0, <1>2, <1>5, <1>6 DEF Fields
  <2>2. \A g \in Fd : m[g] = IF g = e.files[n] THEN e.id[f] ELSE e.id[g]
    BY <1>0 DEF Fields
  <2> HIDE DEF m
  <2> QED BY <2>1, <2>2, <1>1, <1>6
<1>8. b \in SelectType
  <2>1. b.x \in SUBSET Fd /\ b.fdcount \in Int
    BY <1>0, <1>2 DEF Fields
  <2>2. Fields(b)
    BY <2>1, <1>0, <1>2, <1>3, <1>7 DEF Fields
  <2> QED BY <1>2, <2>2, WholeType
<1>9. ToSet(b.files) = ToSet(e.files) \ {f}
  <2>0. /\ ToSet(b.files) = {b.files[i] : i \in 1 .. n - 1}
        /\ ToSet(e.files) = {e.files[i] : i \in 1 .. n}
    BY <1>0, <1>1, <1>3 DEF n, ToSet, Fields
  <2>1. ASSUME NEW i \in 1 .. n - 1
        PROVE  b.files[i] \in ToSet(e.files) \ {f}
    <3>1. i \in 1 .. n /\ n # i
      BY <1>1
    <3>2. b.files[i] = IF i = k THEN e.files[n] ELSE e.files[i]
      BY <1>3
    <3>3. b.files[i] # f
      <4>1. CASE i = k
        BY <4>1, <3>1, <1>1, <1>3, <1>4, <1>5
      <4>2. CASE i # k
        BY <4>2, <3>1, <1>1, <1>3, <1>4
      <4> QED BY <4>1, <4>2
    <3> QED BY <2>0, <3>1, <3>2, <3>3, <1>5
  <2>2. ASSUME NEW i \in 1 .. n, e.files[i] # f
        PROVE  e.files[i] \in ToSet(b.files)
    <3>1. CASE i = n
      <4>1. k \in 1 .. n - 1 /\ b.files[k] = e.files[n]
        BY <3>1, <2>2, <1>1, <1>3
      <4> QED BY <4>1, <3>1, <2>0
    <3>2. CASE i # n
      <4>1. i \in 1 .. n - 1 /\ i # k
        BY <3>2, <2>2, <1>1
      <4>2. b.files[i] = e.files[i]
        BY <4>1, <1>3
      <4> QED BY <4>1, <4>2, <2>0
    <3> QED BY <3>1, <3>2
  <2> QED BY <2>0, <2>1, <2>2
<1>10. \A i \in DOMAIN b.files : b.id[b.files[i]] = i - 1
  <2> SUFFICES ASSUME NEW i \in 1 .. n - 1 PROVE b.id[b.files[i]] = i - 1
    BY <1>1, <1>3
  <2>1. CASE i = k
    <3>1. b.files[i] = e.files[n] /\ e.files[n] # f
      BY <2>1, <1>1, <1>3, <1>4, <1>5
    <3> QED BY <3>1, <2>1, <1>5, <1>7
  <2>2. CASE i # k
    <3>1. /\ b.files[i] = e.files[i] /\ e.files[i] \in Fd
          /\ e.files[i] # f /\ e.files[i] # e.files[n]
      BY <2>2, <1>0, <1>1, <1>3, <1>4, <1>5 DEF Fields
    <3>2. e.id[e.files[i]] = i - 1
      BY <1>0, <1>1 DEF n, Filed, Fields
    <3> QED BY <3>1, <3>2, <1>7
  <2> QED BY <2>1, <2>2
<1>11. \A g \in Fd \ ToSet(b.files) : b.id[g] = -1
  <2> SUFFICES ASSUME NEW g \in Fd, g \notin ToSet(b.files), g # f
               PROVE  b.id[g] = -1
    BY <1>7
  <2>1. g \notin ToSet(e.files)
    BY <1>9
  <2>2. g # e.files[n]
    BY <2>1, <1>0, <1>5 DEF n, ToSet, Fields
  <2> QED BY <2>1, <2>2, <1>7 DEF Filed
<1>12. b.x = ToSet(b.files) /\ b.fdcount = Len(b.files)
  BY <1>0, <1>2, <1>3, <1>9 DEF n, Filed, Fields
<1> QED BY <1>2, <1>8, <1>9, <1>10, <1>11, <1>12 DEF Filed

\* The other steps of select_del_read.
Clearing(e, f, d) == [e EXCEPT !.set[d] = @ \ {f}]
Unmasking(e, f, d) == [e EXCEPT !.mask[f] = @ \ {d}]

\* A descriptor leaves one set; the table is as it was.
LEMMA ClearingProperties ==
  ASSUME NEW e \in SelectType, NEW f \in Fd, NEW d \in Dir, Filed(e)
  PROVE  /\ Clearing(e, f, d) \in SelectType
         /\ Filed(Clearing(e, f, d))
         /\ Clearing(e, f, d).set = [e.set EXCEPT ![d] = @ \ {f}]
         /\ Clearing(e, f, d).mask = e.mask /\ Clearing(e, f, d).files = e.files
<1> PICK b : b = Clearing(e, f, d)
  OBVIOUS
<1>0. Fields(e)
  BY WholeType
<1>1. /\ b.set = [e.set EXCEPT ![d] = @ \ {f}] /\ b.mask = e.mask
      /\ b.files = e.files /\ b.id = e.id /\ b.x = e.x /\ b.fdcount = e.fdcount
      /\ Whole(b)
  BY DEF SelectType, Whole, Clearing
<1>2. b.set \in [Dir -> SUBSET Fd]
  BY <1>0, <1>1 DEF Fields
<1>3. Fields(b)
  BY <1>0, <1>1, <1>2 DEF Fields
<1>4. Filed(b)
  BY <1>1 DEF Filed
<1> QED BY <1>1, <1>3, <1>4, WholeType

\* A direction leaves the mask; the table is as it was.
LEMMA UnmaskingProperties ==
  ASSUME NEW e \in SelectType, NEW f \in Fd, NEW d \in Dir, Filed(e)
  PROVE  /\ Unmasking(e, f, d) \in SelectType
         /\ Filed(Unmasking(e, f, d))
         /\ Unmasking(e, f, d).mask = [e.mask EXCEPT ![f] = @ \ {d}]
         /\ Unmasking(e, f, d).set = e.set /\ Unmasking(e, f, d).files = e.files
<1> PICK b : b = Unmasking(e, f, d)
  OBVIOUS
<1>0. Fields(e)
  BY WholeType
<1>1. /\ b.mask = [e.mask EXCEPT ![f] = @ \ {d}] /\ b.set = e.set
      /\ b.files = e.files /\ b.id = e.id /\ b.x = e.x /\ b.fdcount = e.fdcount
      /\ Whole(b)
  BY DEF SelectType, Whole, Unmasking
<1>2. b.mask \in [Fd -> SUBSET Dir]
  BY <1>0, <1>1 DEF Fields
<1>3. Fields(b)
  BY <1>0, <1>1, <1>2 DEF Fields
<1>4. Filed(b)
  BY <1>1 DEF Filed
<1> QED BY <1>1, <1>3, <1>4, WholeType

\* select_del_read and select_del_write, for a direction that is registered.
LEMMA SelectDelProperties ==
  ASSUME NEW e \in SelectType, TableOK(e), NEW f \in Fd, NEW d \in Dir, d \in e.mask[f]
  PROVE  /\ SelectDel(e, f, d) \in SelectType
         /\ TableOK(SelectDel(e, f, d))
         /\ SelectDel(e, f, d).mask = [e.mask EXCEPT ![f] = @ \ {d}]
         /\ ToSet(SelectDel(e, f, d).files) \subseteq ToSet(e.files)
         /\ f \in ToSet(SelectDel(e, f, d).files) <=> e.mask[f] # {d}
<1>b. PICK b : b = Clearing(e, f, d)
  OBVIOUS
<1>u. PICK u : u = IF f \in e.set[Other(d)] THEN b ELSE Unlist(b, f)
  OBVIOUS
<1>c. PICK c : c = Unmasking(u, f, d)
  OBVIOUS
<1>0. /\ Filed(e) /\ ToSet(e.files) = e.set["R"] \cup e.set["W"] /\ Fields(e)
      /\ \A g \in Fd : \A a \in Dir : a \in e.mask[g] <=> g \in e.set[a]
  BY WholeType DEF TableOK, Filed
<1>1. SelectDel(e, f, d) = c
  BY <1>b, <1>u, <1>c DEF SelectDel, Clearing, Unmasking
<1>2. /\ b \in SelectType /\ Filed(b) /\ b.set = [e.set EXCEPT ![d] = @ \ {f}]
      /\ b.mask = e.mask /\ b.files = e.files
  BY <1>0, <1>b, ClearingProperties
<1>3. f \in ToSet(b.files)
  BY <1>0, <1>2 DEF Dir
<1>4. /\ u \in SelectType /\ Filed(u) /\ u.set = b.set /\ u.mask = e.mask
      /\ ToSet(u.files) = ToSet(e.files) \ (IF f \in e.set[Other(d)] THEN {} ELSE {f})
  BY <1>2, <1>3, <1>u, UnlistProperties
<1>5. /\ c \in SelectType /\ Filed(c) /\ c.set = b.set /\ c.files = u.files
      /\ c.mask = [e.mask EXCEPT ![f] = @ \ {d}]
  BY <1>4, <1>c, UnmaskingProperties
<1>6. ToSet(c.files) = c.set["R"] \cup c.set["W"]
  <2>1. CASE d = "R"
    BY <2>1, <1>0, <1>2, <1>4, <1>5 DEF Dir, Other, Fields
  <2>2. CASE d = "W"
    BY <2>2, <1>0, <1>2, <1>4, <1>5 DEF Dir, Other, Fields
  <2> QED BY <2>1, <2>2 DEF Dir
<1>7. \A g \in Fd : \A a \in Dir : a \in c.mask[g] <=> g \in c.set[a]
  <2>1. e.mask \in [Fd -> SUBSET Dir] /\ e.set \in [Dir -> SUBSET Fd]
    BY <1>0 DEF Fields
  <2>2. \A g \in Fd : \A a \in Dir :
          a \in c.mask[g] <=> a \in e.mask[g] /\ ~(g = f /\ a = d)
    BY <2>1, <1>5
  <2>3. \A g \in Fd : \A a \in Dir :
          g \in c.set[a] <=> g \in e.set[a] /\ ~(g = f /\ a = d)
    BY <2>1, <1>2, <1>4, <1>5
  <2> QED BY <2>2, <2>3, <1>0
<1>8. TableOK(c)
  BY <1>5, <1>6, <1>7 DEF TableOK, Filed
<1>9. f \in ToSet(c.files) <=> e.mask[f] # {d}
  BY <1>0, <1>4, <1>5, <1>3, <1>2 DEF Dir, Other, Fields
<1> QED BY <1>1, <1>4, <1>5, <1>8, <1>9

\* A listed descriptor is one with a direction registered.
LEMMA ListedIsMasked ==
  ASSUME NEW e \in SelectType, TableOK(e), NEW f \in Fd
  PROVE  f \in ToSet(e.files) <=> e.mask[f] # {}
<1>1. Fields(e)
  BY WholeType
<1> QED BY <1>1 DEF TableOK, Fields, Dir

\* No descriptor is listed twice.
LEMMA ListedOnce ==
  ASSUME NEW e \in SelectType, TableOK(e)
  PROVE  Distinct(e.files)
<1>1. Fields(e)
  BY WholeType
<1> SUFFICES ASSUME NEW i \in DOMAIN e.files, NEW j \in DOMAIN e.files,
                    e.files[i] = e.files[j]
             PROVE  i = j
  BY DEF Distinct
<1>2. e.id[e.files[i]] = i - 1 /\ e.id[e.files[j]] = j - 1
  BY DEF TableOK
<1>3. i \in Int /\ j \in Int
  BY <1>1 DEF Fields
<1> QED BY <1>2, <1>3

\* A direction is removed if it is to be.
LEMMA RemovedIf ==
  ASSUME NEW e \in SelectType, TableOK(e), NEW f \in Fd, NEW d \in Dir,
         NEW c \in BOOLEAN, c => d \in e.mask[f],
         NEW b, b = IF c THEN SelectDel(e, f, d) ELSE e
  PROVE  /\ b \in SelectType /\ TableOK(b)
         /\ \A g \in Fd \ {f} : b.mask[g] = e.mask[g]
         /\ b.mask[f] = e.mask[f] \ (IF c THEN {d} ELSE {})
         /\ ToSet(b.files) \subseteq ToSet(e.files)
<1>1. Fields(e)
  BY WholeType
<1>2. CASE c
  <2>1. b = SelectDel(e, f, d) /\ d \in e.mask[f]
    BY <1>2
  <2>2. /\ b \in SelectType /\ TableOK(b) /\ b.mask = [e.mask EXCEPT ![f] = @ \ {d}]
        /\ ToSet(b.files) \subseteq ToSet(e.files)
    BY <2>1, SelectDelProperties
  <2> QED BY <2>2, <1>1, <1>2 DEF Fields
<1>3. CASE ~c
  BY <1>3
<1> QED BY <1>2, <1>3

\* A direction is added if it is to be.
LEMMA AddedIf ==
  ASSUME NEW e \in SelectType, TableOK(e), NEW f \in Fd, NEW d \in Dir,
         NEW c \in BOOLEAN, NEW b, b = IF c THEN SelectAdd(e, f, d) ELSE e
  PROVE  /\ b \in SelectType /\ TableOK(b)
         /\ \A g \in Fd \ {f} : b.mask[g] = e.mask[g]
         /\ b.mask[f] = e.mask[f] \cup (IF c THEN {d} ELSE {})
         /\ ToSet(b.files) \subseteq ToSet(e.files) \cup {f}
<1>1. Fields(e)
  BY WholeType
<1>2. CASE c
  <2>1. b = SelectAdd(e, f, d)
    BY <1>2
  <2>2. /\ b \in SelectType /\ TableOK(b) /\ b.mask = [e.mask EXCEPT ![f] = @ \cup {d}]
        /\ ToSet(b.files) = ToSet(e.files) \cup {f}
    BY <2>1, SelectAddProperties
  <2> QED BY <2>2, <1>1, <1>2 DEF Fields
<1>3. CASE ~c
  BY <1>3
<1> QED BY <1>2, <1>3

-----------------------------------------------------------------------------
(* What is registered, what is pending and what is called back.            *)

\* The first half of InterestIsPending, for the mask, the pending changes and the
\* callbacks of one descriptor.
Agree(m, o, p) ==
  \A d \in Dir :
    /\ d \in p <=> \/ d \in m /\ <<"del", d>> \notin o
                   \/ <<"add", d>> \in o
    /\ <<"add", d>> \in o => d \notin m
    /\ <<"del", d>> \in o => d \in m

\* event_add_read: the direction will be called back.
LEMMA AddAgrees ==
  ASSUME NEW m, NEW o, NEW p, Agree(m, o, p), NEW d \in Dir
  PROVE  Agree(m, (o \ {<<"del", d>>}) \cup (IF d \in m THEN {} ELSE {<<"add", d>>}), p \cup {d})
  BY DEF Agree

\* event_del_read: it will not.
LEMMA DelAgrees ==
  ASSUME NEW m, NEW o, NEW p, Agree(m, o, p), NEW d \in Dir
  PROVE  Agree(m, (o \ {<<"add", d>>}) \cup (IF d \in m THEN {<<"del", d>>} ELSE {}), p \ {d})
  BY DEF Agree

\* read_callback and write_callback: neither will be any direction called back.
LEMMA AfterAgrees ==
  ASSUME NEW m, NEW o, NEW p, Agree(m, o, p), NEW D \in SUBSET Dir
  PROVE  Agree(m, (o \ {<<"add", d>> : d \in D}) \cup {<<"del", d>> : d \in D \cap m}, p \ D)
  BY DEF Agree

\* event_prepare leaves registered what is called back.
LEMMA AppliedProperties ==
  ASSUME es \in SelectType, TableOK(es), NEW f \in Fd, proc[f] \subseteq Dir,
         Agree(es.mask[f], oper[f], proc[f])
  PROVE  /\ Applied(f) \in SelectType /\ TableOK(Applied(f))
         /\ \A g \in Fd \ {f} : Applied(f).mask[g] = es.mask[g]
         /\ Applied(f).mask[f] = proc[f]
         /\ ToSet(Applied(f).files) \subseteq ToSet(es.files) \cup {f}
<1> DEFINE dr == <<"del", "R">> \in oper[f]
           dw == <<"del", "W">> \in oper[f]
           ar == <<"add", "R">> \in oper[f]
           aw == <<"add", "W">> \in oper[f]
<1>e1. PICK e1 : e1 = IF dr THEN SelectDel(es, f, "R") ELSE es
  OBVIOUS
<1>e2. PICK e2 : e2 = IF dw THEN SelectDel(e1, f, "W") ELSE e1
  OBVIOUS
<1>e3. PICK e3 : e3 = IF ar THEN SelectAdd(e2, f, "R") ELSE e2
  OBVIOUS
<1>e4. PICK e4 : e4 = IF aw THEN SelectAdd(e3, f, "W") ELSE e3
  OBVIOUS
<1>0. Applied(f) = e4
  BY <1>e1, <1>e2, <1>e3, <1>e4 DEF Applied
<1>1. /\ dr \in BOOLEAN /\ dw \in BOOLEAN /\ ar \in BOOLEAN /\ aw \in BOOLEAN
      /\ "R" \in Dir /\ "W" \in Dir
      /\ dr => "R" \in es.mask[f]
      /\ dw => "W" \in es.mask[f]
  BY DEF Agree, Dir
<1>2. es.mask[f] \subseteq Dir
  BY WholeType DEF Fields
<1>3. proc[f] = ((es.mask[f] \ (IF dr THEN {"R"} ELSE {})) \ (IF dw THEN {"W"} ELSE {}))
                \cup (IF ar THEN {"R"} ELSE {}) \cup (IF aw THEN {"W"} ELSE {})
  BY <1>2 DEF Agree, Dir
<1> HIDE DEF dr, dw, ar, aw
<1>4. /\ e1 \in SelectType /\ TableOK(e1)
      /\ \A g \in Fd \ {f} : e1.mask[g] = es.mask[g]
      /\ e1.mask[f] = es.mask[f] \ (IF dr THEN {"R"} ELSE {})
      /\ ToSet(e1.files) \subseteq ToSet(es.files)
  BY <1>1, <1>e1, RemovedIf
<1>5. dw => "W" \in e1.mask[f]
  BY <1>1, <1>4
<1>6. /\ e2 \in SelectType /\ TableOK(e2)
      /\ \A g \in Fd \ {f} : e2.mask[g] = e1.mask[g]
      /\ e2.mask[f] = e1.mask[f] \ (IF dw THEN {"W"} ELSE {})
      /\ ToSet(e2.files) \subseteq ToSet(e1.files)
  <2>1. e1 \in SelectType /\ TableOK(e1) /\ "W" \in Dir /\ dw \in BOOLEAN
    BY <1>1, <1>4
  <2> QED BY <2>1, <1>5, <1>e2, RemovedIf
<1>7. /\ e3 \in SelectType /\ TableOK(e3)
      /\ \A g \in Fd \ {f} : e3.mask[g] = e2.mask[g]
      /\ e3.mask[f] = e2.mask[f] \cup (IF ar THEN {"R"} ELSE {})
      /\ ToSet(e3.files) \subseteq ToSet(e2.files) \cup {f}
  <2>1. e2 \in SelectType /\ TableOK(e2) /\ ar \in BOOLEAN /\ "R" \in Dir
    BY <1>1, <1>6
  <2> QED BY <2>1, <1>e3, AddedIf
<1>8. /\ e4 \in SelectType /\ TableOK(e4)
      /\ \A g \in Fd \ {f} : e4.mask[g] = e3.mask[g]
      /\ e4.mask[f] = e3.mask[f] \cup (IF aw THEN {"W"} ELSE {})
      /\ ToSet(e4.files) \subseteq ToSet(e3.files) \cup {f}
  <2>1. e3 \in SelectType /\ TableOK(e3) /\ aw \in BOOLEAN /\ "W" \in Dir
    BY <1>1, <1>7
  <2> QED BY <2>1, <1>e4, AddedIf
<1> QED BY <1>0, <1>3, <1>4, <1>6, <1>7, <1>8

\* What event_close leaves of EVENT_SELECT.
Dropped(f) ==
  LET e1 == IF "R" \in es.mask[f] THEN SelectDel(es, f, "R") ELSE es
  IN  IF "W" \in es.mask[f] THEN SelectDel(e1, f, "W") ELSE e1

\* A closed descriptor is registered nowhere.
LEMMA DroppedProperties ==
  ASSUME es \in SelectType, TableOK(es), NEW f \in Fd
  PROVE  /\ Dropped(f) \in SelectType /\ TableOK(Dropped(f))
         /\ \A g \in Fd \ {f} : Dropped(f).mask[g] = es.mask[g]
         /\ Dropped(f).mask[f] = {}
         /\ ToSet(Dropped(f).files) \subseteq ToSet(es.files) \ {f}
<1> DEFINE r == "R" \in es.mask[f]
           w == "W" \in es.mask[f]
<1> PICK e1 : e1 = IF r THEN SelectDel(es, f, "R") ELSE es
  OBVIOUS
<1> PICK e2 : e2 = IF w THEN SelectDel(e1, f, "W") ELSE e1
  OBVIOUS
<1>0. Dropped(f) = e2
  BY DEF Dropped
<1>1. r \in BOOLEAN /\ w \in BOOLEAN /\ "R" \in Dir /\ "W" \in Dir
  BY DEF Dir
<1>2. es.mask[f] \subseteq Dir
  BY WholeType DEF Fields
<1>3. (es.mask[f] \ (IF r THEN {"R"} ELSE {})) \ (IF w THEN {"W"} ELSE {}) = {}
  BY <1>2 DEF Dir
<1>4. (r => "R" \in es.mask[f]) /\ (w => "W" \in es.mask[f])
  OBVIOUS
<1> HIDE DEF r, w
<1>5. /\ e1 \in SelectType /\ TableOK(e1)
      /\ \A g \in Fd \ {f} : e1.mask[g] = es.mask[g]
      /\ e1.mask[f] = es.mask[f] \ (IF r THEN {"R"} ELSE {})
      /\ ToSet(e1.files) \subseteq ToSet(es.files)
  BY <1>1, <1>4, RemovedIf
<1>6. w => "W" \in e1.mask[f]
  BY <1>4, <1>5
<1>7. /\ e2 \in SelectType /\ TableOK(e2)
      /\ \A g \in Fd \ {f} : e2.mask[g] = e1.mask[g]
      /\ e2.mask[f] = e1.mask[f] \ (IF w THEN {"W"} ELSE {})
      /\ ToSet(e2.files) \subseteq ToSet(e1.files)
  BY <1>1, <1>5, <1>6, RemovedIf
<1>8. f \notin ToSet(e2.files)
  BY <1>3, <1>5, <1>7, ListedIsMasked
<1> QED BY <1>0, <1>3, <1>5, <1>7, <1>8

-----------------------------------------------------------------------------
(* The inductive invariant.                                                *)

\* The types of the variables but level.
Types ==
  /\ open \in SUBSET Fd
  /\ oper \in [Fd -> SUBSET Change]
  /\ proc \in [Fd -> SUBSET Dir]
  /\ events \in Seq(Fd)
  /\ es \in SelectType
  /\ phase \in {"idle", "prepare", "dispatch"}
  /\ todo \in Seq(Fd)

\* While the answer of select is handled, each descriptor still to be looked at
\* is listed once and what the answer says of it holds.
Answer ==
  /\ phase # "dispatch" => todo = <<>>
  /\ Distinct(todo)
  /\ phase = "dispatch" => \A c \in Dir \cup {"X"} : \A f \in got[c] : <<f, c>> \in level

\* Pending changes agree with callbacks and registrations.
Agreed == \A f \in Fd : Agree(es.mask[f], oper[f], proc[f])

\* A descriptor with pending changes is queued, once.
Queued == Distinct(events) /\ \A f \in Fd : oper[f] # {} => f \in ToSet(events)

\* What is still to be looked at is as it was registered.
Fresh == phase = "dispatch" => \A f \in ToSet(todo) : proc[f] = es.mask[f]

\* The inductive invariant.
Inv == Types /\ Table /\ Agreed /\ Queued /\ Fresh /\ NoDangling /\ Answer

\* Its parts are those of InterestIsPending.
LEMMA InterestIsPendingParts == Agreed /\ Queued /\ Fresh <=> InterestIsPending
  BY DEF Agreed, Agree, Queued, Fresh, InterestIsPending

-----------------------------------------------------------------------------
(* Every step preserves it.                                                *)

\* A descriptor is queued behind the others unless it is queued already.
LEMMA QueueProperties ==
  ASSUME Types, Distinct(events), NEW f \in Fd
  PROVE  /\ Queue(f) \in Seq(Fd) /\ Distinct(Queue(f))
         /\ ToSet(Queue(f)) = ToSet(events) \cup {f}
<1>0. events \in Seq(Fd)
  BY DEF Types
<1>1. CASE f \in ToSet(events)
  BY <1>0, <1>1 DEF Queue
<1>2. CASE f \notin ToSet(events)
  <2>1. Queue(f) = RingPrepend(events, f)
    BY <1>2 DEF Queue
  <2>2. RingPrepend(events, f) \in Seq(Fd)
    BY <1>0, RingPrependProperties
  <2>3. ToSet(RingPrepend(events, f)) = ToSet(events) \cup {f}
    BY <1>0, RingPrependProperties
  <2>4. Distinct(RingPrepend(events, f))
    BY <1>0, <1>2, RingPrependProperties
  <2> QED BY <2>1, <2>2, <2>3, <2>4
<1> QED BY <1>1, <1>2

\* The first state.
LEMMA InitInv == Init => Inv
<1> SUFFICES ASSUME Init PROVE Inv
  OBVIOUS
<1>1. Fields(es) /\ Whole(es)
  BY DEF Init, NoRegistrations, Fields, Whole
<1>2. Types
  BY <1>1, WholeType DEF Init, Types
<1>3. Table
  BY RingEmptyProperties DEF Init, NoRegistrations, Table, TableOK, Dir
<1>4. Agreed /\ Fresh
  BY DEF Init, NoRegistrations, Agreed, Agree, Fresh
<1>5. Queued /\ NoDangling /\ Answer
  BY RingEmptyProperties DEF Init, NoRegistrations, Queued, NoDangling, Answer
<1> QED BY <1>2, <1>3, <1>4, <1>5 DEF Inv

\* file_event_alloc.
LEMMA OpenInv == ASSUME Inv, NEW f \in Fd, Open(f) PROVE Inv'
  BY DEF Inv, Open, Types, Table, Agreed, Queued, Fresh, NoDangling, Answer

\* event_add_read and event_add_write.
LEMMA AddInterestInv == ASSUME Inv, NEW f \in Fd, NEW d \in Dir, AddInterest(f, d) PROVE Inv'
<1>0. /\ f \in open /\ phase = "idle" /\ phase' = "idle" /\ todo = <<>>
      /\ UNCHANGED <<open, es, got, todo, level>>
      /\ Types /\ Distinct(events)
  BY DEF AddInterest, Inv, Answer, Queued
<1>1. CASE d \notin es.mask[f] /\ typ[f] = "NONE" /\ f \in NoSock
  <2>1. oper' = oper /\ UNCHANGED <<proc, events>>
    <3>1. /\ oper' = [oper EXCEPT ![f] = oper[f] \ {<<"del", d>>}]
          /\ UNCHANGED <<proc, events>>
      BY <1>1 DEF AddInterest
    <3>2. oper[f] \ {<<"del", d>>} = oper[f]
      BY <1>1 DEF Inv, Agreed, Agree
    <3> QED BY <3>1, <3>2 DEF Inv, Types
  <2> QED BY <1>0, <2>1 DEF Inv, Types, Table, Agreed, Queued, Fresh, NoDangling, Answer
<1>2. CASE ~(d \notin es.mask[f] /\ typ[f] = "NONE" /\ f \in NoSock)
  <2>1. /\ oper' = [oper EXCEPT ![f] = OperAdd(f, d)]
        /\ events' = IF d \in es.mask[f] THEN events ELSE Queue(f)
        /\ proc' = [proc EXCEPT ![f] = @ \cup {d}]
    BY <1>2 DEF AddInterest
  <2>2. OperAdd(f, d) \subseteq Change
    BY DEF OperAdd, Inv, Types, Change
  <2>3. /\ oper'[f] = OperAdd(f, d) /\ proc'[f] = proc[f] \cup {d}
        /\ \A g \in Fd \ {f} : oper'[g] = oper[g] /\ proc'[g] = proc[g]
    BY <2>1 DEF Inv, Types
  <2>4. /\ events' \in Seq(Fd) /\ Distinct(events')
        /\ ToSet(events') = ToSet(events) \cup (IF d \in es.mask[f] THEN {} ELSE {f})
    BY <2>1, QueueProperties DEF Inv, Types, Queued
  <2>5. Types'
    BY <1>0, <2>1, <2>2, <2>4 DEF Inv, Types
  <2>6. Agreed'
    <3>1. Agree(es.mask[f], OperAdd(f, d), proc[f] \cup {d})
      BY AddAgrees DEF Inv, Agreed, OperAdd
    <3> QED BY <1>0, <2>3, <3>1 DEF Inv, Agreed
  <2>7. Queued'
    <3>1. d \in es.mask[f] => OperAdd(f, d) \subseteq oper[f]
      BY DEF OperAdd
    <3> QED BY <2>3, <2>4, <3>1 DEF Inv, Queued
  <2>8. NoDangling'
    BY <1>0, <2>3, <2>4 DEF Inv, NoDangling
  <2> QED BY <1>0, <2>5, <2>6, <2>7, <2>8 DEF Inv, Table, Fresh, Answer
<1> QED BY <1>1, <1>2

\* event_del_read and event_del_write.
LEMMA DelInterestInv == ASSUME Inv, NEW f \in Fd, NEW d \in Dir, DelInterest(f, d) PROVE Inv'
<1>0. /\ f \in open /\ phase = "idle" /\ phase' = "idle" /\ todo = <<>>
      /\ UNCHANGED <<open, es, got, todo, level>>
      /\ oper' = [oper EXCEPT ![f] = OperDel(f, d)]
      /\ events' = IF d \in es.mask[f] THEN Queue(f) ELSE events
      /\ proc' = [proc EXCEPT ![f] = @ \ {d}]
  BY DEF DelInterest, Inv, Answer
<1>2. OperDel(f, d) \subseteq Change
  BY DEF OperDel, Inv, Types, Change
<1>3. /\ oper'[f] = OperDel(f, d) /\ proc'[f] = proc[f] \ {d}
      /\ \A g \in Fd \ {f} : oper'[g] = oper[g] /\ proc'[g] = proc[g]
  BY <1>0 DEF Inv, Types
<1>4. /\ events' \in Seq(Fd) /\ Distinct(events')
      /\ ToSet(events') = ToSet(events) \cup (IF d \in es.mask[f] THEN {f} ELSE {})
  BY <1>0, QueueProperties DEF Inv, Types, Queued
<1>5. Types'
  BY <1>0, <1>2, <1>4 DEF Inv, Types
<1>6. Agreed'
  <2>1. Agree(es.mask[f], OperDel(f, d), proc[f] \ {d})
    BY DelAgrees DEF Inv, Agreed, OperDel
  <2> QED BY <1>0, <1>3, <2>1 DEF Inv, Agreed
<1>7. Queued'
  <2>1. d \notin es.mask[f] => OperDel(f, d) \subseteq oper[f]
    BY DEF OperDel
  <2> QED BY <1>3, <1>4, <2>1 DEF Inv, Queued
<1>8. NoDangling'
  BY <1>0, <1>3, <1>4 DEF Inv, NoDangling
<1> QED BY <1>0, <1>5, <1>6, <1>7, <1>8 DEF Inv, Table, Fresh, Answer

\* event_close and file_event_free.
LEMMA CloseInv == ASSUME Inv, NEW f \in Fd, Close(f) PROVE Inv'
<1>0. /\ f \in open /\ phase = "idle" /\ phase' = "idle" /\ todo = <<>> /\ todo' = <<>>
      /\ es' = Dropped(f) /\ events' = RingDetach(events, f)
      /\ open' = open \ {f}
      /\ oper' = [oper EXCEPT ![f] = {}] /\ proc' = [proc EXCEPT ![f] = {}]
  BY DEF Close, Dropped, Inv, Answer
<1>1. /\ es' \in SelectType /\ TableOK(es')
      /\ \A g \in Fd \ {f} : es'.mask[g] = es.mask[g]
      /\ es'.mask[f] = {}
      /\ ToSet(es'.files) \subseteq ToSet(es.files) \ {f}
  BY <1>0, DroppedProperties DEF Inv, Types, Table
<1>2. events' \in Seq(Fd) /\ Distinct(events') /\ ToSet(events') = ToSet(events) \ {f}
  BY <1>0, RingDetachProperties DEF Inv, Types, Queued
<1>3. /\ oper'[f] = {} /\ proc'[f] = {}
      /\ \A g \in Fd \ {f} : oper'[g] = oper[g] /\ proc'[g] = proc[g]
  BY <1>0 DEF Inv, Types
<1>4. Types'
  BY <1>0, <1>1, <1>2 DEF Inv, Types
<1>5. Agreed'
  BY <1>1, <1>3 DEF Inv, Agreed, Agree
<1>6. Queued'
  BY <1>2, <1>3 DEF Inv, Queued
<1>7. NoDangling'
  BY <1>0, <1>1, <1>2, <1>3, RingEmptyProperties DEF Inv, NoDangling
<1>8. Answer' /\ Fresh' /\ Table'
  BY <1>0, <1>1, RingEmptyProperties DEF Answer, Fresh, Table
<1> QED BY <1>4, <1>5, <1>6, <1>7, <1>8 DEF Inv

\* event_process begins, or has nothing left to look at; a socket changes.
LEMMA QuietInv ==
  ASSUME Inv, \/ Process \/ Done \/ UNCHANGED vars
              \/ \E f \in Fd : \E c \in Dir \cup {"X"} : Arrive(f, c)
  PROVE  Inv'
<1>1. CASE Process
  BY <1>1 DEF Process, fevars, Inv, Types, Table, Agreed, Queued, Fresh, NoDangling, Answer
<1>2. CASE Done
  BY <1>2 DEF Done, fevars, Inv, Types, Table, Agreed, Queued, Fresh, NoDangling, Answer
<1>3. CASE UNCHANGED vars
  BY <1>3 DEF vars, Inv, Types, Table, Agreed, Queued, Fresh, NoDangling, Answer
<1>4. ASSUME NEW f \in Fd, NEW c \in Dir \cup {"X"}, Arrive(f, c) PROVE Inv'
  <2>1. UNCHANGED <<open, oper, proc, events, es, phase, got, todo>> /\ level \subseteq level'
    BY <1>4 DEF Arrive, fevars
  <2>2. Answer'
    BY <2>1 DEF Inv, Answer
  <2> QED BY <2>1, <2>2 DEF Inv, Types, Table, Agreed, Queued, Fresh, NoDangling
<1> QED BY <1>1, <1>2, <1>3, <1>4

\* event_prepare.
LEMMA PrepareInv == ASSUME Inv, Prepare PROVE Inv'
<1> PICK f \in Fd : f = Head(events)
  BY RingPopProperties DEF Prepare, Inv, Types
<1>0. /\ phase' = phase /\ phase = "prepare" /\ events # <<>> /\ todo' = todo
      /\ es' = Applied(f) /\ oper' = [oper EXCEPT ![f] = {}] /\ events' = Tail(events)
      /\ proc' = proc /\ open' = open
  BY DEF Prepare
<1>1. /\ events' \in Seq(Fd) /\ Distinct(events') /\ f \notin ToSet(events')
      /\ ToSet(events) = ToSet(events') \cup {f}
  BY <1>0, RingPopProperties DEF Inv, Types, Queued
<1>2. proc[f] \subseteq Dir /\ Agree(es.mask[f], oper[f], proc[f])
  BY DEF Inv, Types, Agreed
<1>3. /\ es' \in SelectType /\ TableOK(es')
      /\ \A g \in Fd \ {f} : es'.mask[g] = es.mask[g]
      /\ es'.mask[f] = proc[f]
      /\ ToSet(es'.files) \subseteq ToSet(es.files) \cup {f}
  BY <1>0, <1>2, AppliedProperties DEF Inv, Types, Table
<1>4. oper'[f] = {} /\ \A g \in Fd \ {f} : oper'[g] = oper[g]
  BY <1>0 DEF Inv, Types
<1>5. Types'
  BY <1>0, <1>1, <1>3 DEF Inv, Types
<1>6. Agreed'
  <2>1. Agree(es'.mask[f], oper'[f], proc'[f])
    BY <1>0, <1>3, <1>4 DEF Agree
  <2>2. ASSUME NEW g \in Fd \ {f} PROVE Agree(es'.mask[g], oper'[g], proc'[g])
    BY <1>0, <1>3, <1>4 DEF Inv, Agreed
  <2> QED BY <2>1, <2>2 DEF Agreed
<1>7. Queued'
  BY <1>1, <1>4 DEF Inv, Queued
<1>8. NoDangling'
  BY <1>0, <1>1, <1>3, <1>4 DEF Inv, NoDangling
<1>9. Table' /\ Fresh' /\ Answer'
  BY <1>0, <1>3 DEF Inv, Table, Fresh, Answer
<1> QED BY <1>5, <1>6, <1>7, <1>8, <1>9 DEF Inv

\* select_event_wait up to its loop.
LEMMA WaitInv == ASSUME Inv, Wait PROVE Inv'
<1>0. /\ phase = "prepare" /\ events = <<>>
      /\ UNCHANGED <<open, oper, proc, events, es, level>>
  BY DEF Wait, fevars
<1>1. CASE es.fdcount = 0
  <2>1. phase' = "idle" /\ UNCHANGED <<got, todo>>
    BY <1>1 DEF Wait
  <2> QED BY <1>0, <2>1 DEF Inv, Types, Table, Agreed, Queued, Fresh, NoDangling, Answer
<1>2. CASE es.fdcount # 0
  <2>1. /\ phase' = "dispatch" /\ todo' = es.files
        /\ got' = [R |-> {f \in es.set["R"] : <<f, "R">> \in level},
                   W |-> {f \in es.set["W"] : <<f, "W">> \in level},
                   X |-> {f \in es.x : <<f, "X">> \in level}]
    BY <1>2 DEF Wait
  <2>2. todo' \in Seq(Fd) /\ Distinct(todo')
    BY <2>1, ListedOnce, WholeType DEF Inv, Types, Table, Fields
  <2>3. Types' /\ Table' /\ Agreed' /\ Queued'
    BY <1>0, <2>1, <2>2 DEF Inv, Types, Table, Agreed, Queued
  <2>4. Fresh'
    <3>1. ASSUME NEW f \in Fd PROVE proc[f] = es.mask[f]
      <4>1. oper[f] = {}
        BY <1>0, RingEmptyProperties DEF Inv, Queued
      <4>2. es.mask[f] \subseteq Dir /\ proc[f] \subseteq Dir
        BY WholeType DEF Inv, Types, Fields
      <4> QED BY <4>1, <4>2 DEF Inv, Agreed, Agree
    <3>2. ToSet(todo') \subseteq Fd
      BY <2>2 DEF ToSet
    <3> QED BY <1>0, <3>1, <3>2 DEF Fresh
  <2>5. NoDangling'
    BY <1>0, <2>1 DEF Inv, NoDangling
  <2>6. Answer'
    BY <1>0, <2>1, <2>2 DEF Answer, Dir
  <2> QED BY <2>3, <2>4, <2>5, <2>6 DEF Inv
<1> QED BY <1>1, <1>2

\* The callbacks of one descriptor.
LEMMA DispatchInv == ASSUME Inv, Dispatch PROVE Inv'
<1> PICK f \in Fd : f = Head(todo)
  BY RingPopProperties DEF Dispatch, Inv, Types
<1> DEFINE C == Called(f)
<1>0. /\ phase' = phase /\ phase = "dispatch" /\ todo # <<>> /\ todo' = Tail(todo)
      /\ UNCHANGED <<open, es, got, level>>
      /\ oper' = [oper EXCEPT ![f] = OperAfter(f, C)]
      /\ events' = IF C \cap es.mask[f] = {} THEN events ELSE Queue(f)
      /\ proc' = [proc EXCEPT ![f] = @ \ C]
  BY DEF Dispatch
<1>1. C \subseteq proc[f] /\ C \subseteq Dir
  BY DEF Called, Inv, Types
<1> HIDE DEF C
<1>2. /\ todo' \in Seq(Fd) /\ Distinct(todo') /\ f \notin ToSet(todo')
      /\ ToSet(todo) = ToSet(todo') \cup {f}
  BY <1>0, RingPopProperties DEF Inv, Types, Answer
<1>3. OperAfter(f, C) \subseteq Change
  BY <1>1 DEF OperAfter, Inv, Types, Change
<1>4. /\ oper'[f] = OperAfter(f, C) /\ proc'[f] = proc[f] \ C
      /\ \A g \in Fd \ {f} : oper'[g] = oper[g] /\ proc'[g] = proc[g]
  BY <1>0 DEF Inv, Types
<1>5. /\ events' \in Seq(Fd) /\ Distinct(events')
      /\ ToSet(events') = ToSet(events) \cup (IF C \cap es.mask[f] = {} THEN {} ELSE {f})
  BY <1>0, QueueProperties DEF Inv, Types, Queued
<1>6. Types'
  BY <1>0, <1>1, <1>2, <1>3, <1>5 DEF Inv, Types
<1>7. Agreed'
  <2>1. Agree(es.mask[f], OperAfter(f, C), proc[f] \ C)
    BY <1>1, AfterAgrees DEF Inv, Agreed, OperAfter
  <2> QED BY <1>0, <1>4, <2>1 DEF Inv, Agreed
<1>8. Queued'
  <2>1. C \cap es.mask[f] = {} => OperAfter(f, C) \subseteq oper[f]
    BY DEF OperAfter
  <2> QED BY <1>4, <1>5, <2>1 DEF Inv, Queued
<1>9. Fresh'
  <2>1. ToSet(todo') \subseteq Fd
    BY <1>2 DEF ToSet
  <2> QED BY <1>0, <1>2, <1>4, <2>1 DEF Inv, Fresh
<1>10. NoDangling'
  BY <1>0, <1>2, <1>4, <1>5 DEF Inv, NoDangling
<1>11. Table' /\ Answer'
  BY <1>0, <1>2 DEF Inv, Table, Answer
<1> QED BY <1>6, <1>7, <1>8, <1>9, <1>10, <1>11 DEF Inv

\* The invariant holds in every state.
THEOREM Invariance == Spec => []Inv
<1>1. Inv /\ [Next]_vars => Inv'
  <2> SUFFICES ASSUME Inv, [Next]_vars PROVE Inv'
    OBVIOUS
  <2>1. CASE \E f \in Fd : Open(f) \/ Close(f)
    BY <2>1, OpenInv, CloseInv
  <2>2. CASE \E f \in Fd : \E d \in Dir : AddInterest(f, d) \/ DelInterest(f, d)
    BY <2>2, AddInterestInv, DelInterestInv
  <2>3. CASE \E f \in Fd : \E c \in Dir \cup {"X"} : Arrive(f, c)
    BY <2>3, QuietInv
  <2>4. CASE Loop
    BY <2>4, PrepareInv, WaitInv, DispatchInv, QuietInv DEF Loop
  <2>5. CASE UNCHANGED vars
    BY <2>5, QuietInv
  <2> QED BY <2>1, <2>2, <2>3, <2>4, <2>5 DEF Next
<1> QED BY InitInv, <1>1, PTL DEF Spec

-----------------------------------------------------------------------------
(* What follows.                                                           *)

\* The table of registered descriptors, the ids, the three descriptor sets, the
\* masks and the count agree in every state, however descriptors come and go.
THEOREM TableIsSound == Spec => []Table
<1>1. Inv => Table
  BY DEF Inv
<1> QED BY Invariance, <1>1, PTL

\* No wakeup is lost or spurious between the calls that ask for one and the
\* registrations: what is pending is queued once and fits what is registered.
THEOREM NoInterestIsLost == Spec => []InterestIsPending
<1>1. Inv => InterestIsPending
  BY InterestIsPendingParts DEF Inv
<1> QED BY Invariance, <1>1, PTL

\* The table, the queue and the round of callbacks hold no FILE_EVENT that was
\* freed.
THEOREM NothingDangles == Spec => []NoDangling
<1>1. Inv => NoDangling
  BY DEF Inv
<1> QED BY Invariance, <1>1, PTL

\* Every step is one of the poller, or none of its steps.
LEMMA StepRefines == ASSUME Inv, [Next]_vars PROVE [Poll!Next]_(Poll!pvars)
<1>1. ASSUME UNCHANGED <<proc, level>>
      PROVE  [Poll!Next]_(Poll!pvars)
  BY <1>1 DEF Poll!Next, Poll!pvars
<1>2. ASSUME NEW f \in Fd, NEW d \in Dir, AddInterest(f, d)
      PROVE  [Poll!Next]_(Poll!pvars)
  <2>1. phase = "idle" /\ phase' = "idle" /\ level' = level
    BY <1>2 DEF AddInterest
  <2>2. proc' = proc \/ proc' = [proc EXCEPT ![f] = @ \cup {d}]
    BY <1>2 DEF AddInterest
  <2>3. CASE proc' = proc
    BY <2>1, <2>3, <1>1
  <2>4. CASE proc' = [proc EXCEPT ![f] = @ \cup {d}]
    BY <2>1, <2>4 DEF Poll!Next, Poll!Arm
  <2> QED BY <2>2, <2>3, <2>4
<1>3. ASSUME NEW f \in Fd, NEW d \in Dir, DelInterest(f, d)
      PROVE  [Poll!Next]_(Poll!pvars)
  BY <1>3 DEF DelInterest, Poll!Next, Poll!Disarm
<1>4. ASSUME NEW f \in Fd, Close(f)
      PROVE  [Poll!Next]_(Poll!pvars)
  BY <1>4 DEF Close, Poll!Next, Poll!Close
<1>5. ASSUME NEW f \in Fd, NEW c \in Dir \cup {"X"}, Arrive(f, c)
      PROVE  [Poll!Next]_(Poll!pvars)
  BY <1>5 DEF Arrive, fevars, Poll!Next, Poll!Arrive
<1>6. ASSUME Dispatch
      PROVE  [Poll!Next]_(Poll!pvars)
  <2> PICK f \in Fd : f = Head(todo)
    BY <1>6, RingPopProperties DEF Dispatch, Inv, Types
  <2>1. /\ phase = "dispatch" /\ phase' = "dispatch" /\ level' = level
        /\ proc' = [proc EXCEPT ![f] = @ \ Called(f)]
    BY <1>6 DEF Dispatch
  <2>2. Called(f) \subseteq proc[f] /\ Called(f) \in SUBSET Dir
    BY DEF Called, Inv, Types
  <2>3. \A d \in Called(f) : <<f, d>> \in level \/ <<f, "X">> \in level
    BY <2>1, <2>2 DEF Called, Inv, Answer
  <2>4. Poll!Deliver(f, Called(f))
    BY <2>1, <2>2, <2>3 DEF Poll!Deliver
  <2> QED BY <2>1, <2>2, <2>4 DEF Poll!Next
<1>7. ASSUME Loop
      PROVE  [Poll!Next]_(Poll!pvars)
  <2>1. CASE Process \/ Prepare \/ Wait \/ Done
    BY <2>1, <1>1 DEF Process, Prepare, Wait, Done, fevars
  <2> QED BY <1>6, <1>7, <2>1 DEF Loop
<1>8. ASSUME NEW f \in Fd, Open(f)
      PROVE  [Poll!Next]_(Poll!pvars)
  BY <1>8, <1>1 DEF Open
<1>9. CASE UNCHANGED vars
  BY <1>9, <1>1 DEF vars
<1> QED BY <1>2, <1>3, <1>4, <1>5, <1>7, <1>8, <1>9 DEF Next

\* The event layer implements the poller: every callback answers one request,
\* while the condition holds or the socket failed, and none comes after close.
THEOREM ImplementsThePoller == Spec => ImplementsPoller
<1>1. Init => Poll!Init
  BY DEF Init, Poll!Init
<1> QED BY <1>1, Invariance, StepRefines, PTL DEF Spec, ImplementsPoller, Poll!Spec

=============================================================================
