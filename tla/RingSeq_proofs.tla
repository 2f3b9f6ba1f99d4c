--------------------------- MODULE RingSeq_proofs ---------------------------
(* What the ring operations do to the set of a ring's entries, and that    *)
(* they keep the entries distinct: all that the modules that use rings     *)
(* need to know of sequences.  The last part has nothing to do with rings:  *)
(* it is what the clock needs to know of numbers divided and rounded down.  *)
EXTENDS RingSeq, TLAPS

\* ring_init: the empty ring.
LEMMA RingEmptyProperties == ToSet(<<>>) = {} /\ Distinct(<<>>)
  BY DEF ToSet, Distinct

\* ring_prepend of an entry that is not linked in the ring.
LEMMA RingPrependProperties ==
  ASSUME NEW T, NEW r \in Seq(T), NEW e \in T
  PROVE  /\ RingPrepend(r, e) \in Seq(T)
         /\ RingPrepend(r, e) # <<>>
         /\ ToSet(RingPrepend(r, e)) = ToSet(r) \cup {e}
         /\ Distinct(r) /\ e \notin ToSet(r) => Distinct(RingPrepend(r, e))
  BY DEF RingPrepend, ToSet, Distinct

\* ring_append of an entry that is not linked in the ring.
LEMMA RingAppendProperties ==
  ASSUME NEW T, NEW r \in Seq(T), NEW e \in T
  PROVE  /\ RingAppend(r, e) \in Seq(T)
         /\ RingAppend(r, e) # <<>>
         /\ Head(RingAppend(r, e)) = e
         /\ Tail(RingAppend(r, e)) = r
         /\ ToSet(RingAppend(r, e)) = ToSet(r) \cup {e}
         /\ Distinct(r) /\ e \notin ToSet(r) => Distinct(RingAppend(r, e))
<1> DEFINE a == RingAppend(r, e)
<1>1. a \in Seq(T) /\ Len(a) = Len(r) + 1
  BY DEF RingAppend
<1>2. a[1] = e /\ \A i \in 1 .. Len(r) : a[i + 1] = r[i]
  BY DEF RingAppend
<1>3. \A i \in 2 .. Len(r) + 1 : i - 1 \in 1 .. Len(r) /\ a[i] = r[i - 1]
  BY <1>2
<1> HIDE DEF a
<1>4. a # <<>> /\ Head(a) = e
  BY <1>1, <1>2
<1>5. Tail(a) = r
  BY <1>1, <1>2
<1>6. ToSet(a) = ToSet(r) \cup {e}
  <2>1. ASSUME NEW x \in ToSet(a) PROVE x \in ToSet(r) \cup {e}
    BY <1>1, <1>2, <1>3 DEF ToSet
  <2>2. e \in ToSet(a)
    BY <1>1, <1>2 DEF ToSet
  <2>3. ASSUME NEW x \in ToSet(r) PROVE x \in ToSet(a)
    <3>1. PICK i \in 1 .. Len(r) : x = r[i]
      BY DEF ToSet
    <3>2. i + 1 \in DOMAIN a /\ x = a[i + 1]
      BY <1>1, <1>2, <3>1
    <3>3. QED
      BY <3>2 DEF ToSet
  <2>4. QED
    BY <2>1, <2>2, <2>3
<1>7. ASSUME Distinct(r), e \notin ToSet(r) PROVE Distinct(a)
  <2>1. SUFFICES ASSUME NEW i \in 1 .. Len(a), NEW j \in 1 .. Len(a), a[i] = a[j] PROVE i = j
    BY <1>1 DEF Distinct
  <2>2. ASSUME NEW k \in 1 .. Len(a), k # 1 PROVE a[k] # a[1]
    <3>1. k - 1 \in DOMAIN r /\ a[k] = r[k - 1]
      BY <1>1, <1>3, <2>2
    <3>2. a[k] \in ToSet(r)
      BY <3>1 DEF ToSet
    <3>3. QED
      BY <1>2, <1>7, <3>2
  <2>3. CASE i = 1 \/ j = 1
    BY <2>1, <2>2, <2>3
  <2>4. CASE i # 1 /\ j # 1
    BY <1>1, <1>3, <1>7, <2>1, <2>4 DEF Distinct
  <2>5. QED
    BY <2>3, <2>4
<1>8. QED
  BY <1>1, <1>4, <1>5, <1>6, <1>7 DEF a

\* ring_pop_head of a ring that is not empty.
LEMMA RingPopProperties ==
  ASSUME NEW T, NEW r \in Seq(T), r # <<>>
  PROVE  /\ Head(r) \in T
         /\ Tail(r) \in Seq(T)
         /\ ToSet(r) = ToSet(Tail(r)) \cup {Head(r)}
         /\ Distinct(r) => Distinct(Tail(r)) /\ Head(r) \notin ToSet(Tail(r))
<1>1. Head(r) \in T /\ Tail(r) \in Seq(T) /\ Head(r) = r[1] /\ Len(r) \in Nat \ {0}
  OBVIOUS
<1>2. Len(Tail(r)) = Len(r) - 1 /\ \A i \in 1 .. Len(r) - 1 : Tail(r)[i] = r[i + 1]
  OBVIOUS
<1>3. \A i \in 2 .. Len(r) : i - 1 \in 1 .. Len(Tail(r)) /\ Tail(r)[i - 1] = r[i]
  BY <1>2
<1>4. ToSet(r) = ToSet(Tail(r)) \cup {Head(r)}
  <2>1. ASSUME NEW x \in ToSet(r) PROVE x \in ToSet(Tail(r)) \cup {Head(r)}
    <3>1. PICK i \in 1 .. Len(r) : x = r[i]
      BY DEF ToSet
    <3>2. CASE i = 1
      BY <1>1, <3>1, <3>2
    <3>3. CASE i # 1
      <4>1. i - 1 \in DOMAIN Tail(r) /\ Tail(r)[i - 1] = x
        BY <1>1, <1>3, <3>1, <3>3
      <4>2. QED
        BY <4>1 DEF ToSet
    <3>4. QED
      BY <3>2, <3>3
  <2>2. Head(r) \in ToSet(r)
    BY <1>1 DEF ToSet
  <2>3. ASSUME NEW x \in ToSet(Tail(r)) PROVE x \in ToSet(r)
    BY <1>1, <1>2 DEF ToSet
  <2>4. QED
    BY <2>1, <2>2, <2>3
<1>5. ASSUME Distinct(r) PROVE Distinct(Tail(r)) /\ Head(r) \notin ToSet(Tail(r))
  BY <1>1, <1>2, <1>5 DEF Distinct, ToSet
<1>6. QED
  BY <1>1, <1>4, <1>5

\* A ring cut in two.
LEMMA RingCutProperties ==
  ASSUME NEW T, NEW r \in Seq(T), NEW n \in 0 .. Len(r)
  PROVE  LET front == SubSeq(r, 1, n)
             back == SubSeq(r, n + 1, Len(r))
         IN  /\ front \in Seq(T) /\ back \in Seq(T)
             /\ ToSet(r) = ToSet(front) \cup ToSet(back)
             /\ Distinct(r) => /\ Distinct(front) /\ Distinct(back)
                               /\ ToSet(front) \cap ToSet(back) = {}
<1> DEFINE front == SubSeq(r, 1, n)
           back == SubSeq(r, n + 1, Len(r))
<1>1. front \in Seq(T) /\ Len(front) = n /\ \A i \in 1 .. n : front[i] = r[i]
  OBVIOUS
<1>2. /\ back \in Seq(T) /\ Len(back) = Len(r) - n
      /\ \A i \in 1 .. Len(r) - n : back[i] = r[n + i]
  OBVIOUS
<1> HIDE DEF front, back
<1>3. ToSet(r) = ToSet(front) \cup ToSet(back)
  <2>1. ASSUME NEW i \in 1 .. Len(r) PROVE r[i] \in ToSet(front) \cup ToSet(back)
    <3>1. CASE i <= n
      BY <1>1, <3>1 DEF ToSet
    <3>2. CASE i > n
      <4>1. i - n \in DOMAIN back /\ back[i - n] = r[i]
        BY <1>2, <3>2
      <4>2. QED
        BY <4>1 DEF ToSet
    <3>3. QED
      BY <3>1, <3>2
  <2>2. ASSUME NEW x \in ToSet(front) PROVE x \in ToSet(r)
    BY <1>1 DEF ToSet
  <2>3. ASSUME NEW x \in ToSet(back) PROVE x \in ToSet(r)
    <3>1. PICK i \in 1 .. Len(r) - n : x = r[n + i]
      BY <1>2 DEF ToSet
    <3>2. n + i \in DOMAIN r
      OBVIOUS
    <3>3. QED
      BY <3>1, <3>2 DEF ToSet
  <2>4. ASSUME NEW x \in ToSet(r) PROVE x \in ToSet(front) \cup ToSet(back)
    BY <2>1 DEF ToSet
  <2>5. QED
    BY <2>2, <2>3, <2>4
<1>4. ASSUME Distinct(r)
      PROVE  Distinct(front) /\ Distinct(back) /\ ToSet(front) \cap ToSet(back) = {}
  <2>1. Distinct(front)
    BY <1>1, <1>4 DEF Distinct
  <2>2. Distinct(back)
    <3>1. SUFFICES ASSUME NEW i \in 1 .. Len(r) - n, NEW j \in 1 .. Len(r) - n,
                          back[i] = back[j]
                   PROVE  i = j
      BY <1>2 DEF Distinct
    <3>2. n + i \in DOMAIN r /\ n + j \in DOMAIN r /\ r[n + i] = r[n + j]
      BY <1>2, <3>1
    <3>3. n + i = n + j
      BY <1>4, <3>2 DEF Distinct
    <3>4. QED
      BY <3>3
  <2>3. ASSUME NEW x \in ToSet(front), x \in ToSet(back) PROVE FALSE
    <3>1. PICK i \in 1 .. n : x = r[i]
      BY <1>1 DEF ToSet
    <3>2. PICK j \in 1 .. Len(r) - n : x = r[n + j]
      BY <1>2, <2>3 DEF ToSet
    <3>3. i \in DOMAIN r /\ n + j \in DOMAIN r /\ i # n + j
      OBVIOUS
    <3>4. QED
      BY <1>4, <3>1, <3>2, <3>3 DEF Distinct
  <2>4. QED
    BY <2>1, <2>2, <2>3
<1>5. QED
  BY <1>1, <1>2, <1>3, <1>4 DEF front, back

\* ring_detach leaves the other entries where they are.
LEMMA RingDetachProperties ==
  ASSUME NEW T, NEW r \in Seq(T), NEW e, Distinct(r)
  PROVE  /\ RingDetach(r, e) \in Seq(T)
         /\ ToSet(RingDetach(r, e)) = ToSet(r) \ {e}
         /\ Distinct(RingDetach(r, e))
<1>1. CASE e \notin ToSet(r)
  BY <1>1 DEF RingDetach
<1>2. CASE e \in ToSet(r)
  <2> DEFINE k == CHOOSE i \in DOMAIN r : r[i] = e
             d == RingDetach(r, e)
  <2>1. k \in 1 .. Len(r) /\ r[k] = e
    BY <1>2 DEF ToSet
  <2>2. d = SubSeq(r, 1, k - 1) \o SubSeq(r, k + 1, Len(r))
    BY <1>2 DEF RingDetach, RemoveAt
  <2> HIDE DEF k, d
  <2>3. /\ d \in Seq(T) /\ Len(d) = Len(r) - 1
        /\ \A i \in 1 .. k - 1 : d[i] = r[i]
        /\ \A i \in k .. Len(r) - 1 : d[i] = r[i + 1]
    <3> DEFINE front == SubSeq(r, 1, k - 1)
               back == SubSeq(r, k + 1, Len(r))
    <3>1. front \in Seq(T) /\ Len(front) = k - 1 /\ \A i \in 1 .. k - 1 : front[i] = r[i]
      BY <2>1
    <3>2. /\ back \in Seq(T) /\ Len(back) = Len(r) - k
          /\ \A i \in 1 .. Len(r) - k : back[i] = r[k + i]
      BY <2>1
    <3>3. d = front \o back
      BY <2>2
    <3> HIDE DEF front, back
    <3>4. d \in Seq(T) /\ Len(d) = Len(r) - 1
      BY <2>1, <3>1, <3>2, <3>3
    <3>5. ASSUME NEW i \in 1 .. k - 1 PROVE d[i] = r[i]
      BY <2>1, <3>1, <3>2, <3>3
    <3>6. ASSUME NEW i \in k .. Len(r) - 1 PROVE d[i] = r[i + 1]
      <4>1. i - (k - 1) \in 1 .. Len(r) - k /\ k + (i - (k - 1)) = i + 1
        BY <2>1
      <4>2. d[i] = back[i - (k - 1)]
        BY <2>1, <3>1, <3>2, <3>3, <4>1
      <4>3. QED
        BY <3>2, <4>1, <4>2
    <3>7. QED
      BY <3>4, <3>5, <3>6
  <2>4. \A i \in 1 .. Len(d) :
          \E j \in 1 .. Len(r) : j # k /\ d[i] = r[j] /\ j = IF i < k THEN i ELSE i + 1
    <3>1. SUFFICES ASSUME NEW i \in 1 .. Len(d)
                   PROVE  \E j \in 1 .. Len(r) : j # k /\ d[i] = r[j]
                                                /\ j = IF i < k THEN i ELSE i + 1
      OBVIOUS
    <3>2. CASE i < k
      BY <2>1, <2>3, <3>2
    <3>3. CASE i >= k
      BY <2>1, <2>3, <3>3
    <3>4. QED
      BY <2>1, <3>2, <3>3
  <2>5. ToSet(d) = ToSet(r) \ {e}
    <3>1. ASSUME NEW i \in 1 .. Len(d) PROVE d[i] \in ToSet(r) /\ d[i] # e
      BY <2>1, <2>4 DEF Distinct, ToSet
    <3>2. ASSUME NEW i \in 1 .. Len(r), r[i] # e PROVE r[i] \in ToSet(d)
      <4>1. CASE i < k
        BY <2>1, <2>3, <4>1 DEF ToSet
      <4>2. CASE i > k
        <5>1. i - 1 \in DOMAIN d /\ d[i - 1] = r[i]
          BY <2>1, <2>3, <4>2
        <5>2. QED
          BY <5>1 DEF ToSet
      <4>3. QED
        BY <2>1, <3>2, <4>1, <4>2
    <3>3. QED
      BY <2>3, <3>1, <3>2 DEF ToSet
  <2>6. Distinct(d)
    <3>1. SUFFICES ASSUME NEW i \in 1 .. Len(d), NEW j \in 1 .. Len(d), d[i] = d[j] PROVE i = j
      BY <2>3 DEF Distinct
    <3>2. PICK m \in 1 .. Len(r) : d[i] = r[m] /\ m = IF i < k THEN i ELSE i + 1
      BY <2>4
    <3>3. PICK n \in 1 .. Len(r) : d[j] = r[n] /\ n = IF j < k THEN j ELSE j + 1
      BY <2>4
    <3>4. r[m] = r[n]
      BY <3>1, <3>2, <3>3, Zenon
    <3>5. m = n
      BY <3>4 DEF Distinct
    <3>6. QED
      BY <2>1, <2>3, <3>2, <3>3, <3>5
  <2>7. QED
    BY <2>3, <2>5, <2>6 DEF d
<1>3. QED
  BY <1>1, <1>2

\* Two rings one behind the other.
LEMMA ConcatProperties ==
  ASSUME NEW T, NEW r \in Seq(T), NEW s \in Seq(T), NEW c, c = r \o s
  PROVE  /\ c \in Seq(T) /\ Len(c) = Len(r) + Len(s)
         /\ \A i \in 1 .. Len(r) : c[i] = r[i]
         /\ \A i \in Len(r) + 1 .. Len(r) + Len(s) : c[i] = s[i - Len(r)]
  OBVIOUS

\* An entry linked behind the p-th one.
LEMMA InsertProperties ==
  ASSUME NEW T, NEW r \in Seq(T), NEW e \in T, NEW p \in 0 .. Len(r),
         NEW a, a = InsertAt(r, p + 1, e)
  PROVE  /\ a \in Seq(T) /\ Len(a) = Len(r) + 1 /\ a[p + 1] = e
         /\ \A i \in 1 .. p : a[i] = r[i]
         /\ \A i \in p + 2 .. Len(r) + 1 : a[i] = r[i - 1]
<1> DEFINE front == SubSeq(r, 1, p)
           back == SubSeq(r, p + 1, Len(r))
           b == Append(front, e)
<1>1. front \in Seq(T) /\ Len(front) = p /\ \A i \in 1 .. p : front[i] = r[i]
  OBVIOUS
<1>2. back \in Seq(T) /\ Len(back) = Len(r) - p
  OBVIOUS
<1>3. \A i \in 1 .. Len(r) - p : back[i] = r[p + i]
  OBVIOUS
<1>4. a = front \o <<e>> \o back
  <2>1. a = SubSeq(r, 1, (p + 1) - 1) \o <<e>> \o SubSeq(r, p + 1, Len(r))
    BY DEF InsertAt
  <2>2. (p + 1) - 1 = p
    OBVIOUS
  <2> QED BY <2>1, <2>2, Zenon
<1> HIDE DEF front, back
<1>5. a = b \o back
  <2>1. front \o <<e>> = b
    BY <1>1
  <2> QED BY <1>4, <2>1, Zenon
<1>6. b \in Seq(T) /\ Len(b) = p + 1 /\ b[p + 1] = e
  BY <1>1
<1>7. \A i \in 1 .. p : b[i] = r[i]
  BY <1>1
<1> HIDE DEF b
<1>8. a \in Seq(T)
  BY <1>2, <1>5, <1>6, ConcatProperties
<1>9. Len(a) = Len(r) + 1
  BY <1>2, <1>5, <1>6, ConcatProperties
<1>10. \A i \in 1 .. p + 1 : a[i] = b[i]
  <2>1. \A i \in 1 .. Len(b) : a[i] = b[i]
    BY <1>2, <1>5, <1>6, ConcatProperties
  <2> QED BY <2>1, <1>6
<1>11. ASSUME NEW i \in p + 2 .. Len(r) + 1 PROVE a[i] = r[i - 1]
  <2>1. /\ i - (p + 1) \in 1 .. Len(r) - p /\ p + (i - (p + 1)) = i - 1
        /\ i \in Len(b) + 1 .. Len(b) + Len(back)
    BY <1>2, <1>6
  <2>2. a[i] = back[i - Len(b)]
    BY <1>2, <1>5, <1>6, <2>1, ConcatProperties
  <2>3. a[i] = back[i - (p + 1)]
    BY <1>6, <2>2
  <2> QED BY <1>3, <2>1, <2>3
<1>12. a[p + 1] = e /\ \A i \in 1 .. p : a[i] = r[i]
  BY <1>6, <1>7, <1>10
<1> QED BY <1>8, <1>9, <1>11, <1>12

\* What it does to the entries.
LEMMA InsertRing ==
  ASSUME NEW T, NEW r \in Seq(T), NEW e \in T, NEW p \in 0 .. Len(r),
         NEW a, a = InsertAt(r, p + 1, e)
  PROVE  /\ ToSet(a) = ToSet(r) \cup {e}
         /\ Distinct(r) /\ e \notin ToSet(r) => Distinct(a)
<1>1. /\ a \in Seq(T) /\ Len(a) = Len(r) + 1 /\ a[p + 1] = e
      /\ \A i \in 1 .. p : a[i] = r[i]
      /\ \A i \in p + 2 .. Len(r) + 1 : a[i] = r[i - 1]
  <2>1. a \in Seq(T) /\ Len(a) = Len(r) + 1 /\ a[p + 1] = e
    BY InsertProperties
  <2>2. \A i \in 1 .. p : a[i] = r[i]
    BY InsertProperties
  <2>3. \A i \in p + 2 .. Len(r) + 1 : a[i] = r[i - 1]
    BY InsertProperties
  <2> QED BY <2>1, <2>2, <2>3
<1>2. \A i \in 1 .. Len(a) : i # p + 1 =>
        \E j \in 1 .. Len(r) : a[i] = r[j] /\ j = IF i <= p THEN i ELSE i - 1
  <2> SUFFICES ASSUME NEW i \in 1 .. Len(a), i # p + 1
               PROVE  \E j \in 1 .. Len(r) : a[i] = r[j] /\ j = IF i <= p THEN i ELSE i - 1
    OBVIOUS
  <2>1. CASE i <= p
    BY <1>1, <2>1
  <2>2. CASE i > p
    <3>1. i \in p + 2 .. Len(r) + 1 /\ i - 1 \in 1 .. Len(r)
      BY <1>1, <2>2
    <3> QED BY <1>1, <2>2, <3>1
  <2> QED BY <1>1, <2>1, <2>2
<1>3. \A j \in 1 .. Len(r) : \E i \in 1 .. Len(a) : a[i] = r[j]
  <2> SUFFICES ASSUME NEW j \in 1 .. Len(r) PROVE \E i \in 1 .. Len(a) : a[i] = r[j]
    OBVIOUS
  <2>1. CASE j <= p
    BY <1>1, <2>1
  <2>2. CASE j > p
    <3>1. j + 1 \in p + 2 .. Len(r) + 1 /\ j + 1 \in 1 .. Len(a) /\ (j + 1) - 1 = j
      BY <1>1, <2>2
    <3> QED BY <1>1, <3>1
  <2> QED BY <2>1, <2>2
<1>4. ToSet(a) = ToSet(r) \cup {e}
  <2>1. ASSUME NEW i \in 1 .. Len(a) PROVE a[i] \in ToSet(r) \cup {e}
    BY <1>1, <1>2 DEF ToSet
  <2>2. ASSUME NEW j \in 1 .. Len(r) PROVE r[j] \in ToSet(a)
    BY <1>1, <1>3 DEF ToSet
  <2>3. e \in ToSet(a)
    BY <1>1 DEF ToSet
  <2>4. ASSUME NEW x \in ToSet(a) PROVE x \in ToSet(r) \cup {e}
    BY <1>1, <2>1 DEF ToSet
  <2>5. ASSUME NEW x \in ToSet(r) PROVE x \in ToSet(a)
    BY <2>2 DEF ToSet
  <2> QED BY <2>3, <2>4, <2>5
<1>5. ASSUME Distinct(r), e \notin ToSet(r) PROVE Distinct(a)
  <2> SUFFICES ASSUME NEW i \in 1 .. Len(a), NEW j \in 1 .. Len(a), a[i] = a[j] PROVE i = j
    BY <1>1 DEF Distinct
  <2>1. \A k \in 1 .. Len(a) : k # p + 1 => a[k] # e
    BY <1>2, <1>5 DEF ToSet
  <2>2. CASE i = p + 1 \/ j = p + 1
    BY <1>1, <2>1, <2>2
  <2>3. CASE i # p + 1 /\ j # p + 1
    <3>1. PICK m \in 1 .. Len(r) : a[i] = r[m] /\ m = IF i <= p THEN i ELSE i - 1
      BY <1>2, <2>3
    <3>2. PICK n \in 1 .. Len(r) : a[j] = r[n] /\ n = IF j <= p THEN j ELSE j - 1
      BY <1>2, <2>3
    <3>3. r[m] = r[n]
      BY <3>1, <3>2, Zenon
    <3>4. m = n
      BY <1>5, <3>3 DEF Distinct
    <3> QED BY <1>1, <2>3, <3>1, <3>2, <3>4
  <2> QED BY <2>2, <2>3
<1> QED BY <1>4, <1>5

\* The entries of a ring are in the order of their w.
Sorted(r, w) == \A i, j \in DOMAIN r : i < j => w[r[i]] <= w[r[j]]

\* A ring without one of its entries is as sorted as it was.
LEMMA DetachSorted ==
  ASSUME NEW T, NEW r \in Seq(T), NEW e, NEW w, Sorted(r, w)
  PROVE  Sorted(RingDetach(r, e), w)
<1>1. CASE e \notin ToSet(r)
  BY <1>1 DEF RingDetach
<1>2. CASE e \in ToSet(r)
  <2> DEFINE k == CHOOSE i \in DOMAIN r : r[i] = e
             d == RingDetach(r, e)
             front == SubSeq(r, 1, k - 1)
             back == SubSeq(r, k + 1, Len(r))
  <2>1. k \in 1 .. Len(r)
    BY <1>2 DEF ToSet
  <2>2. d = front \o back
    BY <1>2 DEF RingDetach, RemoveAt
  <2> HIDE DEF k, d
  <2>3. front \in Seq(T) /\ Len(front) = k - 1 /\ \A i \in 1 .. k - 1 : front[i] = r[i]
    BY <2>1
  <2>4. back \in Seq(T) /\ Len(back) = Len(r) - k
    BY <2>1
  <2>5. \A i \in 1 .. Len(r) - k : back[i] = r[k + i]
    BY <2>1
  <2> HIDE DEF front, back
  <2>6. d \in Seq(T) /\ Len(d) = Len(r) - 1
    BY <2>1, <2>2, <2>3, <2>4, ConcatProperties
  <2>7. \A i \in 1 .. Len(front) : d[i] = front[i]
    BY <2>2, <2>3, <2>4, ConcatProperties
  <2>8. \A i \in Len(front) + 1 .. Len(front) + Len(back) : d[i] = back[i - Len(front)]
    BY <2>2, <2>3, <2>4, ConcatProperties
  <2>9. \A i \in 1 .. Len(d) : /\ i < k => d[i] = r[i]
                               /\ i >= k => i + 1 \in 1 .. Len(r) /\ d[i] = r[i + 1]
    <3> SUFFICES ASSUME NEW i \in 1 .. Len(d)
                 PROVE  /\ i < k => d[i] = r[i]
                        /\ i >= k => i + 1 \in 1 .. Len(r) /\ d[i] = r[i + 1]
      OBVIOUS
    <3>1. CASE i < k
      BY <2>1, <2>3, <2>7, <3>1
    <3>2. CASE i >= k
      <4>1. /\ i \in Len(front) + 1 .. Len(front) + Len(back)
            /\ i - Len(front) \in 1 .. Len(r) - k /\ k + (i - Len(front)) = i + 1
        BY <2>1, <2>3, <2>4, <2>6, <3>2
      <4>2. d[i] = r[k + (i - Len(front))]
        BY <2>5, <2>8, <4>1
      <4> QED BY <2>1, <2>6, <3>2, <4>1, <4>2
    <3> QED BY <2>1, <3>1, <3>2
  <2>10. \A i \in 1 .. Len(d) : \E m \in 1 .. Len(r) : d[i] = r[m] /\ m = IF i < k THEN i ELSE i + 1
    <3> SUFFICES ASSUME NEW i \in 1 .. Len(d)
                 PROVE  \E m \in 1 .. Len(r) : d[i] = r[m] /\ m = IF i < k THEN i ELSE i + 1
      OBVIOUS
    <3>1. CASE i < k
      BY <2>1, <2>6, <2>9, <3>1
    <3>2. CASE i >= k
      BY <2>1, <2>6, <2>9, <3>2
    <3> QED BY <2>1, <3>1, <3>2
  <2>11. ASSUME NEW i \in 1 .. Len(d), NEW j \in 1 .. Len(d), i < j
         PROVE  w[d[i]] <= w[d[j]]
    <3>1. PICK m \in 1 .. Len(r) : d[i] = r[m] /\ m = IF i < k THEN i ELSE i + 1
      BY <2>10
    <3>2. PICK n \in 1 .. Len(r) : d[j] = r[n] /\ n = IF j < k THEN j ELSE j + 1
      BY <2>10
    <3>3. m < n
      BY <2>1, <2>11, <3>1, <3>2
    <3>4. w[r[m]] <= w[r[n]]
      BY <3>3 DEF Sorted
    <3> QED BY <3>1, <3>2, <3>4, Zenon
  <2> QED BY <2>6, <2>11 DEF Sorted, d
<1> QED BY <1>1, <1>2

\* So is one that gets an entry behind the p-th, when that is not later and those
\* behind it are.
LEMMA InsertSorted ==
  ASSUME NEW T, NEW r \in Seq(T), NEW e \in T, NEW p \in 0 .. Len(r),
         NEW w \in [T -> Nat], NEW t \in Nat
  PROVE  /\ Sorted(r, w) /\ e \notin ToSet(r)
         /\ p # 0 => w[r[p]] <= t
         /\ \A i \in p + 1 .. Len(r) : t <= w[r[i]]
         => Sorted(InsertAt(r, p + 1, e), [w EXCEPT ![e] = t])
<1>0. SUFFICES ASSUME Sorted(r, w), e \notin ToSet(r), p # 0 => w[r[p]] <= t,
                      \A i \in p + 1 .. Len(r) : t <= w[r[i]]
               PROVE  Sorted(InsertAt(r, p + 1, e), [w EXCEPT ![e] = t])
  OBVIOUS
<1> DEFINE a == InsertAt(r, p + 1, e)
           v == [w EXCEPT ![e] = t]
<1>1. v[e] = t /\ \A i \in 1 .. Len(r) : v[r[i]] = w[r[i]] /\ w[r[i]] \in Nat
  BY <1>0 DEF ToSet
<1> HIDE DEF a, v
<1>2. a \in Seq(T) /\ Len(a) = Len(r) + 1 /\ a[p + 1] = e
  BY InsertProperties DEF a
<1>3. \A i \in 1 .. p : a[i] = r[i]
  BY InsertProperties DEF a
<1>4. \A i \in p + 2 .. Len(r) + 1 : a[i] = r[i - 1]
  BY InsertProperties DEF a
<1>5. \A i, j \in 1 .. Len(r) : i < j => w[r[i]] <= w[r[j]]
  <2>1. DOMAIN r = 1 .. Len(r)
    OBVIOUS
  <2> QED BY <1>0, <2>1, Zenon DEF Sorted
<1>6. \A i \in 1 .. p : w[r[i]] <= t
  <2> SUFFICES ASSUME NEW i \in 1 .. p PROVE w[r[i]] <= t
    OBVIOUS
  <2>1. p \in 1 .. Len(r) /\ i \in 1 .. Len(r) /\ p # 0 /\ (i < p \/ i = p)
    OBVIOUS
  <2>2. w[r[p]] <= t
    BY <1>0, <2>1
  <2>3. w[r[i]] <= w[r[p]] \/ i = p
    BY <1>5, <2>1
  <2>4. w[r[i]] \in Nat /\ w[r[p]] \in Nat
    BY <1>1, <2>1
  <2> QED BY <2>2, <2>3, <2>4
<1>7. ASSUME NEW i \in 1 .. Len(a), NEW j \in 1 .. Len(a), i < j
      PROVE  v[a[i]] <= v[a[j]]
  <2>1. CASE i = p + 1
    <3>1. j \in p + 2 .. Len(r) + 1 /\ j - 1 \in p + 1 .. Len(r) /\ j - 1 \in 1 .. Len(r)
      BY <1>2, <1>7, <2>1
    <3>2. a[i] = e /\ a[j] = r[j - 1]
      BY <1>2, <1>4, <2>1, <3>1
    <3>3. t <= w[r[j - 1]]
      BY <1>0, <3>1
    <3> QED BY <1>1, <3>1, <3>2, <3>3
  <2>2. CASE i <= p /\ j <= p
    <3>1. i \in 1 .. p /\ j \in 1 .. p /\ i \in 1 .. Len(r) /\ j \in 1 .. Len(r)
      BY <2>2
    <3>2. a[i] = r[i] /\ a[j] = r[j]
      BY <1>3, <3>1
    <3> QED BY <1>1, <1>5, <1>7, <3>1, <3>2
  <2>3. CASE i <= p /\ j = p + 1
    <3>1. i \in 1 .. p /\ i \in 1 .. Len(r)
      BY <2>3
    <3> QED BY <1>1, <1>2, <1>3, <1>6, <2>3, <3>1
  <2>4. CASE i <= p /\ j > p + 1
    <3>1. i \in 1 .. p /\ i \in 1 .. Len(r)
      BY <2>4
    <3>2. j \in p + 2 .. Len(r) + 1 /\ j - 1 \in 1 .. Len(r) /\ i < j - 1
      BY <1>2, <2>4
    <3>3. a[i] = r[i] /\ a[j] = r[j - 1]
      BY <1>3, <1>4, <3>1, <3>2
    <3> QED BY <1>1, <1>5, <3>1, <3>2, <3>3
  <2>5. CASE i > p + 1
    <3>1. /\ i \in p + 2 .. Len(r) + 1 /\ i - 1 \in 1 .. Len(r)
          /\ j \in p + 2 .. Len(r) + 1 /\ j - 1 \in 1 .. Len(r) /\ i - 1 < j - 1
      BY <1>2, <1>7, <2>5
    <3>2. a[i] = r[i - 1] /\ a[j] = r[j - 1]
      BY <1>4, <3>1
    <3> QED BY <1>1, <1>5, <3>1, <3>2
  <2> QED BY <1>2, <1>7, <2>1, <2>2, <2>3, <2>4, <2>5
<1>8. Sorted(a, v)
  <2>1. DOMAIN a = 1 .. Len(a)
    BY <1>2
  <2> QED BY <1>7, <2>1 DEF Sorted
<1> QED BY <1>8 DEF a, v

-----------------------------------------------------------------------------
\* Division, rounded down, by a number that is not known.

LEMMA TimesGrows ==
  ASSUME NEW n \in Nat \ {0}, NEW x \in Int, NEW y \in Int, x < y
  PROVE  x * n + n <= y * n
<1>1. PICK d \in Nat : y = x + 1 + d
  <2>1. y - x - 1 \in Nat /\ y = x + 1 + (y - x - 1)
    OBVIOUS
  <2> QED BY <2>1
<1>2. d * n >= 0
  OBVIOUS
<1>3. y * n = x * n + n + d * n
  BY <1>1
<1>4. x * n \in Int /\ y * n \in Int /\ d * n \in Int
  OBVIOUS
<1> QED BY <1>2, <1>3, <1>4

LEMMA DivBounds ==
  ASSUME NEW a \in Int, NEW n \in Nat \ {0}
  PROVE  /\ a \div n \in Int
         /\ (a \div n) * n <= a /\ a < (a \div n) * n + n
<1>1. a \div n \in Int /\ a % n \in 0 .. n - 1
  OBVIOUS
<1>2. a = n * (a \div n) + (a % n)
  OBVIOUS
<1> PICK d \in Int : d = a \div n
  BY <1>1
<1> PICK r \in 0 .. n - 1 : r = a % n
  BY <1>1
<1>3. a = d * n + r
  BY <1>2
<1>4. d * n \in Int
  OBVIOUS
<1>5. d * n <= a /\ a < d * n + n
  BY <1>3, <1>4
<1> QED BY <1>1, <1>5

LEMMA DivIs ==
  ASSUME NEW a \in Int, NEW n \in Nat \ {0}, NEW k \in Int, k * n <= a, a < k * n + n
  PROVE  a \div n = k
<1> PICK d \in Int : d = a \div n
  BY DivBounds
<1>1. d * n <= a /\ a < d * n + n
  BY DivBounds
<1>2. d * n \in Int /\ k * n \in Int
  OBVIOUS
<1>3. CASE d < k
  BY <1>1, <1>2, <1>3, TimesGrows
<1>4. CASE k < d
  BY <1>1, <1>2, <1>4, TimesGrows
<1> QED BY <1>3, <1>4

LEMMA DivGrows ==
  ASSUME NEW a \in Int, NEW b \in Int, NEW n \in Nat \ {0}, a <= b
  PROVE  a \div n <= b \div n
<1> PICK d \in Int : d = a \div n
  BY DivBounds
<1> PICK e \in Int : e = b \div n
  BY DivBounds
<1>1. d * n <= a /\ b < e * n + n /\ d * n \in Int /\ e * n \in Int
  BY DivBounds
<1>2. CASE e < d
  BY <1>1, <1>2, TimesGrows
<1> QED BY <1>2

\* Whole multiples go through a division.
LEMMA DivAdds ==
  ASSUME NEW a \in Int, NEW n \in Nat \ {0}, NEW k \in Int
  PROVE  (a + k * n) \div n = a \div n + k
<1> PICK d \in Int : d = a \div n
  BY DivBounds
<1>1. d * n <= a /\ a < d * n + n /\ d * n \in Int /\ k * n \in Int
  BY DivBounds
<1>2. (d + k) * n = d * n + k * n
  OBVIOUS
<1>3. a + k * n \in Int /\ d + k \in Int
      /\ (d + k) * n <= a + k * n /\ a + k * n < (d + k) * n + n
  BY <1>1, <1>2
<1> QED BY <1>3, DivIs

\* Two roundings lose one at most.
LEMMA DivSums ==
  ASSUME NEW a \in Int, NEW b \in Int, NEW n \in Nat \ {0}
  PROVE  (a + b) \div n \in {a \div n + b \div n, a \div n + b \div n + 1}
<1> PICK d \in Int : d = a \div n
  BY DivBounds
<1> PICK e \in Int : e = b \div n
  BY DivBounds
<1>1. /\ d * n <= a /\ a < d * n + n /\ d * n \in Int
      /\ e * n <= b /\ b < e * n + n /\ e * n \in Int
  BY DivBounds
<1>2. (d + e) * n = d * n + e * n /\ (d + e + 1) * n = d * n + e * n + n
  OBVIOUS
<1>3. CASE a + b < d * n + e * n + n
  <2>1. (d + e) * n <= a + b /\ a + b < (d + e) * n + n /\ d + e \in Int /\ a + b \in Int
    BY <1>1, <1>2, <1>3
  <2>2. (a + b) \div n = d + e
    BY <2>1, DivIs
  <2> QED BY <2>2
<1>4. CASE ~(a + b < d * n + e * n + n)
  <2>1. /\ (d + e + 1) * n <= a + b /\ a + b < (d + e + 1) * n + n
        /\ d + e + 1 \in Int /\ a + b \in Int
    BY <1>1, <1>2, <1>4
  <2>2. (a + b) \div n = d + e + 1
    BY <2>1, DivIs
  <2> QED BY <2>2
<1> QED BY <1>3, <1>4

\* A common factor goes.
LEMMA DivCancels ==
  ASSUME NEW a \in Int, NEW n \in Nat \ {0}, NEW w \in Nat \ {0}
  PROVE  (a * w) \div (n * w) = a \div n
<1> PICK d \in Int : d = a \div n
  BY DivBounds
<1>1. d * n <= a /\ a < d * n + n /\ d * n \in Int
  BY DivBounds
<1> PICK x \in Int : x = d * n
  BY <1>1
<1>2. n * w \in Nat \ {0} /\ a * w \in Int /\ x * w \in Int
  <2>1. n * w \in Int /\ a * w \in Int /\ x * w \in Int
    OBVIOUS
  <2>2. 0 * w + w <= n * w
    <3>1. 0 \in Int /\ n \in Int /\ 0 < n
      OBVIOUS
    <3> QED BY <3>1, TimesGrows
  <2> QED BY <2>1, <2>2
<1>3. x * w <= a * w
  <2>1. CASE x = a
    BY <2>1
  <2>2. CASE x < a
    <3>1. x * w + w <= a * w
      BY <2>2, TimesGrows
    <3> QED BY <1>2, <3>1
  <2> QED BY <1>1, <2>1, <2>2
<1>4. a * w < x * w + n * w
  <2>1. a < x + n /\ x + n \in Int
    BY <1>1
  <2>2. a * w + w <= (x + n) * w
    BY <2>1, TimesGrows
  <2>3. (x + n) * w = x * w + n * w
    OBVIOUS
  <2> QED BY <1>2, <2>2, <2>3
<1>5. d * (n * w) = x * w
  OBVIOUS
<1>6. a * w \in Int /\ n * w \in Nat \ {0} /\ d * (n * w) <= a * w
      /\ a * w < d * (n * w) + n * w
  BY <1>2, <1>3, <1>4, <1>5
<1> QED BY <1>6, DivIs

\* x parts, n of which are a whole, in parts of which m are a whole.
Scaled(x, m, n) == (x * m) \div n

LEMMA ScaledIs ==
  ASSUME NEW m \in Nat \ {0}, NEW n \in Nat \ {0}, NEW x \in Int, NEW y \in Int
  PROVE  /\ Scaled(x, m, n) \in Int
         /\ Scaled(0, m, n) = 0
         /\ x >= 0 => Scaled(x, m, n) >= 0
         /\ x <= y => Scaled(x, m, n) <= Scaled(y, m, n)
         /\ Scaled(x + y, m, n) \in {Scaled(x, m, n) + Scaled(y, m, n),
                                     Scaled(x, m, n) + Scaled(y, m, n) + 1}
         /\ Scaled(x + y * n, m, n) = Scaled(x, m, n) + y * m
<1>1. x * m \in Int /\ y * m \in Int /\ (x + y) * m = x * m + y * m
  OBVIOUS
<1>2. Scaled(x, m, n) \in Int /\ Scaled(y, m, n) \in Int
  BY <1>1, DivBounds DEF Scaled
<1>3. Scaled(0, m, n) = 0
  BY DEF Scaled
<1>4. x <= y => x * m <= y * m
  <2>1. CASE x = y
    BY <1>1, <2>1
  <2>2. CASE x < y
    <3>1. x * m + m <= y * m
      BY <2>2, TimesGrows
    <3> QED BY <1>1, <3>1
  <2>3. CASE ~(x <= y)
    BY <2>3
  <2> QED BY <2>1, <2>2, <2>3
<1>5. x <= y => Scaled(x, m, n) <= Scaled(y, m, n)
  BY <1>1, <1>4, DivGrows DEF Scaled
<1>6. x >= 0 => Scaled(x, m, n) >= 0
  <2>1. x >= 0 => x * m >= 0
    OBVIOUS
  <2>2. 0 \div n = 0 /\ 0 \in Int
    OBVIOUS
  <2> QED BY <1>1, <2>1, <2>2, DivGrows DEF Scaled
<1>7. Scaled(x + y, m, n) \in {Scaled(x, m, n) + Scaled(y, m, n),
                               Scaled(x, m, n) + Scaled(y, m, n) + 1}
  BY <1>1, DivSums DEF Scaled
<1>8. Scaled(x + y * n, m, n) = Scaled(x, m, n) + y * m
  <2>1. (x + y * n) * m = x * m + (y * m) * n
    OBVIOUS
  <2>2. (x * m + (y * m) * n) \div n = (x * m) \div n + y * m
    BY <1>1, DivAdds
  <2> QED BY <2>1, <2>2 DEF Scaled
<1> QED BY <1>2, <1>3, <1>5, <1>6, <1>7, <1>8

LEMMA Spread ==
  ASSUME NEW s \in Int, NEW y \in Int, NEW m \in Int, NEW u \in Int
  PROVE  ((s + y) * m) * u = s * (m * u) + y * (m * u)
OBVIOUS

LEMMA RestIs ==
  ASSUME NEW x \in Int, NEW w \in Nat \ {0}
  PROVE  x \div w \in Int /\ x % w \in Int /\ x = (x \div w) * w + (x % w)
OBVIOUS

\* A number in units of w and what is left, told in units of u, of which m
\* are w: what is left may be more than a whole.
ToldWhole(s, v, x, m, u, w) ==
  (s + (x \div w)) * m + ((v + (x % w)) \div u) = (s * w + v + x) \div u

LEMMA TellsAll ==
  ASSUME NEW s \in Int, NEW v \in Int, NEW x \in Int,
         NEW m \in Nat \ {0}, NEW u \in Nat \ {0}, NEW w \in Nat \ {0}, w = m * u
  PROVE  ToldWhole(s, v, x, m, u, w)
<1>0. \A a, b \in Int : (a + b * u) \div u = a \div u + b
  BY DivAdds
<1> PICK y \in Int, r \in Int : y = x \div w /\ r = x % w /\ x = y * w + r
  BY RestIs
<1> PICK k \in Int : k = (s + y) * m
  OBVIOUS
<1> PICK e \in Int : e = v + r
  OBVIOUS
<1>1. (e + k * u) \div u = e \div u + k
  BY <1>0, Zenon
<1>2. k * u = s * w + y * w
  BY Spread
<1> PICK g \in Int, h \in Int : g = s * w /\ h = y * w
  OBVIOUS
<1>3. s * w + v + x = e + k * u
  <2>1. s * w + v + x = g + v + (h + r) /\ k * u = g + h
    BY <1>2
  <2>2. g + v + (h + r) = v + r + (g + h)
    OBVIOUS
  <2>3. s * w + v + x = e + (g + h)
    BY <2>1, <2>2
  <2> QED BY <2>1, <2>3, Zenon
<1> PICK f \in Int : f = e \div u
  BY DivBounds
<1>4. f + k = k + f
  OBVIOUS
<1>5. (s + (x \div w)) * m + ((v + (x % w)) \div u) = (s * w + v + x) \div u
  BY <1>1, <1>3, <1>4
<1> QED BY <1>5 DEF ToldWhole

LEMMA DivWhole ==
  ASSUME NEW n \in Nat \ {0}, NEW k \in Int
  PROVE  (k * n) \div n = k
<1>1. k * n \in Int /\ k * n <= k * n /\ k * n < k * n + n
  OBVIOUS
<1> QED BY <1>1, DivIs

=============================================================================
