--------------------------- MODULE Services_proofs ---------------------------
(* For any number of rings and entries the pointers of circle.c stay closed, *)
(* and each call does to the sequence of a ring's entries what RingSeq says.  *)
(* The steps of fiber-local data, thread keys, the clock and select keep the *)
(* invariants that the theorems of Library_proofs rest on, and the tests of   *)
(* names and addresses accept what they should.                              *)
EXTENDS Services, RingSeq_proofs, NaturalsInduction, WellFoundedInduction, FiniteSetTheorems

Pointers ==
  /\ succ \in [Node -> Node \cup {Null}]
  /\ pred \in [Node -> Node \cup {Null}]
  /\ parent \in [Node -> Node \cup {Null}]

\* Null pointers are all three null, a head has none, and an entry that is its own
\* parent is linked to itself: so a node that points to an entry is in its ring,
\* and what a caller may link is pointed to by nobody.
Own ==
  /\ \A n \in Node : (succ[n] = Null <=> pred[n] = Null) /\ (succ[n] = Null <=> parent[n] = Null)
  /\ \A h \in Heads : succ[h] # Null
  /\ \A e \in Entry : parent[e] = e => succ[e] = e /\ pred[e] = e

\* A parent is a head.
HeadIsParent == \A n \in Node : parent[n] \in Heads \cup {n, Null}

RInv == Pointers /\ Own /\ HeadIsParent /\ Closed

USE RingAssumption DEF RingAssumption, Node

LEMMA InitRInv == Init => RInv
<1>1. SUFFICES ASSUME NEW Z \in SUBSET Entry,
                      succ = [n \in Node |-> IF n \in Heads \cup Z THEN n ELSE Null],
                      pred = succ, parent = succ
               PROVE  RInv
  BY DEF Init
<1>2. Pointers
  BY <1>1 DEF Pointers
<1>3. Own
  BY <1>1 DEF Own
<1>4. Closed
  BY <1>1 DEF Closed
<1>5. HeadIsParent
  BY <1>1 DEF HeadIsParent
<1>6. QED
  BY <1>2, <1>3, <1>4, <1>5 DEF RInv

\* Nobody points to what may be linked.
LEMMA UnlinkedProperties ==
  ASSUME RInv, NEW e \in Entry, Unlinked(e), NEW n \in Node, n # e
  PROVE  /\ succ[n] # e
         /\ succ[n] # Null => pred[n] # e
<1> USE DEF RInv
<1>1. e # Null /\ e \in Node
  OBVIOUS
<1>2. CASE parent[e] = Null
  BY <1>1, <1>2 DEF Own, Closed, Pointers
<1>3. CASE parent[e] = e
  <2>1. succ[e] = e /\ pred[e] = e
    BY <1>3 DEF Own
  <2>2. QED
    BY <1>1, <2>1 DEF Closed, Pointers
<1>4. QED
  BY <1>2, <1>3 DEF Unlinked

\* Linking e between two neighbours a and b.
LEMMA LinkRInv ==
  ASSUME RInv, NEW a \in Node, NEW b \in Node, NEW e \in Entry, NEW p \in Heads,
         succ[a] = b, pred[b] = a, Unlinked(e),
         a # e, b # e,
         a \in Entry => parent[a] # a, b \in Entry => parent[b] # b,
         succ' = [succ EXCEPT ![e] = b, ![a] = e],
         pred' = [pred EXCEPT ![e] = a, ![b] = e],
         parent' = [parent EXCEPT ![e] = p]
  PROVE  RInv'
<1> USE DEF RInv
<1>1. Pointers'
  BY DEF Pointers
<1>2. /\ succ'[e] = b /\ succ'[a] = e /\ \A n \in Node \ {a, e} : succ'[n] = succ[n]
      /\ pred'[e] = a /\ pred'[b] = e /\ \A n \in Node \ {b, e} : pred'[n] = pred[n]
      /\ parent'[e] = p /\ \A n \in Node \ {e} : parent'[n] = parent[n]
  BY DEF Pointers
<1>3. a # Null /\ b # Null /\ e # Null /\ p # Null /\ p # e /\ e \notin Heads
  OBVIOUS
<1>4. Own'
  <2>1. ASSUME NEW n \in Node
        PROVE  /\ succ'[n] = Null <=> pred'[n] = Null
               /\ succ'[n] = Null <=> parent'[n] = Null
    <3>1. CASE n = e
      BY <1>2, <1>3, <3>1
    <3>2. CASE n # e
      <4>1. succ'[n] = Null <=> succ[n] = Null
        BY <1>2, <1>3, <3>2
      <4>2. pred'[n] = Null <=> pred[n] = Null
        BY <1>2, <1>3, <3>2
      <4>3. parent'[n] = parent[n]
        BY <1>2, <3>2
      <4>4. (succ[n] = Null <=> pred[n] = Null) /\ (succ[n] = Null <=> parent[n] = Null)
        BY DEF Own
      <4>5. QED
        BY <4>1, <4>2, <4>3, <4>4
    <3>3. QED
      BY <3>1, <3>2
  <2>2. ASSUME NEW h \in Heads PROVE succ'[h] # Null
    <3>1. CASE h = a
      BY <1>2, <1>3, <3>1
    <3>2. CASE h # a
      <4>1. h \in Node /\ h # e /\ succ[h] # Null
        BY <1>3 DEF Own
      <4>2. QED
        BY <1>2, <3>2, <4>1
    <3>3. QED
      BY <3>1, <3>2
  <2>3. ASSUME NEW x \in Entry, parent'[x] = x PROVE succ'[x] = x /\ pred'[x] = x
    <3>1. x # e
      BY <1>2, <2>3
    <3>2. parent[x] = x
      BY <1>2, <2>3, <3>1
    <3>3. succ[x] = x /\ pred[x] = x /\ x # a /\ x # b
      BY <3>2 DEF Own
    <3>4. QED
      BY <1>2, <3>1, <3>3
  <2>4. QED
    BY <2>1, <2>2, <2>3 DEF Own
<1>5. Closed'
  <2>1. SUFFICES ASSUME NEW n \in Node, succ'[n] # Null
                 PROVE  pred'[succ'[n]] = n /\ succ'[pred'[n]] = n
    BY DEF Closed
  <2>2. CASE n = e
    BY <1>2, <2>2
  <2>3. CASE n # e
    <3>1. /\ succ[n] # Null /\ succ[n] \in Node /\ pred[n] \in Node
          /\ pred[succ[n]] = n /\ succ[pred[n]] = n
          /\ succ[n] # e /\ pred[n] # e
      <4>1. succ[n] # Null
        BY <1>2, <1>3, <2>1, <2>3
      <4>2. QED
        BY <2>3, <4>1, UnlinkedProperties DEF Closed, Own, Pointers
    <3>2. pred'[succ'[n]] = n
      <4>1. CASE n = a
        BY <1>2, <4>1
      <4>2. CASE n # a
        <5>1. succ[n] # b
          BY <3>1, <4>2
        <5>2. succ'[n] = succ[n]
          BY <1>2, <2>3, <4>2
        <5>3. pred'[succ[n]] = pred[succ[n]]
          BY <1>2, <3>1, <5>1
        <5>4. QED
          BY <3>1, <5>2, <5>3
      <4>3. QED
        BY <4>1, <4>2
    <3>3. succ'[pred'[n]] = n
      <4>1. CASE n = b
        BY <1>2, <4>1
      <4>2. CASE n # b
        <5>1. pred[n] # a
          BY <3>1, <4>2
        <5>2. pred'[n] = pred[n]
          BY <1>2, <2>3, <4>2
        <5>3. succ'[pred[n]] = succ[pred[n]]
          BY <1>2, <3>1, <5>1
        <5>4. QED
          BY <3>1, <5>2, <5>3
      <4>3. QED
        BY <4>1, <4>2
    <3>4. QED
      BY <3>2, <3>3
  <2>4. QED
    BY <2>2, <2>3
<1>6. HeadIsParent'
  BY <1>2 DEF HeadIsParent
<1>7. QED
  BY <1>1, <1>4, <1>5, <1>6

\* Taking e out, or leaving alone what is in no ring.
LEMMA DetachRInv ==
  ASSUME RInv, NEW e \in Node, Detach(e)
  PROVE  RInv'
<1> USE DEF RInv
<1>1. CASE parent[e] = e \/ succ[e] = Null \/ pred[e] = Null
  BY <1>1 DEF Detach, rvars, Pointers, Own, HeadIsParent, Closed
<1>2. CASE ~(parent[e] = e \/ succ[e] = Null \/ pred[e] = Null)
  <2>0. PICK a \in Node, b \in Node : a = pred[e] /\ b = succ[e]
    BY <1>2 DEF Pointers
  <2>1. a # Null /\ b # Null /\ succ[a] = e /\ pred[b] = e
    BY <1>2, <2>0 DEF Closed
  <2>2. /\ succ' = [succ EXCEPT ![a] = b, ![e] = e]
        /\ pred' = [pred EXCEPT ![b] = a, ![e] = e]
        /\ parent' = [parent EXCEPT ![e] = e]
    BY <1>2, <2>0 DEF Detach
  <2>3. Pointers'
    BY <2>1, <2>2 DEF Pointers
  <2>4. /\ succ'[e] = e /\ (a # e => succ'[a] = b) /\ \A n \in Node \ {a, e} : succ'[n] = succ[n]
        /\ pred'[e] = e /\ (b # e => pred'[b] = a) /\ \A n \in Node \ {b, e} : pred'[n] = pred[n]
        /\ parent'[e] = e /\ \A n \in Node \ {e} : parent'[n] = parent[n]
    BY <2>1, <2>2 DEF Pointers
  <2>5. e # Null
    OBVIOUS
  <2>6. Own'
    <3>1. ASSUME NEW n \in Node
          PROVE  /\ succ'[n] = Null <=> pred'[n] = Null
                 /\ succ'[n] = Null <=> parent'[n] = Null
      <4>1. CASE n = e
        BY <2>4, <2>5, <4>1
      <4>2. CASE n # e
        <5>1. succ'[n] = Null <=> succ[n] = Null
          BY <2>1, <2>4, <2>5, <4>2
        <5>2. pred'[n] = Null <=> pred[n] = Null
          BY <2>1, <2>4, <2>5, <4>2
        <5>3. parent'[n] = parent[n]
          BY <2>4, <4>2
        <5>4. (succ[n] = Null <=> pred[n] = Null) /\ (succ[n] = Null <=> parent[n] = Null)
          BY DEF Own
        <5>5. QED
          BY <5>1, <5>2, <5>3, <5>4
      <4>3. QED
        BY <4>1, <4>2
    <3>2. ASSUME NEW h \in Heads PROVE succ'[h] # Null
      <4>1. h \in Node /\ succ[h] # Null
        BY DEF Own
      <4>2. QED
        BY <2>1, <2>4, <2>5, <4>1
    <3>3. ASSUME NEW x \in Entry, parent'[x] = x PROVE succ'[x] = x /\ pred'[x] = x
      <4>1. CASE x = e
        BY <2>4, <4>1
      <4>2. CASE x # e
        <5>1. parent[x] = x
          BY <2>4, <3>3, <4>2
        <5>2. succ[x] = x /\ pred[x] = x
          BY <5>1 DEF Own
        <5>3. x # a /\ x # b
          BY <2>1, <4>2, <5>2
        <5>4. QED
          BY <2>4, <4>2, <5>2, <5>3
      <4>3. QED
        BY <4>1, <4>2
    <3>4. QED
      BY <3>1, <3>2, <3>3 DEF Own
  <2>7. Closed'
    <3>1. SUFFICES ASSUME NEW n \in Node, succ'[n] # Null
                   PROVE  pred'[succ'[n]] = n /\ succ'[pred'[n]] = n
      BY DEF Closed
    <3>2. CASE n = e
      BY <2>4, <3>2
    <3>3. CASE n # e
      <4>1. succ[n] # Null
        BY <2>1, <2>4, <3>1, <3>3
      <4>2. /\ succ[n] \in Node /\ pred[n] \in Node
            /\ pred[succ[n]] = n /\ succ[pred[n]] = n
        BY <4>1 DEF Closed, Own, Pointers
      <4>3. pred'[succ'[n]] = n
        <5>1. CASE n = a
          BY <2>0, <2>1, <2>4, <3>3, <5>1
        <5>2. CASE n # a
          <6>1. succ[n] # e /\ succ[n] # b
            BY <2>0, <2>1, <3>3, <4>2, <5>2
          <6>2. succ'[n] = succ[n]
            BY <2>4, <3>3, <5>2
          <6>3. pred'[succ[n]] = pred[succ[n]]
            BY <2>4, <4>2, <6>1
          <6>4. QED
            BY <4>2, <6>2, <6>3
        <5>3. QED
          BY <5>1, <5>2
      <4>4. succ'[pred'[n]] = n
        <5>1. CASE n = b
          BY <2>0, <2>1, <2>4, <3>3, <5>1
        <5>2. CASE n # b
          <6>1. pred[n] # e /\ pred[n] # a
            BY <2>0, <2>1, <3>3, <4>2, <5>2
          <6>2. pred'[n] = pred[n]
            BY <2>4, <3>3, <5>2
          <6>3. succ'[pred[n]] = succ[pred[n]]
            BY <2>4, <4>2, <6>1
          <6>4. QED
            BY <4>2, <6>2, <6>3
        <5>3. QED
          BY <5>1, <5>2
      <4>5. QED
        BY <4>3, <4>4
    <3>4. QED
      BY <3>2, <3>3
  <2>8. HeadIsParent'
    BY <2>4 DEF HeadIsParent
  <2>9. QED
    BY <2>3, <2>6, <2>7, <2>8
<1>3. QED
  BY <1>1, <1>2

\* ring_append and ring_prepend are both a LinkRInv.
LEMMA LinkBehindRInv ==
  ASSUME RInv, NEW at \in Node, NEW e \in Entry, LinkBehind(at, e)
  PROVE  RInv'
<1> USE DEF RInv
<1>1. Place(at) /\ Unlinked(e)
  BY DEF LinkBehind
<1>2. at # e /\ succ[at] # Null /\ parent[at] # Null /\ (at \in Entry => parent[at] # at)
  <2>1. at # e
    BY <1>1 DEF Place
  <2>2. parent[at] # Null /\ (at \in Entry => parent[at] # at)
    <3>1. CASE at \in Heads
      BY <3>1 DEF Own
    <3>2. CASE ~Unlinked(at)
      BY <3>2 DEF Unlinked
    <3>3. QED
      BY <1>1, <3>1, <3>2 DEF Place
  <2>3. succ[at] # Null
    BY <2>2 DEF Own
  <2>4. QED
    BY <2>1, <2>2, <2>3
<1>3. PICK b \in Node : b = succ[at]
  BY <1>2 DEF Pointers
<1>4. pred[b] = at /\ b # e
  <2>1. pred[b] = at
    BY <1>2, <1>3 DEF Closed
  <2>2. QED
    BY <1>1, <1>2, <1>3, <2>1, UnlinkedProperties
<1>5. PICK p \in Heads : p = parent[at]
  BY <1>2 DEF HeadIsParent
<1>6. /\ succ' = [succ EXCEPT ![e] = b, ![at] = e]
      /\ pred' = [pred EXCEPT ![e] = at, ![b] = e]
      /\ parent' = [parent EXCEPT ![e] = p]
  BY <1>3, <1>5 DEF LinkBehind
<1>7. b \in Entry => parent[b] # b
  <2>1. parent[b] = b /\ b \in Entry => pred[b] = b
    BY DEF Own
  <2>2. b = at => (b \in Entry => parent[b] # b)
    BY <1>2
  <2>3. QED
    BY <1>4, <2>1, <2>2
<1>8. /\ at # e /\ b # e /\ succ[at] = b /\ pred[b] = at /\ Unlinked(e)
      /\ (at \in Entry => parent[at] # at) /\ (b \in Entry => parent[b] # b)
  BY <1>1, <1>2, <1>3, <1>4, <1>7
<1> HIDE DEF RInv
<1>9. QED
  BY <1>6, <1>8, LinkRInv

LEMMA LinkBeforeRInv ==
  ASSUME RInv, NEW h \in Heads, NEW e \in Entry, LinkBefore(h, e)
  PROVE  RInv'
<1> USE DEF RInv
<1>1. Unlinked(e) /\ h # e /\ h \in Node
  BY DEF LinkBefore
<1>2. succ[h] # Null /\ pred[h] # Null /\ parent[h] # Null
  BY DEF Own
<1>3. PICK a \in Node : a = pred[h]
  BY <1>2 DEF Pointers
<1>4. succ[a] = h
  BY <1>2, <1>3 DEF Closed
<1>5. a # e
  BY <1>1, <1>2, <1>3, UnlinkedProperties
<1>6. PICK p \in Heads : p = parent[h]
  BY <1>1, <1>2 DEF HeadIsParent
<1>7. /\ succ' = [succ EXCEPT ![e] = h, ![a] = e]
      /\ pred' = [pred EXCEPT ![e] = a, ![h] = e]
      /\ parent' = [parent EXCEPT ![e] = p]
  BY <1>3, <1>6 DEF LinkBefore
<1>8. a \in Entry => parent[a] # a
  BY <1>4, <1>1 DEF Own
<1>9. /\ a # e /\ h # e /\ succ[a] = h /\ pred[h] = a /\ Unlinked(e)
      /\ (a \in Entry => parent[a] # a) /\ (h \in Entry => parent[h] # h)
  BY <1>1, <1>3, <1>4, <1>5, <1>8
<1>10. QED
  BY <1>1, <1>7, <1>9, LinkRInv

LEMMA NextRInv == RInv /\ [Next]_rvars => RInv'
<1> SUFFICES ASSUME RInv, [Next]_rvars PROVE RInv'
  OBVIOUS
<1>1. ASSUME NEW e \in Entry, Detach(e) PROVE RInv'
  BY <1>1, DetachRInv
<1>2. ASSUME NEW e \in Entry, NEW at \in Node, LinkBehind(at, e) PROVE RInv'
  BY <1>2, LinkBehindRInv
<1>3. ASSUME NEW h \in Heads, PopHead(h) \/ PopTail(h) PROVE RInv'
  <2>1. succ[h] \in Node /\ pred[h] \in Node
    BY DEF RInv, Own, Pointers
  <2>2. QED
    BY <1>3, <2>1, DetachRInv DEF PopHead, PopTail
<1>4. ASSUME NEW h \in Heads, NEW e \in Entry, LinkBefore(h, e) PROVE RInv'
  BY <1>4, LinkBeforeRInv
<1>5. CASE UNCHANGED rvars
  BY <1>5 DEF rvars, RInv, Pointers, Own, HeadIsParent, Closed
<1>6. QED
  BY <1>1, <1>2, <1>3, <1>4, <1>5 DEF Next

\* After any sequence of calls every ring can be walked forwards and backwards, and
\* either way comes back to the node it left.
THEOREM RingsStayClosed == Spec => []Closed
<1>1. Init => RInv
  BY InitRInv
<1>2. RInv /\ [Next]_rvars => RInv'
  BY NextRInv
<1>3. RInv => Closed
  BY DEF RInv
<1>4. QED
  BY <1>1, <1>2, <1>3, PTL DEF Spec

-----------------------------------------------------------------------------
(* The walks around the rings, of which Contents is one.                     *)

\* What Contents follows, as a function of the pointers.
WalkAlong(s, n, h) ==
  LET at[k \in 0 .. n] == IF k = 0 THEN h ELSE s[at[k - 1]]
  IN  [k \in 1 .. n |-> at[k]]

\* What it makes of a function g that follows them.
Entries(g, n) == [k \in 1 .. n |-> g[k]]

\* f is such a function.
Follows(f, s, n, h) == f = [k \in 0 .. n |-> IF k = 0 THEN h ELSE s[f[k - 1]]]

\* A set of numbers that is not empty has a least one.
LEMMA LeastExists ==
  ASSUME NEW D \in SUBSET Nat, D # {}
  PROVE  \E m \in D : \A k \in D : m <= k
<1> PICK R : R = {p \in Nat \X Nat : p[1] < p[2]}
  OBVIOUS
<1>1. IsWellFoundedOn(R, Nat)
  BY NatLessThanWellFounded DEF OpToRel
<1>2. PICK m \in D : \A k \in D : <<k, m>> \notin R
  BY <1>1, WFMin
<1>3. \A k \in D : m <= k
  <2> SUFFICES ASSUME NEW k \in D PROVE m <= k
    OBVIOUS
  <2>1. m \in Nat /\ k \in Nat /\ ~(k < m)
    BY <1>2
  <2> QED BY <2>1
<1> QED BY <1>3

\* There is one walk at most.
LEMMA OneWalk ==
  ASSUME NEW s, NEW n \in Nat, NEW h, NEW f, NEW g, Follows(f, s, n, h), Follows(g, s, n, h)
  PROVE  f = g
<1> DEFINE D == {k \in 0 .. n : f[k] # g[k]}
<1>0. f = [k \in 0 .. n |-> IF k = 0 THEN h ELSE s[f[k - 1]]]
  BY DEF Follows
<1>00. g = [k \in 0 .. n |-> IF k = 0 THEN h ELSE s[g[k - 1]]]
  BY DEF Follows
<1>1. CASE D = {}
  BY <1>0, <1>00, <1>1
<1>2. CASE D # {}
  <2>1. PICK m \in D : \A k \in D : m <= k
    <3>1. D \in SUBSET Nat
      OBVIOUS
    <3> HIDE DEF D
    <3> QED BY <1>2, <3>1, LeastExists
  <2>2. m \in 0 .. n /\ f[m] # g[m]
    BY <2>1
  <2>3. m # 0
    BY <1>0, <1>00, <2>2
  <2>4. m - 1 \in 0 .. n /\ m - 1 \notin D
    <3>1. m - 1 \in 0 .. n /\ ~(m <= m - 1)
      BY <2>2, <2>3
    <3> HIDE DEF D
    <3> QED BY <2>1, <3>1
  <2>5. f[m - 1] = g[m - 1]
    BY <2>4
  <2>6. f[m] = s[f[m - 1]] /\ g[m] = s[g[m - 1]]
    BY <1>0, <1>00, <2>2, <2>3
  <2> QED BY <2>2, <2>5, <2>6
<1> QED BY <1>1, <1>2

LEMMA WalkAlongIs ==
  ASSUME NEW s, NEW n \in Nat, NEW h, NEW g,
         Follows(g, s, n, h)
  PROVE  WalkAlong(s, n, h) = Entries(g, n)
<1> DEFINE f == CHOOSE at : at = [k \in 0 .. n |-> IF k = 0 THEN h ELSE s[at[k - 1]]]
<1>1. Follows(f, s, n, h)
  <2>1. \E at : at = [k \in 0 .. n |-> IF k = 0 THEN h ELSE s[at[k - 1]]]
    BY DEF Follows
  <2> QED BY <2>1 DEF Follows
<1>2. f = g
  <2> HIDE DEF f
  <2> QED BY <1>1, OneWalk
<1>3. WalkAlong(s, n, h) = [k \in 1 .. n |-> f[k]]
  BY DEF WalkAlong
<1> QED BY <1>2, <1>3 DEF Entries

-----------------------------------------------------------------------------
\* a is the sequence r without the entry at place i.
Without(O, a, r, i) ==
  /\ a \in Seq(O) /\ Len(a) = Len(r) - 1
  /\ \A k \in 1 .. Len(r) - 1 : a[k] = r[IF k < i THEN k ELSE k + 1]

LEMMA RemoveAtProperties ==
  ASSUME NEW O, NEW r \in Seq(O), NEW i \in 1 .. Len(r)
  PROVE  Without(O, RemoveAt(r, i), r, i)
<1> PICK a : a = RemoveAt(r, i)
  OBVIOUS
<1> DEFINE front == SubSeq(r, 1, i - 1)
           back == SubSeq(r, i + 1, Len(r))
<1>1. /\ front \in Seq(O) /\ Len(front) = i - 1
      /\ \A k \in 1 .. i - 1 : front[k] = r[k]
  OBVIOUS
<1>2. /\ back \in Seq(O) /\ Len(back) = Len(r) - i
      /\ \A k \in 1 .. Len(r) - i : back[k] = r[k + i]
  OBVIOUS
<1>3. a = front \o back
  BY DEF RemoveAt
<1> HIDE DEF front, back
<1>4. /\ a \in Seq(O) /\ Len(a) = Len(front) + Len(back)
      /\ \A k \in 1 .. Len(front) : a[k] = front[k]
      /\ \A k \in Len(front) + 1 .. Len(front) + Len(back) : a[k] = back[k - Len(front)]
  <2>1. a \in Seq(O) /\ Len(a) = Len(front) + Len(back)
    BY <1>1, <1>2, <1>3, ConcatProperties
  <2>2. \A k \in 1 .. Len(front) : a[k] = front[k]
    BY <1>1, <1>2, <1>3, ConcatProperties
  <2>3. \A k \in Len(front) + 1 .. Len(front) + Len(back) : a[k] = back[k - Len(front)]
    BY <1>1, <1>2, <1>3, ConcatProperties
  <2> QED BY <2>1, <2>2, <2>3
<1>5. Len(a) = Len(r) - 1
  BY <1>1, <1>2, <1>4
<1>6. ASSUME NEW k \in 1 .. i - 1 PROVE a[k] = r[k]
  BY <1>1, <1>4
<1>7. ASSUME NEW k \in i .. Len(r) - 1 PROVE a[k] = r[k + 1]
  <2>1. k \in Len(front) + 1 .. Len(front) + Len(back)
    BY <1>1, <1>2
  <2>2. a[k] = back[k - (i - 1)]
    BY <1>1, <1>4, <2>1
  <2>3. k - (i - 1) \in 1 .. Len(r) - i
    OBVIOUS
  <2>4. back[k - (i - 1)] = r[(k - (i - 1)) + i]
    BY <1>2, <2>3
  <2> QED BY <2>2, <2>4
<1>8. ASSUME NEW k \in 1 .. Len(r) - 1 PROVE a[k] = r[IF k < i THEN k ELSE k + 1]
  <2>1. CASE k < i
    BY <1>6, <2>1
  <2>2. CASE ~(k < i)
    <3>1. k \in i .. Len(r) - 1
      BY <2>2
    <3> QED BY <1>7, <2>2, <3>1
  <2> QED BY <2>1, <2>2
<1> QED BY <1>4, <1>5, <1>8 DEF Without

\* Functions on the places of a walk: with a node behind place i, without the one
\* at place i; and what Contents makes of a walk.
Inserted(g, n, i, e) ==
  [k \in 0 .. n + 1 |-> IF k <= i THEN g[k] ELSE IF k = i + 1 THEN e ELSE g[k - 1]]
Removed(g, n, i) == [k \in 0 .. n - 1 |-> IF k < i THEN g[k] ELSE g[k + 1]]

LEMMA SameSeq ==
  ASSUME NEW O, NEW r \in Seq(O), NEW n \in Nat, Len(r) = n, NEW g,
         \A k \in 1 .. n : r[k] = g[k]
  PROVE  Entries(g, n) = r
  BY DEF Entries

LEMMA EntriesProperties ==
  ASSUME NEW O, NEW n \in Nat, NEW g, \A k \in 1 .. n : g[k] \in O
  PROVE  Entries(g, n) \in Seq(O) /\ Len(Entries(g, n)) = n
  BY DEF Entries

LEMMA InsertShifts ==
  ASSUME NEW O, NEW r \in Seq(O), NEW e \in O, NEW p \in 0 .. Len(r),
         NEW k \in p + 2 .. Len(r) + 1
  PROVE  InsertAt(r, p + 1, e)[k] = r[k - 1]
<1> PICK a : a = InsertAt(r, p + 1, e)
  OBVIOUS
<1>1. a[k] = r[k - 1]
  BY InsertProperties
<1> QED BY <1>1

LEMMA InsertedEntries ==
  ASSUME NEW O, NEW n \in Nat, NEW g, \A k \in 1 .. n : g[k] \in O,
         NEW i \in 0 .. n, NEW e \in O
  PROVE  Entries(Inserted(g, n, i, e), n + 1) = InsertAt(Entries(g, n), i + 1, e)
<1> PICK r : r = Entries(g, n)
  OBVIOUS
<1> PICK a : a = InsertAt(r, i + 1, e)
  OBVIOUS
<1> PICK h : h = Inserted(g, n, i, e)
  OBVIOUS
<1>1. r \in Seq(O) /\ Len(r) = n /\ \A k \in 1 .. n : r[k] = g[k]
  <2>1. Entries(g, n) \in Seq(O) /\ Len(Entries(g, n)) = n
    BY EntriesProperties
  <2>2. \A k \in 1 .. n : Entries(g, n)[k] = g[k]
    BY DEF Entries
  <2> QED BY <2>1, <2>2
<1>h. \A k \in 1 .. n + 1 : h[k] = IF k <= i THEN g[k] ELSE IF k = i + 1 THEN e ELSE g[k - 1]
  BY DEF Inserted
<1>2. /\ a \in Seq(O) /\ Len(a) = Len(r) + 1 /\ a[i + 1] = e
      /\ \A k \in 1 .. i : a[k] = r[k]
      /\ \A k \in i + 2 .. Len(r) + 1 : a[k] = r[k - 1]
  <2>0. i \in 0 .. Len(r)
    BY <1>1
  <2>1. a \in Seq(O) /\ Len(a) = Len(r) + 1 /\ a[i + 1] = e
    BY <1>1, <2>0, InsertProperties
  <2>2. ASSUME NEW k \in 1 .. i PROVE a[k] = r[k]
    BY <1>1, <2>0, InsertProperties
  <2>3. ASSUME NEW k \in i + 2 .. Len(r) + 1 PROVE a[k] = r[k - 1]
    BY <1>1, <2>0, InsertShifts
  <2> QED BY <2>1, <2>2, <2>3
<1>3. ASSUME NEW k \in 1 .. n + 1 PROVE a[k] = h[k]
  <2>1. CASE k <= i
    BY <1>1, <1>2, <1>h, <2>1
  <2>2. CASE k = i + 1
    BY <1>2, <1>h, <2>2
  <2>3. CASE k > i + 1
    <3>1. k \in i + 2 .. Len(r) + 1 /\ k - 1 \in 1 .. n
      BY <1>1, <2>3
    <3>2. a[k] = g[k - 1]
      BY <1>1, <1>2, <3>1
    <3>3. h[k] = g[k - 1]
      BY <1>h, <2>3
    <3> QED BY <3>2, <3>3
  <2> QED BY <2>1, <2>2, <2>3
<1>4. Len(a) = n + 1 /\ n + 1 \in Nat
  BY <1>1, <1>2
<1>5. Entries(h, n + 1) = a
  BY <1>2, <1>3, <1>4, SameSeq
<1> QED BY <1>5

LEMMA RemovedEntries ==
  ASSUME NEW O, NEW n \in Nat, NEW g, \A k \in 1 .. n : g[k] \in O,
         NEW i \in 1 .. n
  PROVE  Entries(Removed(g, n, i), n - 1) = RemoveAt(Entries(g, n), i)
<1> PICK r : r = Entries(g, n)
  OBVIOUS
<1> PICK a : a = RemoveAt(r, i)
  OBVIOUS
<1> PICK h : h = Removed(g, n, i)
  OBVIOUS
<1>1. r \in Seq(O) /\ Len(r) = n /\ \A k \in 1 .. n : r[k] = g[k]
  <2>1. Entries(g, n) \in Seq(O) /\ Len(Entries(g, n)) = n
    BY EntriesProperties
  <2>2. \A k \in 1 .. n : Entries(g, n)[k] = g[k]
    BY DEF Entries
  <2> QED BY <2>1, <2>2
<1>h. \A k \in 1 .. n - 1 : h[k] = IF k < i THEN g[k] ELSE g[k + 1]
  BY DEF Removed
<1>2. /\ a \in Seq(O) /\ Len(a) = Len(r) - 1
      /\ \A k \in 1 .. Len(r) - 1 : a[k] = r[IF k < i THEN k ELSE k + 1]
  <2>1. i \in 1 .. Len(r)
    BY <1>1
  <2>2. Without(O, a, r, i)
    BY <1>1, <2>1, RemoveAtProperties
  <2> QED BY <2>2 DEF Without
<1>3. ASSUME NEW k \in 1 .. n - 1 PROVE a[k] = h[k]
  <2>1. CASE k < i
    <3>1. k \in 1 .. i - 1 /\ k \in 1 .. n
      BY <2>1
    <3> QED BY <1>1, <1>2, <1>h, <2>1, <3>1
  <2>2. CASE ~(k < i)
    <3>1. k \in i .. Len(r) - 1 /\ k + 1 \in 1 .. n
      BY <1>1, <2>2
    <3>2. a[k] = g[k + 1]
      BY <1>1, <1>2, <3>1
    <3>3. h[k] = g[k + 1]
      BY <1>h, <2>2
    <3> QED BY <3>2, <3>3
  <2> QED BY <2>1, <2>2
<1>4. Len(a) = n - 1 /\ n - 1 \in Nat
  BY <1>1, <1>2
<1>5. Entries(h, n - 1) = a
  BY <1>2, <1>3, <1>4, SameSeq
<1> QED BY <1>5

\* The ends: where append, prepend and the pops work.
LEMMA EndsOfSeq ==
  ASSUME NEW O, NEW r \in Seq(O), NEW e \in O
  PROVE  /\ InsertAt(r, 1, e) = RingAppend(r, e)
         /\ InsertAt(r, Len(r) + 1, e) = RingPrepend(r, e)
         /\ r # <<>> => RemoveAt(r, 1) = Tail(r) /\ RemoveAt(r, Len(r)) = Front(r)
<1>1. InsertAt(r, 1, e) = RingAppend(r, e)
  BY DEF InsertAt, RingAppend
<1>2. InsertAt(r, Len(r) + 1, e) = RingPrepend(r, e)
  <2>1. SubSeq(r, 1, Len(r)) = r /\ SubSeq(r, Len(r) + 1, Len(r)) = <<>>
    OBVIOUS
  <2>2. (Len(r) + 1) - 1 = Len(r)
    OBVIOUS
  <2>3. InsertAt(r, Len(r) + 1, e) = r \o <<e>> \o <<>>
    BY <2>1, <2>2, Zenon DEF InsertAt
  <2>4. r \o <<e>> \o <<>> = Append(r, e)
    OBVIOUS
  <2> QED BY <2>3, <2>4 DEF RingPrepend
<1>3. r # <<>> => RemoveAt(r, 1) = Tail(r)
  BY DEF RemoveAt
<1>4. r # <<>> => RemoveAt(r, Len(r)) = Front(r)
  BY DEF RemoveAt, Front
<1> QED BY <1>1, <1>2, <1>3, <1>4

LEMMA DetachPlace ==
  ASSUME NEW O, NEW r \in Seq(O), NEW i \in 1 .. Len(r), NEW e, r[i] = e,
         \A j \in 1 .. Len(r) : r[j] = e => j = i
  PROVE  RingDetach(r, e) = RemoveAt(r, i)
  BY DEF RingDetach, ToSet

-----------------------------------------------------------------------------
\* g is a walk from the head h along succ: over n distinct entries, which are those
\* with the parent h, and back.
IsWalk(s, p, n, h, g) ==
  /\ n \in Nat /\ g \in [0 .. n -> Node]
  /\ g[0] = h
  /\ \A k \in 0 .. n : s[g[k]] = IF k = n THEN h ELSE g[k + 1]
  /\ \A k \in 1 .. n : g[k] \in Entry /\ p[g[k]] = h
  /\ \A j, k \in 0 .. n : g[j] = g[k] => j = k
  /\ \A e \in Entry : p[e] = h => \E k \in 1 .. n : g[k] = e

LEMMA WalkEntries ==
  ASSUME NEW h \in Heads, NEW s, NEW p, NEW n, NEW g, IsWalk(s, p, n, h, g)
  PROVE  WalkAlong(s, n, h) = Entries(g, n)
<1>1. /\ n \in Nat /\ g \in [0 .. n -> Node] /\ g[0] = h
      /\ \A k \in 0 .. n : s[g[k]] = IF k = n THEN h ELSE g[k + 1]
  BY DEF IsWalk
<1>2. ASSUME NEW k \in 0 .. n PROVE g[k] = IF k = 0 THEN h ELSE s[g[k - 1]]
  <2>1. CASE k = 0
    BY <1>1, <2>1
  <2>2. CASE k # 0
    <3>1. k - 1 \in 0 .. n /\ k - 1 # n /\ (k - 1) + 1 = k
      BY <1>1, <2>2
    <3> QED BY <1>1, <2>2, <3>1
  <2> QED BY <2>1, <2>2
<1>3. Follows(g, s, n, h)
  BY <1>1, <1>2 DEF Follows
<1> QED BY <1>1, <1>3, WalkAlongIs

LEMMA InsertWalk ==
  ASSUME NEW h \in Heads, NEW s, NEW p, NEW n, NEW g, IsWalk(s, p, n, h, g),
         NEW i \in 0 .. n, NEW e \in Entry, p[e] # h, NEW s2, NEW p2,
         s2[e] = s[g[i]], s2[g[i]] = e, \A x \in Node \ {e, g[i]} : s2[x] = s[x],
         p2[e] = h, \A x \in Node \ {e} : p2[x] = p[x]
  PROVE  IsWalk(s2, p2, n + 1, h, Inserted(g, n, i, e))
<1> PICK f : f = Inserted(g, n, i, e)
  OBVIOUS
<1>1. /\ n \in Nat /\ g \in [0 .. n -> Node]
      /\ g[0] = h
      /\ \A k \in 0 .. n : s[g[k]] = IF k = n THEN h ELSE g[k + 1]
      /\ \A k \in 1 .. n : g[k] \in Entry /\ p[g[k]] = h
      /\ \A j, k \in 0 .. n : g[j] = g[k] => j = k
      /\ \A x \in Entry : p[x] = h => \E k \in 1 .. n : g[k] = x
  BY DEF IsWalk
<1>2. \A k \in 0 .. n + 1 : f[k] = IF k <= i THEN g[k] ELSE IF k = i + 1 THEN e ELSE g[k - 1]
  BY DEF Inserted
<1>3. f \in [0 .. n + 1 -> Node]
  <2>1. DOMAIN f = 0 .. n + 1 /\ f = [k \in 0 .. n + 1 |-> f[k]]
    BY DEF Inserted
  <2>2. ASSUME NEW k \in 0 .. n + 1 PROVE f[k] \in Node
    BY <1>1, <1>2
  <2> QED BY <2>1, <2>2
<1>4. \A k \in 0 .. n : g[k] # e
  BY <1>1
<1>5. ASSUME NEW k \in 0 .. n + 1 PROVE s2[f[k]] = IF k = n + 1 THEN h ELSE f[k + 1]
  <2>1. CASE k < i
    <3>1. k \in 0 .. n /\ k # n /\ k # n + 1 /\ g[k] # g[i] /\ g[k] # e
      BY <1>1, <1>4, <2>1
    <3>2. f[k] = g[k] /\ f[k + 1] = g[k + 1]
      BY <1>1, <1>2, <2>1
    <3>3. g[k] \in Node
      BY <1>1, <3>1
    <3> QED BY <1>1, <3>1, <3>2, <3>3
  <2>2. CASE k = i
    <3>1. f[k] = g[i] /\ f[k + 1] = e /\ k # n + 1
      BY <1>1, <1>2, <2>2
    <3> QED BY <3>1
  <2>3. CASE k = i + 1
    <3>1. f[k] = e
      BY <1>1, <1>2, <2>3
    <3>2. k # n + 1 => f[k + 1] = g[i + 1] /\ i # n
      BY <1>1, <1>2, <2>3
    <3>3. k = n + 1 => i = n
      BY <1>1, <2>3
    <3>4. s[g[i]] = IF i = n THEN h ELSE g[i + 1]
      BY <1>1
    <3> QED BY <3>1, <3>2, <3>3, <3>4
  <2>4. CASE k > i + 1
    <3>1. k - 1 \in 0 .. n /\ g[k - 1] # g[i] /\ g[k - 1] # e /\ g[k - 1] \in Node
      BY <1>1, <1>4, <2>4
    <3>2. f[k] = g[k - 1]
      BY <1>1, <1>2, <2>4
    <3>3. k # n + 1 => f[k + 1] = g[k] /\ k - 1 # n
      BY <1>1, <1>2, <2>4
    <3>4. s2[f[k]] = s[g[k - 1]]
      BY <3>1, <3>2
    <3>5. s[g[k - 1]] = IF k - 1 = n THEN h ELSE g[(k - 1) + 1]
      BY <1>1, <3>1
    <3>6. (k - 1) + 1 = k /\ (k = n + 1 => k - 1 = n)
      BY <1>1
    <3> QED BY <3>3, <3>4, <3>5, <3>6
  <2> QED BY <1>1, <2>1, <2>2, <2>3, <2>4
<1>6. ASSUME NEW k \in 1 .. n + 1 PROVE f[k] \in Entry /\ p2[f[k]] = h
  <2>1. CASE k = i + 1
    BY <1>1, <1>2, <2>1
  <2>2. CASE k # i + 1
    <3>1. PICK j \in 1 .. n : f[k] = g[j]
      BY <1>1, <1>2, <2>2
    <3> QED BY <1>1, <1>4, <3>1
  <2> QED BY <2>1, <2>2
<1>7. ASSUME NEW j \in 0 .. n + 1, NEW k \in 0 .. n + 1, f[j] = f[k] PROVE j = k
  <2>1. CASE j = i + 1
    BY <1>1, <1>2, <1>4, <1>7, <2>1
  <2>2. CASE k = i + 1
    BY <1>1, <1>2, <1>4, <1>7, <2>2
  <2>3. CASE j # i + 1 /\ k # i + 1
    BY <1>1, <1>2, <1>7, <2>3
  <2> QED BY <2>1, <2>2, <2>3
<1>8. ASSUME NEW x \in Entry, p2[x] = h PROVE \E k \in 1 .. n + 1 : f[k] = x
  <2>1. CASE x = e
    <3>1. i + 1 \in 1 .. n + 1 /\ f[i + 1] = e
      BY <1>1, <1>2
    <3> QED BY <2>1, <3>1
  <2>2. CASE x # e
    <3>1. PICK k \in 1 .. n : g[k] = x
      BY <1>1, <1>8, <2>2
    <3>2. CASE k <= i
      <4>1. k \in 1 .. n + 1 /\ f[k] = g[k]
        BY <1>1, <1>2, <3>2
      <4> QED BY <3>1, <4>1
    <3>3. CASE ~(k <= i)
      <4>1. k + 1 \in 1 .. n + 1 /\ f[k + 1] = g[k]
        BY <1>1, <1>2, <3>3
      <4> QED BY <3>1, <4>1
    <3> QED BY <3>2, <3>3
  <2> QED BY <2>1, <2>2
<1>9. n + 1 \in Nat /\ f[0] = h
  BY <1>1, <1>2
<1>10. IsWalk(s2, p2, n + 1, h, f)
  BY <1>3, <1>5, <1>6, <1>7, <1>8, <1>9 DEF IsWalk
<1> QED BY <1>10

LEMMA RemoveWalk ==
  ASSUME NEW h \in Heads, NEW s, NEW p, NEW n, NEW g, IsWalk(s, p, n, h, g),
         NEW i \in 1 .. n, NEW s2, NEW p2,
         s2[g[i - 1]] = s[g[i]], \A x \in Node \ {g[i - 1], g[i]} : s2[x] = s[x],
         p2[g[i]] # h, \A x \in Node \ {g[i]} : p2[x] = p[x]
  PROVE  IsWalk(s2, p2, n - 1, h, Removed(g, n, i))
<1> PICK f : f = Removed(g, n, i)
  OBVIOUS
<1>1. /\ n \in Nat /\ g \in [0 .. n -> Node]
      /\ g[0] = h
      /\ \A k \in 0 .. n : s[g[k]] = IF k = n THEN h ELSE g[k + 1]
      /\ \A k \in 1 .. n : g[k] \in Entry /\ p[g[k]] = h
      /\ \A j, k \in 0 .. n : g[j] = g[k] => j = k
      /\ \A x \in Entry : p[x] = h => \E k \in 1 .. n : g[k] = x
  BY DEF IsWalk
<1>2. \A k \in 0 .. n - 1 : f[k] = IF k < i THEN g[k] ELSE g[k + 1]
  BY DEF Removed
<1>3. f \in [0 .. n - 1 -> Node]
  <2>1. DOMAIN f = 0 .. n - 1 /\ f = [k \in 0 .. n - 1 |-> f[k]]
    BY DEF Removed
  <2>2. ASSUME NEW k \in 0 .. n - 1 PROVE f[k] \in Node
    BY <1>1, <1>2
  <2> QED BY <2>1, <2>2
<1>5. ASSUME NEW k \in 0 .. n - 1 PROVE s2[f[k]] = IF k = n - 1 THEN h ELSE f[k + 1]
  <2>1. CASE k < i - 1
    <3>1. k \in 0 .. n /\ k # n /\ k # n - 1 /\ g[k] # g[i] /\ g[k] # g[i - 1] /\ g[k] \in Node
      BY <1>1, <2>1
    <3>2. f[k] = g[k] /\ f[k + 1] = g[k + 1]
      BY <1>1, <1>2, <2>1
    <3> QED BY <1>1, <3>1, <3>2
  <2>2. CASE k = i - 1
    <3>1. f[k] = g[i - 1]
      BY <1>1, <1>2, <2>2
    <3>2. s2[f[k]] = IF i = n THEN h ELSE g[i + 1]
      BY <1>1, <3>1
    <3>3. i = n <=> k = n - 1
      BY <1>1, <2>2
    <3>4. k # n - 1 => f[k + 1] = g[i + 1]
      BY <1>1, <1>2, <2>2
    <3> QED BY <3>2, <3>3, <3>4
  <2>3. CASE k > i - 1
    <3>1. k + 1 \in 0 .. n /\ g[k + 1] # g[i] /\ g[k + 1] # g[i - 1] /\ g[k + 1] \in Node
      BY <1>1, <2>3
    <3>2. f[k] = g[k + 1]
      BY <1>1, <1>2, <2>3
    <3>3. s2[f[k]] = s[g[k + 1]]
      BY <3>1, <3>2
    <3>4. s[g[k + 1]] = IF k + 1 = n THEN h ELSE g[(k + 1) + 1]
      BY <1>1, <3>1
    <3>5. k + 1 = n <=> k = n - 1
      BY <1>1
    <3>6. k # n - 1 => f[k + 1] = g[(k + 1) + 1]
      BY <1>1, <1>2, <2>3
    <3> QED BY <3>3, <3>4, <3>5, <3>6
  <2> QED BY <1>1, <2>1, <2>2, <2>3
<1>6. ASSUME NEW k \in 1 .. n - 1 PROVE f[k] \in Entry /\ p2[f[k]] = h
  <2>1. PICK j \in 1 .. n : f[k] = g[j] /\ j # i
    BY <1>1, <1>2
  <2>2. g[j] # g[i] /\ g[j] \in Node
    BY <1>1, <2>1
  <2>3. p2[g[j]] = p[g[j]]
    BY <2>2
  <2> QED BY <1>1, <2>1, <2>3
<1>7. ASSUME NEW j \in 0 .. n - 1, NEW k \in 0 .. n - 1, f[j] = f[k] PROVE j = k
  BY <1>1, <1>2, <1>7
<1>8. ASSUME NEW x \in Entry, p2[x] = h PROVE \E k \in 1 .. n - 1 : f[k] = x
  <2>1. x # g[i]
    BY <1>8
  <2>2. PICK k \in 1 .. n : g[k] = x
    BY <1>1, <1>8, <2>1
  <2>3. CASE k < i
    <3>1. k \in 1 .. n - 1 /\ f[k] = g[k]
      BY <1>1, <1>2, <2>3
    <3> QED BY <2>2, <3>1
  <2>4. CASE k > i
    <3>1. k - 1 \in 1 .. n - 1 /\ f[k - 1] = g[(k - 1) + 1] /\ (k - 1) + 1 = k
      BY <1>1, <1>2, <2>4
    <3> QED BY <2>2, <3>1
  <2> QED BY <2>1, <2>2, <2>3, <2>4
<1>9. n - 1 \in Nat /\ f[0] = h
  BY <1>1, <1>2
<1>10. IsWalk(s2, p2, n - 1, h, f)
  BY <1>3, <1>5, <1>6, <1>7, <1>8, <1>9 DEF IsWalk
<1> QED BY <1>10

-----------------------------------------------------------------------------
(* The two surgeries on the pointers, seen by the walk around the ring and by *)
(* the walks around the others.                                              *)

LEMMA LinkedWalk ==
  ASSUME NEW h \in Heads, NEW s \in [Node -> Node \cup {Null}],
         NEW p \in [Node -> Node \cup {Null}], NEW n, NEW g, IsWalk(s, p, n, h, g),
         NEW i \in 0 .. n, NEW e \in Entry, p[e] \in {Null, e}, NEW s2, NEW p2,
         s2 = [s EXCEPT ![e] = s[g[i]], ![g[i]] = e], p2 = [p EXCEPT ![e] = h]
  PROVE  IsWalk(s2, p2, n + 1, h, Inserted(g, n, i, e))
<1>1. g[i] \in Node /\ p[e] # h /\ e # g[i]
  BY DEF IsWalk
<1>2. /\ s2[e] = s[g[i]] /\ s2[g[i]] = e /\ p2[e] = h
      /\ \A x \in Node \ {e, g[i]} : s2[x] = s[x]
      /\ \A x \in Node \ {e} : p2[x] = p[x]
  BY <1>1
<1> QED BY <1>1, <1>2, InsertWalk

\* Nothing changes for the ring of k.
Apart(s, p, s2, p2, k) ==
  /\ p[k] = k
  /\ \A x \in Node : p[x] = k => s2[x] = s[x]
  /\ \A x \in Entry : p2[x] = k <=> p[x] = k

\* A walk stays one when the pointers of the entries it meets stay.
LEMMA SameWalk ==
  ASSUME NEW s, NEW p, NEW m, NEW f, NEW k \in Heads, IsWalk(s, p, m, k, f),
         NEW s2, NEW p2, Apart(s, p, s2, p2, k)
  PROVE  IsWalk(s2, p2, m, k, f)
<1>1. /\ f[0] = k /\ f \in [0 .. m -> Node] /\ m \in Nat
      /\ \A j \in 1 .. m : f[j] \in Entry /\ p[f[j]] = k
  BY DEF IsWalk
<1>a. /\ p[k] = k
      /\ \A x \in Node : p[x] = k => s2[x] = s[x]
      /\ \A x \in Entry : p2[x] = k <=> p[x] = k
  BY DEF Apart
<1>2. ASSUME NEW j \in 0 .. m PROVE s2[f[j]] = s[f[j]]
  <2>1. f[j] \in Node /\ p[f[j]] = k
    BY <1>1, <1>a
  <2> QED BY <1>a, <2>1
<1> QED BY <1>2, <1>a DEF IsWalk

LEMMA TakenWalk ==
  ASSUME NEW h \in Heads, NEW s \in [Node -> Node \cup {Null}],
         NEW p \in [Node -> Node \cup {Null}], NEW n, NEW g, IsWalk(s, p, n, h, g),
         NEW i \in 1 .. n, NEW e, e = g[i], NEW s2, NEW p2,
         s2 = [s EXCEPT ![g[i - 1]] = s[e], ![e] = e], p2 = [p EXCEPT ![e] = e]
  PROVE  IsWalk(s2, p2, n - 1, h, Removed(g, n, i))
<1>1. /\ n \in Nat /\ g \in [0 .. n -> Node] /\ \A j, k \in 0 .. n : g[j] = g[k] => j = k
      /\ e \in Entry
  BY DEF IsWalk
<1>2. i - 1 \in 0 .. n /\ i \in 0 .. n /\ i - 1 # i
  BY <1>1
<1>3. g[i - 1] \in Node /\ g[i - 1] # e /\ e # h
  BY <1>1, <1>2
<1>4. /\ s2[g[i - 1]] = s[g[i]] /\ p2[g[i]] # h
      /\ \A x \in Node \ {g[i - 1], g[i]} : s2[x] = s[x]
      /\ \A x \in Node \ {g[i]} : p2[x] = p[x]
  BY <1>1, <1>3
<1> QED BY <1>4, RemoveWalk

-----------------------------------------------------------------------------
Walk(h, g) == IsWalk(succ, parent, len[h], h, g)

\* Every ring can be walked once around: each entry whose parent is the head is met
\* once, and the head's length counts them.
Walks ==
  /\ len \in [Node -> Int]
  /\ \A h \in Heads : parent[h] = h /\ \E g : Walk(h, g)

WInv == RInv /\ Walks

LEMMA WalkContents ==
  ASSUME NEW h \in Heads, NEW g, Walk(h, g)
  PROVE  Contents(h) = Entries(g, len[h])
<1>1. Contents(h) = WalkAlong(succ, len[h], h)
  BY DEF Contents, WalkAlong
<1>2. WalkAlong(succ, len[h], h) = Entries(g, len[h])
  BY WalkEntries DEF Walk
<1> QED BY <1>1, <1>2

LEMMA WalkContentsNext ==
  ASSUME NEW h \in Heads, NEW g, IsWalk(succ', parent', len'[h], h, g)
  PROVE  Contents(h)' = Entries(g, len'[h])
<1>1. Contents(h)' = WalkAlong(succ', len'[h], h)
  BY DEF Contents, WalkAlong
<1>2. WalkAlong(succ', len'[h], h) = Entries(g, len'[h])
  BY WalkEntries
<1> QED BY <1>1, <1>2

LEMMA InitWInv == Init => WInv
<1> SUFFICES ASSUME Init PROVE WInv
  OBVIOUS
<1>1. RInv
  BY InitRInv
<1>2. len \in [Node -> Int] /\ \A n \in Node : len[n] = 0
  BY DEF Init
<1>3. ASSUME NEW h \in Heads PROVE parent[h] = h /\ succ[h] = h
  BY DEF Init
<1>4. ASSUME NEW h \in Heads, NEW e \in Entry PROVE parent[e] # h
  BY DEF Init
<1>5. ASSUME NEW h \in Heads PROVE \E g : Walk(h, g)
  <2>1. PICK g : g = [k \in 0 .. 0 |-> h]
    OBVIOUS
  <2>2. IsWalk(succ, parent, 0, h, g)
    BY <1>3, <1>4, <2>1 DEF IsWalk
  <2> QED BY <1>2, <2>2 DEF Walk
<1> QED BY <1>1, <1>2, <1>3, <1>5 DEF WInv, Walks

\* Linking e behind place i of the walk around h; i = 0 is the head itself.
LEMMA LinkEffect ==
  ASSUME WInv, NEW h \in Heads, NEW g, Walk(h, g), NEW i \in 0 .. len[h],
         NEW e \in Entry, Unlinked(e),
         succ' = [succ EXCEPT ![e] = succ[g[i]], ![g[i]] = e],
         parent' = [parent EXCEPT ![e] = h],
         len' = [len EXCEPT ![h] = @ + 1]
  PROVE  /\ Contents(h)' = InsertAt(Contents(h), i + 1, e)
         /\ Others(h)
         /\ Walks'
<1> DEFINE n == len[h]
<1>1. /\ n \in Nat /\ g \in [0 .. n -> Node] /\ g[0] = h
      /\ \A k \in 1 .. n : g[k] \in Entry /\ parent[g[k]] = h
  BY DEF Walk, IsWalk
<1>2. /\ succ \in [Node -> Node \cup {Null}] /\ parent \in [Node -> Node \cup {Null}]
      /\ len \in [Node -> Int]
      /\ \A k \in Heads : parent[k] = k
  BY DEF WInv, RInv, Pointers, Walks
<1>3. parent[e] # h /\ e # g[i] /\ g[i] \in Node
  BY <1>1 DEF Unlinked
<1>4. /\ succ'[e] = succ[g[i]] /\ succ'[g[i]] = e
      /\ \A x \in Node \ {e, g[i]} : succ'[x] = succ[x]
  BY <1>2, <1>3
<1>5. parent'[e] = h /\ \A x \in Node \ {e} : parent'[x] = parent[x]
  BY <1>2
<1>6. len' \in [Node -> Int] /\ len'[h] = n + 1 /\ \A x \in Node \ {h} : len'[x] = len[x]
  BY <1>2
<1>7. IsWalk(succ', parent', n + 1, h, Inserted(g, n, i, e))
  <2>1. IsWalk(succ, parent, n, h, g)
    BY DEF Walk
  <2> HIDE DEF n
  <2>2. i \in 0 .. n /\ parent[e] \in {Null, e}
    BY DEF n, Unlinked
  <2> QED BY <1>2, <2>1, <2>2, LinkedWalk
<1>8. ASSUME NEW k \in Heads \ {h}, NEW f, Walk(k, f)
      PROVE  IsWalk(succ', parent', len'[k], k, f)
  <2>1. IsWalk(succ, parent, len[k], k, f)
    BY <1>8 DEF Walk
  <2>2. parent[g[i]] = h /\ parent[k] = k /\ parent[e] \in {Null, e}
    BY <1>1, <1>2 DEF Unlinked
  <2>3. \A x \in Node : parent[x] = k => succ'[x] = succ[x]
    BY <1>4, <2>2
  <2>4. \A x \in Entry : parent'[x] = k <=> parent[x] = k
    BY <1>5, <2>2
  <2>5. k \in Heads /\ Apart(succ, parent, succ', parent', k)
    BY <2>2, <2>3, <2>4 DEF Apart
  <2>7. IsWalk(succ', parent', len[k], k, f)
    BY <2>1, <2>5, SameWalk
  <2>6. len'[k] = len[k]
    BY <1>6
  <2> QED BY <2>6, <2>7
<1>9. Contents(h) = Entries(g, n)
  BY WalkContents
<1>10. Contents(h)' = Entries(Inserted(g, n, i, e), n + 1)
  <2>1. len'[h] = n + 1
    BY <1>6
  <2>2. IsWalk(succ', parent', len'[h], h, Inserted(g, n, i, e))
    BY <1>7, <2>1
  <2>3. Contents(h)' = Entries(Inserted(g, n, i, e), len'[h])
    BY <2>2, WalkContentsNext
  <2> QED BY <2>1, <2>3
<1>11. Entries(Inserted(g, n, i, e), n + 1) = InsertAt(Entries(g, n), i + 1, e)
  <2> HIDE DEF n
  <2>1. i \in 0 .. n /\ \A k \in 1 .. n : g[k] \in Entry
    BY <1>1 DEF n
  <2> QED BY <1>1, <2>1, InsertedEntries
<1>12. ASSUME NEW k \in Heads \ {h} PROVE Contents(k)' = Contents(k) /\ \E f : IsWalk(succ', parent', len'[k], k, f)
  <2>1. PICK f : Walk(k, f)
    BY DEF WInv, Walks
  <2>2. IsWalk(succ', parent', len'[k], k, f) /\ len'[k] = len[k]
    BY <1>6, <1>8, <2>1
  <2>3. Contents(k) = Entries(f, len[k])
    BY <2>1, WalkContents
  <2>4. Contents(k)' = Entries(f, len'[k])
    BY <2>2, WalkContentsNext
  <2> QED BY <2>2, <2>3, <2>4
<1>13. Others(h)
  BY <1>12 DEF Others
<1>14. ASSUME NEW k \in Heads PROVE parent'[k] = k /\ \E f : IsWalk(succ', parent', len'[k], k, f)
  <2>1. parent'[k] = k
    BY <1>2, <1>5
  <2>2. CASE k = h
    <3>1. IsWalk(succ', parent', len'[k], k, Inserted(g, n, i, e))
      BY <1>6, <1>7, <2>2
    <3> QED BY <2>1, <3>1
  <2>3. CASE k # h
    BY <1>12, <2>1, <2>3
  <2> QED BY <2>2, <2>3
<1>15. Walks'
  BY <1>6, <1>14 DEF Walks, Walk
<1> QED BY <1>9, <1>10, <1>11, <1>13, <1>15

\* Taking out the entry at place i of the walk around h.
LEMMA TakeOutEffect ==
  ASSUME WInv, NEW h \in Heads, NEW g, Walk(h, g), NEW i \in 1 .. len[h], NEW e, e = g[i],
         succ' = [succ EXCEPT ![g[i - 1]] = succ[e], ![e] = e],
         parent' = [parent EXCEPT ![e] = e],
         len' = [len EXCEPT ![h] = @ - 1, ![e] = 0]
  PROVE  /\ Contents(h)' = RemoveAt(Contents(h), i)
         /\ Others(h)
         /\ Walks'
<1> DEFINE n == len[h]
<1>1. /\ n \in Nat /\ g \in [0 .. n -> Node] /\ g[0] = h
      /\ \A k \in 1 .. n : g[k] \in Entry /\ parent[g[k]] = h
      /\ \A j, k \in 0 .. n : g[j] = g[k] => j = k
  BY DEF Walk, IsWalk
<1>2. /\ succ \in [Node -> Node \cup {Null}] /\ parent \in [Node -> Node \cup {Null}]
      /\ len \in [Node -> Int]
      /\ \A k \in Heads : parent[k] = k
  BY DEF WInv, RInv, Pointers, Walks
<1>3. e \in Entry /\ parent[e] = h /\ i - 1 \in 0 .. n /\ g[i - 1] \in Node /\ g[i - 1] # e
  BY <1>1
<1>4. /\ succ'[g[i - 1]] = succ[e]
      /\ \A x \in Node \ {g[i - 1], e} : succ'[x] = succ[x]
  BY <1>2, <1>3
<1>5. parent'[e] = e /\ \A x \in Node \ {e} : parent'[x] = parent[x]
  BY <1>2, <1>3
<1>6. len' \in [Node -> Int] /\ len'[h] = n - 1 /\ \A x \in Node \ {h, e} : len'[x] = len[x]
  BY <1>2, <1>3
<1>7. IsWalk(succ', parent', n - 1, h, Removed(g, n, i))
  <2>1. IsWalk(succ, parent, n, h, g)
    BY DEF Walk
  <2> HIDE DEF n
  <2>2. i \in 1 .. n
    BY DEF n
  <2> QED BY <1>2, <2>1, <2>2, TakenWalk
<1>8. ASSUME NEW k \in Heads \ {h}, NEW f, Walk(k, f)
      PROVE  IsWalk(succ', parent', len'[k], k, f)
  <2>1. IsWalk(succ, parent, len[k], k, f)
    BY <1>8 DEF Walk
  <2>2. parent[g[i - 1]] = h /\ parent[k] = k
    <3>1. i - 1 = 0 \/ i - 1 \in 1 .. n
      BY <1>1
    <3> QED BY <1>1, <1>2, <3>1
  <2>3. \A x \in Node : parent[x] = k => succ'[x] = succ[x]
    BY <1>3, <1>4, <2>2
  <2>4. \A x \in Entry : parent'[x] = k <=> parent[x] = k
    BY <1>3, <1>5, <2>2
  <2>5. k \in Heads /\ Apart(succ, parent, succ', parent', k)
    BY <2>2, <2>3, <2>4 DEF Apart
  <2>7. IsWalk(succ', parent', len[k], k, f)
    BY <2>1, <2>5, SameWalk
  <2>6. len'[k] = len[k]
    BY <1>3, <1>6
  <2> QED BY <2>6, <2>7
<1>9. Contents(h) = Entries(g, n)
  BY WalkContents
<1>10. Contents(h)' = Entries(Removed(g, n, i), n - 1)
  <2>1. len'[h] = n - 1
    BY <1>6
  <2>2. IsWalk(succ', parent', len'[h], h, Removed(g, n, i))
    BY <1>7, <2>1
  <2>3. Contents(h)' = Entries(Removed(g, n, i), len'[h])
    BY <2>2, WalkContentsNext
  <2> QED BY <2>1, <2>3
<1>11. Entries(Removed(g, n, i), n - 1) = RemoveAt(Entries(g, n), i)
  <2> HIDE DEF n
  <2>1. i \in 1 .. n /\ n \in Nat /\ \A k \in 1 .. n : g[k] \in Entry
    BY <1>1 DEF n
  <2> QED BY <2>1, RemovedEntries
<1>12. ASSUME NEW k \in Heads \ {h} PROVE Contents(k)' = Contents(k) /\ \E f : IsWalk(succ', parent', len'[k], k, f)
  <2>1. PICK f : Walk(k, f)
    BY DEF WInv, Walks
  <2>2. IsWalk(succ', parent', len'[k], k, f) /\ len'[k] = len[k]
    <3>1. len'[k] = len[k]
      BY <1>3, <1>6
    <3>2. IsWalk(succ', parent', len'[k], k, f)
      BY <1>8, <2>1
    <3> QED BY <3>1, <3>2
  <2>3. Contents(k) = Entries(f, len[k])
    BY <2>1, WalkContents
  <2>4. Contents(k)' = Entries(f, len'[k])
    BY <2>2, WalkContentsNext
  <2> QED BY <2>2, <2>3, <2>4
<1>13. Others(h)
  BY <1>12 DEF Others
<1>14. ASSUME NEW k \in Heads PROVE parent'[k] = k /\ \E f : IsWalk(succ', parent', len'[k], k, f)
  <2>1. parent'[k] = k
    BY <1>2, <1>3, <1>5
  <2>2. CASE k = h
    <3>1. IsWalk(succ', parent', len'[k], k, Removed(g, n, i))
      BY <1>6, <1>7, <2>2
    <3> QED BY <2>1, <3>1
  <2>3. CASE k # h
    BY <1>12, <2>1, <2>3
  <2> QED BY <2>2, <2>3
<1>15. Walks'
  BY <1>6, <1>14 DEF Walks, Walk
<1> QED BY <1>9, <1>10, <1>11, <1>13, <1>15

-----------------------------------------------------------------------------
(* What the calls do to the walks.                                           *)

\* Contents as a sequence, entry by entry.
LEMMA ContentsOfWalk ==
  ASSUME NEW h \in Heads, NEW g, Walk(h, g)
  PROVE  /\ Contents(h) \in Seq(Entry) /\ Len(Contents(h)) = len[h] /\ len[h] \in Nat
         /\ \A k \in 1 .. len[h] : Contents(h)[k] = g[k]
<1> PICK n : n = len[h]
  OBVIOUS
<1>1. n \in Nat /\ \A k \in 1 .. n : g[k] \in Entry
  BY DEF Walk, IsWalk
<1>2. Contents(h) = Entries(g, n)
  BY WalkContents
<1>3. Entries(g, n) \in Seq(Entry) /\ Len(Entries(g, n)) = n
  BY <1>1, EntriesProperties
<1>4. \A k \in 1 .. n : Entries(g, n)[k] = g[k]
  BY DEF Entries
<1> QED BY <1>1, <1>2, <1>3, <1>4

\* A place of a walk: its node points to the next, and is pointed to by it.
LEMMA WalkPlace ==
  ASSUME WInv, NEW h \in Heads, NEW g, Walk(h, g), NEW i \in 0 .. len[h]
  PROVE  /\ g[i] \in Node /\ parent[g[i]] = h
         /\ succ[g[i]] = IF i = len[h] THEN h ELSE g[i + 1]
         /\ succ[g[i]] \in Node /\ pred[succ[g[i]]] = g[i]
         /\ (i # 0 => g[i] \in Entry) /\ (i = 0 => g[i] = h)
<1> PICK n : n = len[h]
  OBVIOUS
<1>1. /\ n \in Nat /\ g \in [0 .. n -> Node] /\ g[0] = h
      /\ \A k \in 1 .. n : g[k] \in Entry /\ parent[g[k]] = h
      /\ \A k \in 0 .. n : succ[g[k]] = IF k = n THEN h ELSE g[k + 1]
  BY DEF Walk, IsWalk
<1>2. parent[h] = h
  BY DEF WInv, Walks
<1>3. g[i] \in Node /\ parent[g[i]] = h /\ (i # 0 => g[i] \in Entry)
  <2>1. CASE i = 0
    BY <1>1, <1>2, <2>1
  <2>2. CASE i # 0
    <3>1. i \in 1 .. n
      BY <1>1, <2>2
    <3> QED BY <1>1, <3>1
  <2> QED BY <2>1, <2>2
<1>4. succ[g[i]] = IF i = n THEN h ELSE g[i + 1]
  BY <1>1
<1>5. succ[g[i]] \in Node
  <2>1. i # n => i + 1 \in 0 .. n
    BY <1>1
  <2> QED BY <1>1, <1>4, <2>1
<1>6. pred[succ[g[i]]] = g[i]
  BY <1>3, <1>5 DEF WInv, RInv, Closed
<1> QED BY <1>1, <1>3, <1>4, <1>5, <1>6

\* ring_append behind place i.
LEMMA LinkBehindWalk ==
  ASSUME WInv, NEW h \in Heads, NEW g, Walk(h, g), NEW i \in 0 .. len[h],
         NEW e \in Entry, NEW at, at = g[i], LinkBehind(at, e)
  PROVE  Contents(h)' = InsertAt(Contents(h), i + 1, e) /\ Others(h) /\ Walks'
<1>1. parent[at] = h
  BY WalkPlace
<1>2. /\ Unlinked(e)
      /\ succ' = [succ EXCEPT ![e] = succ[g[i]], ![g[i]] = e]
      /\ parent' = [parent EXCEPT ![e] = h]
      /\ len' = [len EXCEPT ![h] = @ + 1]
  BY <1>1 DEF LinkBehind
<1> QED BY <1>2, LinkEffect

\* ring_prepend: behind the last place.
LEMMA LinkBeforeWalk ==
  ASSUME WInv, NEW h \in Heads, NEW e \in Entry, LinkBefore(h, e)
  PROVE  Contents(h)' = RingPrepend(Contents(h), e) /\ Others(h) /\ Walks'
<1>1. PICK g : Walk(h, g)
  BY DEF WInv, Walks
<1> PICK n : n = len[h]
  OBVIOUS
<1>2. Contents(h) \in Seq(Entry) /\ Len(Contents(h)) = n /\ n \in Nat
  BY <1>1, ContentsOfWalk
<1>3. n \in 0 .. len[h]
  BY <1>2
<1>4. succ[g[n]] = h /\ pred[h] = g[n]
  <2>1. succ[g[n]] = h /\ pred[succ[g[n]]] = g[n]
    BY <1>1, <1>3, WalkPlace
  <2> QED BY <2>1
<1>5. /\ Unlinked(e)
      /\ succ' = [succ EXCEPT ![e] = succ[g[n]], ![g[n]] = e]
      /\ parent' = [parent EXCEPT ![e] = h]
      /\ len' = [len EXCEPT ![h] = @ + 1]
  BY <1>4 DEF LinkBefore, WInv, Walks
<1>6. Contents(h)' = InsertAt(Contents(h), n + 1, e) /\ Others(h) /\ Walks'
  BY <1>1, <1>3, <1>5, LinkEffect
<1>7. InsertAt(Contents(h), n + 1, e) = RingPrepend(Contents(h), e)
  BY <1>2, EndsOfSeq
<1> QED BY <1>6, <1>7

\* ring_append behind the head.
LEMMA LinkHeadWalk ==
  ASSUME WInv, NEW h \in Heads, NEW e \in Entry, LinkBehind(h, e)
  PROVE  Contents(h)' = RingAppend(Contents(h), e) /\ Others(h) /\ Walks'
<1>1. PICK g : Walk(h, g)
  BY DEF WInv, Walks
<1>2. Contents(h) \in Seq(Entry) /\ len[h] \in Nat
  BY <1>1, ContentsOfWalk
<1> PICK i : i = 0
  OBVIOUS
<1>3. i \in 0 .. len[h] /\ h = g[i]
  BY <1>1, <1>2 DEF Walk, IsWalk
<1>4. Contents(h)' = InsertAt(Contents(h), i + 1, e) /\ Others(h) /\ Walks'
  BY <1>1, <1>3, LinkBehindWalk
<1>5. InsertAt(Contents(h), 1, e) = RingAppend(Contents(h), e)
  BY <1>2, EndsOfSeq
<1>6. i + 1 = 1
  OBVIOUS
<1> QED BY <1>4, <1>5, <1>6, Zenon

\* Every node in a ring is at a place of the walk around it.
LEMMA PlaceOfNode ==
  ASSUME WInv, NEW at \in Node, parent[at] \in Heads
  PROVE  \E g : \E i \in 0 .. len[parent[at]] : Walk(parent[at], g) /\ g[i] = at
<1> PICK h \in Heads : h = parent[at]
  OBVIOUS
<1>1. PICK g : Walk(h, g)
  BY DEF WInv, Walks
<1> PICK n : n = len[h]
  OBVIOUS
<1>2. n \in Nat /\ g[0] = h /\ \A e \in Entry : parent[e] = h => \E k \in 1 .. n : g[k] = e
  BY <1>1 DEF Walk, IsWalk
<1>3. \E i \in 0 .. n : g[i] = at
  <2>1. CASE at \in Heads
    <3>1. at = h
      BY <2>1 DEF WInv, Walks
    <3>2. 0 \in 0 .. n
      BY <1>2
    <3> QED BY <1>2, <3>1, <3>2
  <2>2. CASE at \in Entry
    <3>1. PICK k \in 1 .. n : g[k] = at
      BY <1>2, <2>2
    <3> QED BY <1>2, <3>1
  <2> QED BY <2>1, <2>2
<1> QED BY <1>1, <1>3

LEMMA LinkAnyWalk ==
  ASSUME WInv, NEW at \in Node, NEW e \in Entry, LinkBehind(at, e)
  PROVE  Walks'
<1>1. parent[at] \in Heads
  <2>1. CASE at \in Heads
    BY <2>1 DEF WInv, Walks
  <2>2. CASE ~Unlinked(at)
    BY <2>2 DEF Unlinked, WInv, RInv, HeadIsParent
  <2> QED BY <2>1, <2>2 DEF LinkBehind, Place
<1> PICK h \in Heads : h = parent[at]
  BY <1>1
<1>2. PICK g : \E i \in 0 .. len[h] : Walk(h, g) /\ g[i] = at
  BY <1>1, PlaceOfNode
<1>3. PICK i \in 0 .. len[h] : Walk(h, g) /\ at = g[i]
  BY <1>2
<1> QED BY <1>3, LinkBehindWalk

\* ring_detach of the entry at place i.
LEMMA DetachWalk ==
  ASSUME WInv, NEW h \in Heads, NEW g, Walk(h, g), NEW i \in 1 .. len[h],
         NEW e, e = g[i], Detach(e)
  PROVE  Contents(h)' = RemoveAt(Contents(h), i) /\ Others(h) /\ Walks'
<1>1. len[h] \in Nat
  BY ContentsOfWalk
<1>2. i \in 0 .. len[h] /\ i # 0 /\ i - 1 \in 0 .. len[h] /\ i - 1 # len[h] /\ (i - 1) + 1 = i
  BY <1>1
<1>3. e \in Entry /\ parent[e] = h /\ succ[e] \in Node
  BY <1>2, WalkPlace
<1> PICK j : j = i - 1
  OBVIOUS
<1>4. g[j] \in Node /\ succ[g[j]] = e /\ pred[succ[g[j]]] = g[j]
  <2>1. g[j] \in Node /\ pred[succ[g[j]]] = g[j]
    BY <1>2, WalkPlace
  <2>2. succ[g[j]] = IF j = len[h] THEN h ELSE g[j + 1]
    BY <1>2, WalkPlace
  <2> QED BY <1>2, <2>1, <2>2
<1>5. pred[e] = g[i - 1] /\ pred[e] # Null /\ succ[e] # Null /\ parent[e] # e
  BY <1>3, <1>4
<1>6. /\ succ' = [succ EXCEPT ![g[i - 1]] = succ[e], ![e] = e]
      /\ parent' = [parent EXCEPT ![e] = e]
      /\ len' = [len EXCEPT ![h] = @ - 1, ![e] = 0]
  BY <1>3, <1>5 DEF Detach
<1> QED BY <1>6, TakeOutEffect

\* ring_detach of what is in no ring.
LEMMA DetachNone ==
  ASSUME WInv, NEW e \in Entry, Detach(e), parent[e] \notin Heads
  PROVE  UNCHANGED rvars
<1>1. parent[e] \in {e, Null}
  BY DEF WInv, RInv, HeadIsParent
<1>2. parent[e] = e \/ succ[e] = Null
  BY <1>1 DEF WInv, RInv, Own
<1> QED BY <1>2 DEF Detach

LEMMA SameContents ==
  ASSUME UNCHANGED rvars, NEW h PROVE Contents(h)' = Contents(h)
  BY DEF rvars, Contents

\* An entry is only in the ring of its parent.
LEMMA InOwnRing ==
  ASSUME WInv, NEW h \in Heads, NEW e, parent[e] # h
  PROVE  RingDetach(Contents(h), e) = Contents(h)
<1>1. PICK g : Walk(h, g)
  BY DEF WInv, Walks
<1> PICK n : n = len[h]
  OBVIOUS
<1>2. /\ Contents(h) \in Seq(Entry) /\ Len(Contents(h)) = n /\ n \in Nat
      /\ \A k \in 1 .. n : Contents(h)[k] = g[k]
  BY <1>1, ContentsOfWalk
<1>3. \A k \in 1 .. n : parent[g[k]] = h
  BY <1>1 DEF Walk, IsWalk
<1>4. \A k \in DOMAIN Contents(h) : Contents(h)[k] # e
  <2>1. DOMAIN Contents(h) = 1 .. n
    BY <1>2
  <2> QED BY <1>2, <1>3, <2>1
<1>5. e \notin ToSet(Contents(h))
  <2> HIDE DEF Contents
  <2> QED BY <1>4 DEF ToSet
<1> QED BY <1>5 DEF RingDetach

LEMMA DetachAnyWalk ==
  ASSUME WInv, NEW e \in Entry, Detach(e)
  PROVE  Walks' /\ \A h \in Heads : Contents(h)' = RingDetach(Contents(h), e)
<1>1. CASE parent[e] \notin Heads
  <2>1. UNCHANGED rvars
    BY <1>1, DetachNone
  <2>2. Walks'
    BY <2>1 DEF WInv, Walks, Walk, rvars
  <2>3. ASSUME NEW h \in Heads PROVE Contents(h)' = RingDetach(Contents(h), e)
    <3>1. Contents(h)' = Contents(h)
      BY <2>1, SameContents
    <3>2. RingDetach(Contents(h), e) = Contents(h)
      BY <1>1, InOwnRing
    <3> QED BY <3>1, <3>2
  <2> QED BY <2>2, <2>3
<1>2. CASE parent[e] \in Heads
  <2> PICK p \in Heads : p = parent[e]
    BY <1>2
  <2>1. PICK g : \E i \in 0 .. len[p] : Walk(p, g) /\ g[i] = e
    BY <1>2, PlaceOfNode
  <2>2. PICK i \in 0 .. len[p] : Walk(p, g) /\ e = g[i]
    BY <2>1
  <2> PICK n : n = len[p]
    OBVIOUS
  <2>3. /\ Contents(p) \in Seq(Entry) /\ Len(Contents(p)) = n /\ n \in Nat
        /\ \A k \in 1 .. n : Contents(p)[k] = g[k]
    BY <2>2, ContentsOfWalk
  <2>4. i # 0 /\ i \in 1 .. n
    <3>1. i # 0
      BY <2>2 DEF Walk, IsWalk
    <3> QED BY <2>3, <3>1
  <2>5. Contents(p)' = RemoveAt(Contents(p), i) /\ Others(p) /\ Walks'
    BY <2>2, <2>4, DetachWalk
  <2>6. RingDetach(Contents(p), e) = RemoveAt(Contents(p), i)
    <3>1. \A j, k \in 0 .. n : g[j] = g[k] => j = k
      BY <2>2 DEF Walk, IsWalk
    <3> PICK r : r = Contents(p)
      OBVIOUS
    <3>2. r \in Seq(Entry) /\ i \in 1 .. Len(r) /\ r[i] = e
      BY <2>2, <2>3, <2>4
    <3>3. \A j \in 1 .. Len(r) : r[j] = e => j = i
      BY <2>2, <2>3, <2>4, <3>1
    <3>4. RingDetach(r, e) = RemoveAt(r, i)
      BY <3>2, <3>3, DetachPlace
    <3> QED BY <3>4
  <2>7. ASSUME NEW h \in Heads PROVE Contents(h)' = RingDetach(Contents(h), e)
    <3>1. CASE h = p
      BY <2>5, <2>6, <3>1
    <3>2. CASE h # p
      <4>1. Contents(h)' = Contents(h)
        BY <2>5, <3>2 DEF Others
      <4>2. RingDetach(Contents(h), e) = Contents(h)
        BY <3>2, InOwnRing
      <4> QED BY <4>1, <4>2
    <3> QED BY <3>1, <3>2
  <2> QED BY <2>5, <2>7
<1> QED BY <1>1, <1>2

\* ring_pop_head takes the entry at the first place,
LEMMA PopHeadWalk ==
  ASSUME WInv, NEW h \in Heads, PopHead(h)
  PROVE  Contents(h)' = Tail(Contents(h)) /\ Others(h) /\ Walks'
<1>1. PICK g : Walk(h, g)
  BY DEF WInv, Walks
<1> PICK n : n = len[h]
  OBVIOUS
<1>2. Contents(h) \in Seq(Entry) /\ Len(Contents(h)) = n /\ n \in Nat
  BY <1>1, ContentsOfWalk
<1> PICK z : z = 0
  OBVIOUS
<1>3. succ[h] = IF n = 0 THEN h ELSE g[1]
  <2>1. z \in 0 .. len[h] /\ z + 1 = 1
    BY <1>2
  <2>2. succ[g[z]] = IF z = len[h] THEN h ELSE g[z + 1]
    BY <1>1, <2>1, WalkPlace
  <2>3. g[z] = h
    BY <1>1, <2>1, WalkPlace
  <2> QED BY <2>1, <2>2, <2>3
<1>4. n # 0 /\ Detach(g[1])
  BY <1>3 DEF PopHead
<1>5. 1 \in 1 .. len[h] /\ Contents(h) # <<>>
  BY <1>2, <1>4
<1>6. Contents(h)' = RemoveAt(Contents(h), 1) /\ Others(h) /\ Walks'
  BY <1>1, <1>4, <1>5, DetachWalk
<1>7. RemoveAt(Contents(h), 1) = Tail(Contents(h))
  BY <1>2, <1>5, EndsOfSeq
<1> QED BY <1>6, <1>7

\* and ring_pop_tail the one at the last.
LEMMA PopTailWalk ==
  ASSUME WInv, NEW h \in Heads, PopTail(h)
  PROVE  Contents(h)' = Front(Contents(h)) /\ Others(h) /\ Walks'
<1>1. PICK g : Walk(h, g)
  BY DEF WInv, Walks
<1> PICK n : n = len[h]
  OBVIOUS
<1>2. Contents(h) \in Seq(Entry) /\ Len(Contents(h)) = n /\ n \in Nat
  BY <1>1, ContentsOfWalk
<1>3. n \in 0 .. len[h]
  BY <1>2
<1>4. pred[h] = g[n] /\ (n = 0 => g[n] = h)
  <2>1. succ[g[n]] = h /\ pred[succ[g[n]]] = g[n]
    BY <1>1, <1>3, WalkPlace
  <2>2. n = 0 => g[n] = h
    BY <1>1, <1>3, WalkPlace
  <2> QED BY <2>1, <2>2
<1>5. n # 0 /\ Detach(g[n])
  BY <1>4 DEF PopTail
<1>6. n \in 1 .. len[h] /\ Contents(h) # <<>>
  BY <1>2, <1>5
<1>7. Contents(h)' = RemoveAt(Contents(h), n) /\ Others(h) /\ Walks'
  BY <1>1, <1>5, <1>6, DetachWalk
<1>8. RemoveAt(Contents(h), Len(Contents(h))) = Front(Contents(h))
  BY <1>2, <1>6, EndsOfSeq
<1> QED BY <1>2, <1>7, <1>8

LEMMA NextWInv == WInv /\ [Next]_rvars => WInv'
<1> SUFFICES ASSUME WInv, [Next]_rvars PROVE Walks'
  BY NextRInv DEF WInv
<1>1. ASSUME NEW e \in Entry, Detach(e) PROVE Walks'
  BY <1>1, DetachAnyWalk
<1>2. ASSUME NEW e \in Entry, NEW at \in Node, LinkBehind(at, e) PROVE Walks'
  BY <1>2, LinkAnyWalk
<1>3. ASSUME NEW h \in Heads, PopHead(h) PROVE Walks'
  BY <1>3, PopHeadWalk
<1>4. ASSUME NEW h \in Heads, PopTail(h) PROVE Walks'
  BY <1>4, PopTailWalk
<1>5. ASSUME NEW h \in Heads, NEW e \in Entry, LinkBefore(h, e) PROVE Walks'
  BY <1>5, LinkBeforeWalk
<1>6. CASE UNCHANGED rvars
  BY <1>6 DEF WInv, Walks, Walk, rvars
<1> QED BY <1>1, <1>2, <1>3, <1>4, <1>5, <1>6 DEF Next

\* ring_append behind the entry at place i, as ct_corthread_delay does it.
LEMMA LinkEntryWalk ==
  ASSUME WInv, NEW h \in Heads, NEW e \in Entry, NEW i \in DOMAIN Contents(h),
         LinkBehind(Contents(h)[i], e)
  PROVE  Contents(h)' = InsertAt(Contents(h), i + 1, e) /\ Others(h)
<1>1. PICK g : Walk(h, g)
  BY DEF WInv, Walks
<1>2. /\ Contents(h) \in Seq(Entry) /\ Len(Contents(h)) = len[h] /\ len[h] \in Nat
      /\ \A k \in 1 .. len[h] : Contents(h)[k] = g[k]
  BY <1>1, ContentsOfWalk
<1>3. i \in 1 .. len[h]
  BY <1>2
<1> PICK at : at = Contents(h)[i]
  OBVIOUS
<1>4. i \in 0 .. len[h] /\ at = g[i] /\ LinkBehind(at, e)
  BY <1>2, <1>3
<1> QED BY <1>1, <1>4, LinkBehindWalk

\* For any number of rings and entries each call of circle.c does to the sequence of
\* a ring's entries what the operator of RingSeq says, and nothing to other rings.
THEOREM RingsAreSequences == Spec => ImplementsRingSeq
<1> DEFINE Does(e, h) ==
        /\ LinkBehind(h, e) => Contents(h)' = RingAppend(Contents(h), e) /\ Others(h)
        /\ LinkBefore(h, e) => Contents(h)' = RingPrepend(Contents(h), e) /\ Others(h)
        /\ \A i \in DOMAIN Contents(h) :
             LinkBehind(Contents(h)[i], e) =>
               Contents(h)' = InsertAt(Contents(h), i + 1, e) /\ Others(h)
        /\ Detach(e) => Contents(h)' = RingDetach(Contents(h), e)
        /\ PopHead(h) => Contents(h)' = Tail(Contents(h)) /\ Others(h)
        /\ PopTail(h) => Contents(h)' = Front(Contents(h)) /\ Others(h)
<1>1. ASSUME WInv, NEW e \in Entry, NEW h \in Heads PROVE Does(e, h)
  <2>1. LinkBehind(h, e) => Contents(h)' = RingAppend(Contents(h), e) /\ Others(h)
    BY <1>1, LinkHeadWalk
  <2>2. LinkBefore(h, e) => Contents(h)' = RingPrepend(Contents(h), e) /\ Others(h)
    BY <1>1, LinkBeforeWalk
  <2>3. ASSUME NEW i \in DOMAIN Contents(h), LinkBehind(Contents(h)[i], e)
        PROVE  Contents(h)' = InsertAt(Contents(h), i + 1, e) /\ Others(h)
    BY <1>1, <2>3, LinkEntryWalk
  <2>4. Detach(e) => Contents(h)' = RingDetach(Contents(h), e)
    BY <1>1, DetachAnyWalk
  <2>5. PopHead(h) => Contents(h)' = Tail(Contents(h)) /\ Others(h)
    BY <1>1, PopHeadWalk
  <2>6. PopTail(h) => Contents(h)' = Front(Contents(h)) /\ Others(h)
    BY <1>1, PopTailWalk
  <2> QED BY <2>1, <2>2, <2>3, <2>4, <2>5, <2>6
<1>2. WInv => [\A e \in Entry, h \in Heads : Does(e, h)]_rvars
  <2> HIDE DEF Does
  <2> QED BY <1>1
<1>3. Init => WInv
  BY InitWInv
<1>4. WInv /\ [Next]_rvars => WInv'
  BY NextWInv
<1> QED BY <1>2, <1>3, <1>4, PTL DEF Spec, ImplementsRingSeq

-----------------------------------------------------------------------------
\* Lists that are linked both ways and end in nil, as the queue's.

\* The elements of O that a link leads to from b on, at most n + 1.
AlongLink(link, b, n, nil) ==
  LET hop[k \in 0 .. n] ==
        IF k = 0 THEN b
        ELSE IF hop[k - 1] = nil THEN nil ELSE link[hop[k - 1]]
  IN  [k \in {m \in 1 .. n + 1 : hop[m - 1] # nil} |-> hop[k - 1]]

\* f is the function it follows.
Hops(f, link, b, n, nil) ==
  f = [k \in 0 .. n |-> IF k = 0 THEN b
                        ELSE IF f[k - 1] = nil THEN nil ELSE link[f[k - 1]]]

LEMMA HopsAreOne ==
  ASSUME NEW link, NEW b, NEW n \in Nat, NEW nil, NEW f, NEW g,
         Hops(f, link, b, n, nil), Hops(g, link, b, n, nil)
  PROVE  f = g
<1> DEFINE D == {k \in 0 .. n : f[k] # g[k]}
<1>0. f = [k \in 0 .. n |-> IF k = 0 THEN b
                            ELSE IF f[k - 1] = nil THEN nil ELSE link[f[k - 1]]]
  BY DEF Hops
<1>00. g = [k \in 0 .. n |-> IF k = 0 THEN b
                             ELSE IF g[k - 1] = nil THEN nil ELSE link[g[k - 1]]]
  BY DEF Hops
<1>1. CASE D = {}
  <2>1. \A k \in 0 .. n : f[k] = g[k]
    BY <1>1
  <2>2. f = [k \in 0 .. n |-> f[k]]
    BY <1>0
  <2>3. g = [k \in 0 .. n |-> g[k]]
    BY <1>00
  <2> QED BY <2>1, <2>2, <2>3
<1>2. CASE D # {}
  <2>1. PICK m \in D : \A k \in D : m <= k
    <3>1. D \in SUBSET Nat
      OBVIOUS
    <3> HIDE DEF D
    <3> QED BY <1>2, <3>1, LeastExists
  <2>2. m \in 0 .. n /\ f[m] # g[m]
    BY <2>1
  <2>3. m # 0
    BY <1>0, <1>00, <2>2
  <2>4. m - 1 \in 0 .. n /\ m - 1 \notin D
    <3>1. m - 1 \in 0 .. n /\ ~(m <= m - 1)
      BY <2>2, <2>3
    <3> HIDE DEF D
    <3> QED BY <2>1, <3>1
  <2>5. f[m - 1] = g[m - 1]
    BY <2>4
  <2>6. /\ f[m] = IF f[m - 1] = nil THEN nil ELSE link[f[m - 1]]
        /\ g[m] = IF g[m - 1] = nil THEN nil ELSE link[g[m - 1]]
    BY <1>0, <1>00, <2>2, <2>3
  <2> QED BY <2>2, <2>5, <2>6
<1> QED BY <1>1, <1>2

\* s is linked by n from h to t and by p back again.
Chained(O, nil, s, h, t, n, p) ==
  /\ nil \notin O /\ s \in Seq(O)
  /\ n \in [O -> O \cup {nil}] /\ p \in [O -> O \cup {nil}]
  /\ \A i, j \in 1 .. Len(s) : s[i] = s[j] => i = j
  /\ h = IF Len(s) = 0 THEN nil ELSE s[1]
  /\ t = IF Len(s) = 0 THEN nil ELSE s[Len(s)]
  /\ \A i \in 1 .. Len(s) : n[s[i]] = IF i = Len(s) THEN nil ELSE s[i + 1]
  /\ \A i \in 1 .. Len(s) : p[s[i]] = IF i = 1 THEN nil ELSE s[i - 1]

LEMMA AlongLinkIs ==
  ASSUME NEW O, NEW nil, NEW s, NEW h, NEW t, NEW n, NEW p,
         Chained(O, nil, s, h, t, n, p), NEW m \in Nat, Len(s) <= m
  PROVE  AlongLink(n, h, m, nil) = s
<1> DEFINE f == CHOOSE hop : hop = [k \in 0 .. m |->
                  IF k = 0 THEN h ELSE IF hop[k - 1] = nil THEN nil ELSE n[hop[k - 1]]]
           g == [k \in 0 .. m |-> IF k < Len(s) THEN s[k + 1] ELSE nil]
<1>1. /\ nil \notin O /\ s \in Seq(O) /\ Len(s) \in Nat
      /\ h = IF Len(s) = 0 THEN nil ELSE s[1]
  BY DEF Chained
<1>2. \A i \in 1 .. Len(s) : s[i] # nil /\ n[s[i]] = IF i = Len(s) THEN nil ELSE s[i + 1]
  BY <1>1 DEF Chained
<1>3. Hops(g, n, h, m, nil)
  <2>1. ASSUME NEW k \in 0 .. m
        PROVE  g[k] = IF k = 0 THEN h ELSE IF g[k - 1] = nil THEN nil ELSE n[g[k - 1]]
    <3>1. CASE k = 0
      BY <1>1, <3>1
    <3>2. CASE k # 0
      <4>1. k - 1 \in 0 .. m /\ k - 1 + 1 = k
        BY <3>2
      <4>2. g[k - 1] = IF k - 1 < Len(s) THEN s[k] ELSE nil
        BY <4>1
      <4>3. g[k] = IF k < Len(s) THEN s[k + 1] ELSE nil
        OBVIOUS
      <4>4. CASE k - 1 < Len(s)
        <5>1. k \in 1 .. Len(s) /\ (k = Len(s) <=> ~(k < Len(s)))
          BY <1>1, <3>2, <4>4
        <5> HIDE DEF g
        <5> QED BY <5>1, <1>2, <3>2, <4>2, <4>3, <4>4
      <4>5. CASE ~(k - 1 < Len(s))
        <5>1. ~(k < Len(s))
          BY <1>1, <4>5
        <5> HIDE DEF g
        <5> QED BY <5>1, <3>2, <4>2, <4>3, <4>5
      <4> QED BY <4>4, <4>5
    <3> QED BY <3>1, <3>2
  <2>2. g = [k \in 0 .. m |-> g[k]]
    OBVIOUS
  <2> HIDE DEF g
  <2> QED BY <2>1, <2>2 DEF Hops
<1>4. f = g
  <2>1. \E hop : hop = [k \in 0 .. m |->
           IF k = 0 THEN h ELSE IF hop[k - 1] = nil THEN nil ELSE n[hop[k - 1]]]
    BY <1>3 DEF Hops
  <2>2. f = [k \in 0 .. m |->
           IF k = 0 THEN h ELSE IF f[k - 1] = nil THEN nil ELSE n[f[k - 1]]]
    BY <2>1
  <2> HIDE DEF f, g
  <2>3. Hops(f, n, h, m, nil)
    BY <2>2 DEF Hops
  <2> QED BY <1>3, <2>3, HopsAreOne
<1>5. AlongLink(n, h, m, nil) = [k \in {i \in 1 .. m + 1 : g[i - 1] # nil} |-> g[k - 1]]
  <2>1. AlongLink(n, h, m, nil) = [k \in {i \in 1 .. m + 1 : f[i - 1] # nil} |-> f[k - 1]]
    BY DEF AlongLink
  <2> HIDE DEF f, g
  <2> QED BY <1>4, <2>1
<1>6. ASSUME NEW i \in 1 .. m + 1
      PROVE  /\ g[i - 1] # nil <=> i <= Len(s)
             /\ i <= Len(s) => g[i - 1] = s[i]
  <2>1. i - 1 \in 0 .. m /\ i - 1 + 1 = i /\ (i - 1 < Len(s) <=> i <= Len(s))
    BY <1>1
  <2>2. g[i - 1] = IF i - 1 < Len(s) THEN s[i] ELSE nil
    BY <2>1
  <2>3. i <= Len(s) => i \in 1 .. Len(s)
    BY <1>1
  <2> HIDE DEF g
  <2> QED BY <2>1, <2>2, <2>3, <1>2
<1> HIDE DEF g
<1>7. {i \in 1 .. m + 1 : g[i - 1] # nil} = 1 .. Len(s)
  <2>1. \A i \in 1 .. Len(s) : i \in 1 .. m + 1
    BY <1>1
  <2>2. \A i \in 1 .. m + 1 : i <= Len(s) => i \in 1 .. Len(s)
    BY <1>1
  <2> QED BY <2>1, <2>2, <1>6
<1>8. \A k \in 1 .. Len(s) : g[k - 1] = s[k]
  <2>1. \A i \in 1 .. Len(s) : i \in 1 .. m + 1 /\ i <= Len(s)
    BY <1>1
  <2> QED BY <2>1, <1>6
<1>9. s = [k \in 1 .. Len(s) |-> s[k]]
  BY <1>1
<1> QED BY <1>5, <1>7, <1>8, <1>9

\* No list is longer than there are elements.
LEMMA ChainedFits ==
  ASSUME NEW O, NEW nil, NEW s, NEW h, NEW t, NEW n, NEW p,
         Chained(O, nil, s, h, t, n, p), IsFiniteSet(O)
  PROVE  Len(s) <= Cardinality(O) /\ Cardinality(O) \in Nat
<1>1. s \in Seq(O) /\ Len(s) \in Nat /\ \A i, j \in 1 .. Len(s) : s[i] = s[j] => i = j
  BY DEF Chained
<1>2. s \in [1 .. Len(s) -> O]
  BY <1>1
<1>3. IsFiniteSet(1 .. Len(s)) /\ Cardinality(1 .. Len(s)) = Len(s)
  <2>1. ASSUME NEW u \in Nat PROVE IsFiniteSet(1 .. u) /\ Cardinality(1 .. u) = u
    <3>1. IsFiniteSet(1 .. u) /\ Cardinality(1 .. u) = IF 1 > u THEN 0 ELSE u - 1 + 1
      BY FS_Interval
    <3> QED BY <3>1
  <2> QED BY <1>1, <2>1, Zenon
<1>4. Cardinality(O) \in Nat
  BY FS_CardinalityType
<1>5. ASSUME Cardinality(O) < Cardinality(1 .. Len(s)) PROVE FALSE
  <2>1. \E x, y \in 1 .. Len(s) : x # y /\ s[x] = s[y]
    <3>1. IsFiniteSet(1 .. Len(s))
      BY <1>3
    <3> QED BY <1>2, <1>5, <3>1, FS_PigeonHole
  <2> QED BY <1>1, <2>1
<1> QED BY <1>1, <1>3, <1>4, <1>5

\* The list read backwards.
LEMMA ChainedBack ==
  ASSUME NEW O, NEW nil, NEW s, NEW h, NEW t, NEW n, NEW p,
         Chained(O, nil, s, h, t, n, p)
  PROVE  Chained(O, nil, [i \in 1 .. Len(s) |-> s[Len(s) - i + 1]], t, h, p, n)
<1> DEFINE r == [i \in 1 .. Len(s) |-> s[Len(s) - i + 1]]
<1>1. /\ nil \notin O /\ s \in Seq(O) /\ Len(s) \in Nat
      /\ n \in [O -> O \cup {nil}] /\ p \in [O -> O \cup {nil}]
      /\ \A i, j \in 1 .. Len(s) : s[i] = s[j] => i = j
      /\ h = IF Len(s) = 0 THEN nil ELSE s[1]
      /\ t = IF Len(s) = 0 THEN nil ELSE s[Len(s)]
  BY DEF Chained
<1>2. \A i \in 1 .. Len(s) : n[s[i]] = IF i = Len(s) THEN nil ELSE s[i + 1]
  BY DEF Chained
<1>3. \A i \in 1 .. Len(s) : p[s[i]] = IF i = 1 THEN nil ELSE s[i - 1]
  BY DEF Chained
<1>4. \A i \in 1 .. Len(s) : Len(s) - i + 1 \in 1 .. Len(s)
  BY <1>1
<1>5. r \in Seq(O) /\ Len(r) = Len(s) /\ \A i \in 1 .. Len(s) : r[i] = s[Len(s) - i + 1]
  BY <1>1, <1>4
<1> HIDE DEF r
<1>6. \A i, j \in 1 .. Len(r) : r[i] = r[j] => i = j
  <2> SUFFICES ASSUME NEW i \in 1 .. Len(s), NEW j \in 1 .. Len(s), r[i] = r[j] PROVE i = j
    BY <1>5
  <2>1. Len(s) - i + 1 = Len(s) - j + 1
    BY <1>1, <1>4, <1>5
  <2> QED BY <2>1, <1>1
<1>7. /\ t = IF Len(r) = 0 THEN nil ELSE r[1]
      /\ h = IF Len(r) = 0 THEN nil ELSE r[Len(r)]
  <2>1. CASE Len(s) = 0
    BY <2>1, <1>1, <1>5
  <2>2. CASE Len(s) # 0
    <3>1. 1 \in 1 .. Len(s) /\ Len(s) \in 1 .. Len(s) /\ Len(s) - 1 + 1 = Len(s)
          /\ Len(s) - Len(s) + 1 = 1
      BY <1>1, <2>2
    <3>2. r[1] = s[Len(s)] /\ r[Len(s)] = s[1]
      BY <3>1, <1>5
    <3> QED BY <3>2, <2>2, <1>1, <1>5
  <2> QED BY <2>1, <2>2
<1>8. ASSUME NEW i \in 1 .. Len(r) PROVE p[r[i]] = IF i = Len(r) THEN nil ELSE r[i + 1]
  <2> DEFINE k == Len(s) - i + 1
  <2>1. k \in 1 .. Len(s) /\ (k = 1 <=> i = Len(s))
        /\ (i # Len(s) => i + 1 \in 1 .. Len(s) /\ Len(s) - (i + 1) + 1 = k - 1)
    BY <1>1, <1>5
  <2>2. r[i] = s[k]
    BY <1>5
  <2>3. i # Len(s) => r[i + 1] = s[k - 1]
    BY <1>5, <2>1
  <2> HIDE DEF k
  <2> QED BY <2>1, <2>2, <2>3, <1>3, <1>5
<1>9. ASSUME NEW i \in 1 .. Len(r) PROVE n[r[i]] = IF i = 1 THEN nil ELSE r[i - 1]
  <2> DEFINE k == Len(s) - i + 1
  <2>1. k \in 1 .. Len(s) /\ (k = Len(s) <=> i = 1)
        /\ (i # 1 => i - 1 \in 1 .. Len(s) /\ Len(s) - (i - 1) + 1 = k + 1)
    BY <1>1, <1>5
  <2>2. r[i] = s[k]
    BY <1>5
  <2>3. i # 1 => r[i - 1] = s[k + 1]
    BY <1>5, <2>1
  <2> HIDE DEF k
  <2> QED BY <2>1, <2>2, <2>3, <1>2, <1>5
<1> QED BY <1>1, <1>5, <1>6, <1>7, <1>8, <1>9 DEF Chained, r

\* The parts of a chain, for those who build another of it.
LEMMA ChainedParts ==
  ASSUME NEW O, NEW nil, NEW s, NEW h, NEW t, NEW n, NEW p,
         Chained(O, nil, s, h, t, n, p)
  PROVE  /\ nil \notin O /\ s \in Seq(O) /\ Len(s) \in Nat
         /\ n \in [O -> O \cup {nil}] /\ p \in [O -> O \cup {nil}]
         /\ \A i, j \in 1 .. Len(s) : s[i] = s[j] => i = j
         /\ h = IF Len(s) = 0 THEN nil ELSE s[1]
         /\ t = IF Len(s) = 0 THEN nil ELSE s[Len(s)]
         /\ \A i \in 1 .. Len(s) : s[i] \in O /\ s[i] # nil
         /\ \A i \in 1 .. Len(s) : n[s[i]] = IF i = Len(s) THEN nil ELSE s[i + 1]
         /\ \A i \in 1 .. Len(s) : p[s[i]] = IF i = 1 THEN nil ELSE s[i - 1]
<1>1. /\ nil \notin O /\ s \in Seq(O) /\ Len(s) \in Nat
      /\ n \in [O -> O \cup {nil}] /\ p \in [O -> O \cup {nil}]
      /\ \A i, j \in 1 .. Len(s) : s[i] = s[j] => i = j
      /\ h = IF Len(s) = 0 THEN nil ELSE s[1]
      /\ t = IF Len(s) = 0 THEN nil ELSE s[Len(s)]
  BY DEF Chained
<1>2. \A i \in 1 .. Len(s) : s[i] \in O /\ s[i] # nil
  BY <1>1
<1>3. \A i \in 1 .. Len(s) : n[s[i]] = IF i = Len(s) THEN nil ELSE s[i + 1]
  BY DEF Chained
<1>4. \A i \in 1 .. Len(s) : p[s[i]] = IF i = 1 THEN nil ELSE s[i - 1]
  BY DEF Chained
<1> QED BY <1>1, <1>2, <1>3, <1>4

\* The only element of a list.
LEMMA ChainedAlone ==
  ASSUME NEW O, NEW nil, NEW s, NEW h, NEW t, NEW n, NEW p, NEW b \in O,
         Chained(O, nil, s, h, t, n, p), Len(s) = 0
  PROVE  Chained(O, nil, <<b>>, b, b, [n EXCEPT ![b] = nil], [p EXCEPT ![b] = nil])
<1>1. nil \notin O /\ n \in [O -> O \cup {nil}] /\ p \in [O -> O \cup {nil}]
  BY ChainedParts
<1> DEFINE r == <<b>>
<1>2. r \in Seq(O) /\ Len(r) = 1 /\ r[1] = b
  OBVIOUS
<1>3. \A i \in 1 .. Len(r) : i = 1
  BY <1>2
<1> HIDE DEF r
<1> QED BY <1>1, <1>2, <1>3 DEF Chained, r

\* Another element at the end.
LEMMA ChainedAppend ==
  ASSUME NEW O, NEW nil, NEW s, NEW h, NEW t, NEW n, NEW p, NEW b \in O,
         Chained(O, nil, s, h, t, n, p), Len(s) # 0,
         \A i \in 1 .. Len(s) : s[i] # b
  PROVE  Chained(O, nil, Append(s, b), h, b, [n EXCEPT ![t] = b, ![b] = nil],
                 [p EXCEPT ![b] = t])
<1> DEFINE r == Append(s, b)
           m == Len(s)
           nn == [n EXCEPT ![t] = b, ![b] = nil]
           pp == [p EXCEPT ![b] = t]
<1>1. /\ nil \notin O /\ s \in Seq(O) /\ m \in Nat
      /\ n \in [O -> O \cup {nil}] /\ p \in [O -> O \cup {nil}]
      /\ h = s[1] /\ t = s[m]
  BY ChainedParts
<1>2. \A i, j \in 1 .. m : s[i] = s[j] => i = j
  BY ChainedParts
<1>3. \A i \in 1 .. m : s[i] \in O /\ s[i] # nil
  BY ChainedParts
<1>4. \A i \in 1 .. m : n[s[i]] = IF i = m THEN nil ELSE s[i + 1]
  BY ChainedParts
<1>5. \A i \in 1 .. m : p[s[i]] = IF i = 1 THEN nil ELSE s[i - 1]
  BY ChainedParts
<1>6. r \in Seq(O) /\ Len(r) = m + 1 /\ r[m + 1] = b /\ \A i \in 1 .. m : r[i] = s[i]
  BY <1>1
<1>0. m \in Nat /\ m # 0 /\ m \in 1 .. m /\ 1 \in 1 .. m
  BY <1>1
<1>7. t \in O /\ t # b
  BY <1>0, <1>1, <1>3
<1>8. /\ nn \in [O -> O \cup {nil}] /\ pp \in [O -> O \cup {nil}]
      /\ \A x \in O : nn[x] = IF x = b THEN nil ELSE IF x = t THEN b ELSE n[x]
      /\ \A x \in O : pp[x] = IF x = b THEN t ELSE p[x]
  <2>1. nn \in [O -> O \cup {nil}] /\ pp \in [O -> O \cup {nil}]
    BY <1>1, <1>7
  <2>2. \A x \in O : nn[x] = IF x = b THEN nil ELSE IF x = t THEN b ELSE n[x]
    BY <1>1, <1>7
  <2>3. \A x \in O : pp[x] = IF x = b THEN t ELSE p[x]
    BY <1>1, <1>7
  <2> QED BY <2>1, <2>2, <2>3
<1> HIDE DEF r, nn, pp, m
<1>9. ASSUME NEW i \in 1 .. m + 1, i # m + 1 PROVE i \in 1 .. m
  BY <1>0, <1>9
<1>10. \A i, j \in 1 .. m + 1 : r[i] = r[j] => i = j
  <2> SUFFICES ASSUME NEW i \in 1 .. m + 1, NEW j \in 1 .. m + 1, r[i] = r[j]
               PROVE  i = j
    OBVIOUS
  <2>1. CASE i = m + 1 /\ j = m + 1
    BY <2>1
  <2>2. CASE i = m + 1 /\ j # m + 1
    BY <2>2, <1>6, <1>9 DEF m
  <2>3. CASE i # m + 1 /\ j = m + 1
    BY <2>3, <1>6, <1>9 DEF m
  <2>4. CASE i # m + 1 /\ j # m + 1
    BY <2>4, <1>2, <1>6, <1>9
  <2> QED BY <2>1, <2>2, <2>3, <2>4
<1>11. ASSUME NEW i \in 1 .. m + 1 PROVE nn[r[i]] = IF i = m + 1 THEN nil ELSE r[i + 1]
  <2>1. CASE i = m + 1
    BY <2>1, <1>6, <1>8
  <2>2. CASE i # m + 1
    <3>1. i \in 1 .. m /\ r[i] = s[i] /\ s[i] \in O /\ s[i] # b
      BY <2>2, <1>3, <1>6, <1>9 DEF m
    <3>2. CASE i = m
      BY <3>1, <3>2, <1>0, <1>1, <1>6, <1>8
    <3>3. CASE i # m
      <4>1. s[i] # t
        BY <3>1, <3>3, <1>0, <1>1, <1>2
      <4>2. i + 1 \in 1 .. m
        BY <3>1, <3>3, <1>0
      <4> QED BY <3>1, <3>3, <4>1, <4>2, <2>2, <1>4, <1>6, <1>8
    <3> QED BY <3>2, <3>3
  <2> QED BY <2>1, <2>2
<1>12. ASSUME NEW i \in 1 .. m + 1 PROVE pp[r[i]] = IF i = 1 THEN nil ELSE r[i - 1]
  <2>1. CASE i = m + 1
    <3>1. i # 1 /\ i - 1 = m
      BY <2>1, <1>0
    <3>2. r[m] = s[m]
      BY <1>0, <1>6
    <3> QED BY <2>1, <3>1, <3>2, <1>1, <1>6, <1>8
  <2>2. CASE i # m + 1
    <3>1. i \in 1 .. m /\ r[i] = s[i] /\ s[i] \in O /\ s[i] # b
      BY <2>2, <1>3, <1>6, <1>9 DEF m
    <3>2. i # 1 => i - 1 \in 1 .. m
      BY <3>1, <1>0
    <3> QED BY <3>1, <3>2, <1>5, <1>6, <1>8
  <2> QED BY <2>1, <2>2
<1>13. h = r[1] /\ Len(r) # 0
  BY <1>0, <1>1, <1>6
<1>14. Chained(O, nil, r, h, b, nn, pp)
  BY <1>1, <1>6, <1>8, <1>10, <1>11, <1>12, <1>13 DEF Chained
<1> QED BY <1>14 DEF r, nn, pp

LEMMA SameEnds ==
  ASSUME NEW O, NEW s \in Seq(O), NEW b \in O
  PROVE  LET r == [i \in 1 .. Len(s) |-> s[Len(s) - i + 1]]
             u == Append(r, b)
         IN  <<b>> \o s = [i \in 1 .. Len(u) |-> u[Len(u) - i + 1]]
<1> DEFINE m == Len(s)
           r == [i \in 1 .. m |-> s[m - i + 1]]
           u == Append(r, b)
           w == <<b>> \o s
           z == [i \in 1 .. m + 1 |-> u[m + 1 - i + 1]]
<1>0. m \in Nat
  OBVIOUS
<1>1. r \in Seq(O) /\ Len(r) = m /\ \A i \in 1 .. m : r[i] = s[m - i + 1]
  <2>1. \A i \in 1 .. m : m - i + 1 \in 1 .. m
    BY <1>0
  <2> QED BY <2>1
<1> HIDE DEF r
<1>2. u \in Seq(O) /\ Len(u) = m + 1 /\ u[m + 1] = b /\ \A i \in 1 .. m : u[i] = r[i]
  BY <1>1, <1>0
<1>3. w \in Seq(O) /\ Len(w) = m + 1 /\ \A i \in 1 .. m + 1 : w[i] = IF i = 1 THEN b ELSE s[i - 1]
  OBVIOUS
<1> HIDE DEF u, w
<1>4. w = [i \in 1 .. m + 1 |-> w[i]]
  BY <1>3
<1>5. ASSUME NEW i \in 1 .. m + 1 PROVE w[i] = u[m + 1 - i + 1]
  <2>1. CASE i = 1
    <3>1. m + 1 - i + 1 = m + 1
      BY <2>1, <1>0
    <3> QED BY <2>1, <3>1, <1>2, <1>3
  <2>2. CASE i # 1
    <3>1. /\ m + 1 - i + 1 \in 1 .. m /\ m - (m + 1 - i + 1) + 1 = i - 1
      BY <2>2, <1>0
    <3>2. u[m + 1 - i + 1] = r[m + 1 - i + 1]
      BY <3>1, <1>2
    <3>3. r[m + 1 - i + 1] = s[i - 1]
      BY <3>1, <1>1
    <3> QED BY <3>2, <3>3, <2>2, <1>3
  <2> QED BY <2>1, <2>2
<1>6. w = [i \in 1 .. m + 1 |-> u[m + 1 - i + 1]]
  BY <1>4, <1>5
<1> QED BY <1>2, <1>6 DEF r, u, w

\* Another element at the beginning: the same seen from the other end.
LEMMA ChainedPrepend ==
  ASSUME NEW O, NEW nil, NEW s, NEW h, NEW t, NEW n, NEW p, NEW b \in O,
         Chained(O, nil, s, h, t, n, p), Len(s) # 0,
         \A i \in 1 .. Len(s) : s[i] # b
  PROVE  Chained(O, nil, <<b>> \o s, b, t, [n EXCEPT ![b] = h],
                 [p EXCEPT ![h] = b, ![b] = nil])
<1> DEFINE r == [i \in 1 .. Len(s) |-> s[Len(s) - i + 1]]
           u == Append(r, b)
<1>1. s \in Seq(O) /\ Len(s) \in Nat
  BY ChainedParts
<1>2. Chained(O, nil, r, t, h, p, n)
  BY ChainedBack
<1>3. Len(r) = Len(s) /\ \A i \in 1 .. Len(r) : r[i] # b
  <2>1. \A i \in 1 .. Len(s) : Len(s) - i + 1 \in 1 .. Len(s)
    BY <1>1
  <2>2. Len(r) = Len(s)
    BY <1>1
  <2> QED BY <2>1, <2>2
<1> HIDE DEF r
<1>4. Chained(O, nil, u, t, b, [p EXCEPT ![h] = b, ![b] = nil], [n EXCEPT ![b] = h])
  BY <1>2, <1>3, ChainedAppend
<1> HIDE DEF u
<1>5. Chained(O, nil, [i \in 1 .. Len(u) |-> u[Len(u) - i + 1]], b, t,
              [n EXCEPT ![b] = h], [p EXCEPT ![h] = b, ![b] = nil])
  BY <1>4, ChainedBack
<1>6. <<b>> \o s = [i \in 1 .. Len(u) |-> u[Len(u) - i + 1]]
  BY <1>1, SameEnds DEF r, u
<1> QED BY <1>5, <1>6

\* An element leaves its neighbours, or the end it is at.
LEMMA ChainedWithout ==
  ASSUME NEW O, NEW nil, NEW s, NEW h, NEW t, NEW n, NEW p,
         Chained(O, nil, s, h, t, n, p), NEW k \in 1 .. Len(s), NEW b, b = s[k]
  PROVE  Chained(O, nil, RemoveAt(s, k),
                 IF p[b] = nil THEN n[b] ELSE h, IF n[b] = nil THEN p[b] ELSE t,
                 [x \in O |-> IF x = p[b] THEN n[b] ELSE n[x]],
                 [x \in O |-> IF x = n[b] THEN p[b] ELSE p[x]])
<1> DEFINE r == RemoveAt(s, k)
           m == Len(s)
           nn == [x \in O |-> IF x = p[b] THEN n[b] ELSE n[x]]
           pp == [x \in O |-> IF x = n[b] THEN p[b] ELSE p[x]]
           hh == IF p[b] = nil THEN n[b] ELSE h
           tt == IF n[b] = nil THEN p[b] ELSE t
           at(i) == IF i < k THEN i ELSE i + 1
<1>1. /\ nil \notin O /\ s \in Seq(O) /\ m \in Nat
      /\ n \in [O -> O \cup {nil}] /\ p \in [O -> O \cup {nil}]
      /\ h = s[1] /\ t = s[m]
  BY ChainedParts
<1>2. \A i, j \in 1 .. m : s[i] = s[j] => i = j
  BY ChainedParts
<1>3. \A i \in 1 .. m : s[i] \in O /\ s[i] # nil
  BY ChainedParts
<1>4. \A i \in 1 .. m : n[s[i]] = IF i = m THEN nil ELSE s[i + 1]
  BY ChainedParts
<1>5. \A i \in 1 .. m : p[s[i]] = IF i = 1 THEN nil ELSE s[i - 1]
  BY ChainedParts
<1>6. /\ r \in Seq(O) /\ Len(r) = m - 1
      /\ \A i \in 1 .. m - 1 : r[i] = s[IF i < k THEN i ELSE i + 1]
  BY <1>1, RemoveAtProperties DEF Without
<1>0. m \in Nat /\ k \in 1 .. m /\ m # 0 /\ m - 1 \in Nat /\ 1 \in 1 .. m /\ m \in 1 .. m
  BY <1>1
<1>7. /\ b \in O /\ n[b] = IF k = m THEN nil ELSE s[k + 1]
      /\ p[b] = IF k = 1 THEN nil ELSE s[k - 1]
  BY <1>0, <1>3, <1>4, <1>5
<1>8. /\ nn \in [O -> O \cup {nil}] /\ pp \in [O -> O \cup {nil}]
      /\ \A x \in O : nn[x] = IF x = p[b] THEN n[b] ELSE n[x]
      /\ \A x \in O : pp[x] = IF x = n[b] THEN p[b] ELSE p[x]
  BY <1>1, <1>7
<1> HIDE DEF r, nn, pp, m
<1>9. ASSUME NEW i \in 1 .. m - 1 PROVE at(i) \in 1 .. m /\ r[i] = s[at(i)] /\ at(i) # k
  <2>1. at(i) \in 1 .. m /\ at(i) # k
    BY <1>0
  <2> QED BY <2>1, <1>6
<1>10. \A i, j \in 1 .. m - 1 : r[i] = r[j] => i = j
  <2> SUFFICES ASSUME NEW i \in 1 .. m - 1, NEW j \in 1 .. m - 1, r[i] = r[j]
               PROVE  i = j
    OBVIOUS
  <2>1. at(i) = at(j)
    <3> HIDE DEF at
    <3> QED BY <1>2, <1>9
  <2> QED BY <2>1, <1>0
<1>11. ASSUME NEW i \in 1 .. m - 1 PROVE nn[r[i]] = IF i = m - 1 THEN nil ELSE r[i + 1]
  <2>1. r[i] = s[at(i)] /\ at(i) \in 1 .. m /\ s[at(i)] \in O /\ s[at(i)] # nil
    <3> HIDE DEF at
    <3> QED BY <1>3, <1>9
  <2>2. CASE i = k - 1
    <3>1. at(i) = k - 1 /\ k # 1 /\ (i = m - 1 <=> k = m) /\ (k # m => i + 1 \in 1 .. m - 1 /\ at(i + 1) = k + 1)
      BY <2>2, <1>0
    <3>2. s[at(i)] = p[b] /\ nn[r[i]] = n[b]
      BY <2>1, <3>1, <1>7, <1>8
    <3>3. k # m => r[i + 1] = s[k + 1]
      BY <3>1, <1>9
    <3> QED BY <3>1, <3>2, <3>3, <1>7
  <2>3. CASE i # k - 1
    <3>1. k - 1 # at(i)
      BY <2>3, <1>0
    <3>2. s[at(i)] # p[b]
      <4>1. CASE k = 1
        BY <4>1, <2>1, <1>7
      <4>2. CASE k # 1
        <5>1. k - 1 \in 1 .. m
          BY <4>2, <1>0
        <5> HIDE DEF at
        <5> QED BY <4>2, <5>1, <3>1, <2>1, <1>2, <1>7
      <4> QED BY <4>1, <4>2
    <3>3. nn[r[i]] = IF at(i) = m THEN nil ELSE s[at(i) + 1]
      <4> HIDE DEF at
      <4> QED BY <2>1, <3>2, <1>4, <1>8
    <3>4. (at(i) = m <=> i = m - 1) /\ (i # m - 1 => i + 1 \in 1 .. m - 1 /\ at(i + 1) = at(i) + 1)
      BY <2>3, <1>0
    <3>5. i # m - 1 => r[i + 1] = s[at(i) + 1]
      BY <3>4, <1>9
    <3> HIDE DEF at
    <3> QED BY <3>3, <3>4, <3>5
  <2> QED BY <2>2, <2>3
<1>12. ASSUME NEW i \in 1 .. m - 1 PROVE pp[r[i]] = IF i = 1 THEN nil ELSE r[i - 1]
  <2>1. r[i] = s[at(i)] /\ at(i) \in 1 .. m /\ s[at(i)] \in O /\ s[at(i)] # nil
    <3> HIDE DEF at
    <3> QED BY <1>3, <1>9
  <2>2. CASE i = k
    <3>1. at(i) = k + 1 /\ k # m /\ (i # 1 => i - 1 \in 1 .. m - 1 /\ at(i - 1) = k - 1)
      BY <2>2, <1>0
    <3>2. s[at(i)] = n[b] /\ pp[r[i]] = p[b]
      BY <2>1, <3>1, <1>7, <1>8
    <3>3. i # 1 => r[i - 1] = s[k - 1]
      BY <3>1, <1>9
    <3> QED BY <2>2, <3>1, <3>2, <3>3, <1>7
  <2>3. CASE i # k
    <3>1. k + 1 # at(i)
      BY <2>3, <1>0
    <3>2. s[at(i)] # n[b]
      <4>1. CASE k = m
        BY <4>1, <2>1, <1>7
      <4>2. CASE k # m
        <5>1. k + 1 \in 1 .. m
          BY <4>2, <1>0
        <5> HIDE DEF at
        <5> QED BY <4>2, <5>1, <3>1, <2>1, <1>2, <1>7
      <4> QED BY <4>1, <4>2
    <3>3. pp[r[i]] = IF at(i) = 1 THEN nil ELSE s[at(i) - 1]
      <4> HIDE DEF at
      <4> QED BY <2>1, <3>2, <1>5, <1>8
    <3>4. (at(i) = 1 <=> i = 1) /\ (i # 1 => i - 1 \in 1 .. m - 1 /\ at(i - 1) = at(i) - 1)
      BY <2>3, <1>0
    <3>5. i # 1 => r[i - 1] = s[at(i) - 1]
      BY <3>4, <1>9
    <3> HIDE DEF at
    <3> QED BY <3>3, <3>4, <3>5
  <2> QED BY <2>2, <2>3
<1>13. hh = IF m - 1 = 0 THEN nil ELSE r[1]
  <2>1. CASE k = 1
    <3>1. m - 1 # 0 => 1 \in 1 .. m - 1 /\ at(1) = k + 1 /\ k # m
      BY <2>1, <1>0
    <3>2. m - 1 # 0 => r[1] = s[k + 1]
      BY <3>1, <1>9
    <3>3. m - 1 = 0 => k = m
      BY <2>1, <1>0
    <3> QED BY <2>1, <3>1, <3>2, <3>3, <1>7
  <2>2. CASE k # 1
    <3>1. m - 1 # 0 /\ 1 \in 1 .. m - 1 /\ at(1) = 1 /\ k - 1 \in 1 .. m
      BY <2>2, <1>0
    <3>2. r[1] = s[1] /\ p[b] # nil
      BY <2>2, <3>1, <1>3, <1>7, <1>9
    <3> QED BY <3>1, <3>2, <1>1
  <2> QED BY <2>1, <2>2
<1>14. tt = IF m - 1 = 0 THEN nil ELSE r[m - 1]
  <2>1. CASE k = m
    <3>1. m - 1 # 0 => m - 1 \in 1 .. m - 1 /\ at(m - 1) = k - 1 /\ k # 1
      BY <2>1, <1>0
    <3>2. m - 1 # 0 => r[m - 1] = s[k - 1]
      BY <3>1, <1>9
    <3>3. m - 1 = 0 => k = 1
      BY <2>1, <1>0
    <3> QED BY <2>1, <3>1, <3>2, <3>3, <1>7
  <2>2. CASE k # m
    <3>1. m - 1 # 0 /\ m - 1 \in 1 .. m - 1 /\ at(m - 1) = m /\ k + 1 \in 1 .. m
      BY <2>2, <1>0
    <3>2. r[m - 1] = s[m] /\ n[b] # nil
      BY <2>2, <3>1, <1>3, <1>7, <1>9
    <3> QED BY <3>1, <3>2, <1>1
  <2> QED BY <2>1, <2>2
<1> HIDE DEF hh, tt, at
<1>15. Chained(O, nil, r, hh, tt, nn, pp)
  BY <1>1, <1>6, <1>8, <1>10, <1>11, <1>12, <1>13, <1>14 DEF Chained
<1> QED BY <1>15 DEF r, hh, tt, nn, pp

\* An element of a sequence.
In(s, x) == \E i \in 1 .. Len(s) : s[i] = x

LEMMA InAppend ==
  ASSUME NEW O, NEW s \in Seq(O), NEW b \in O, NEW x
  PROVE  In(Append(s, b), x) <=> In(s, x) \/ x = b
<1> DEFINE r == Append(s, b)
<1>1. Len(r) = Len(s) + 1 /\ r[Len(s) + 1] = b /\ \A i \in 1 .. Len(s) : r[i] = s[i]
  OBVIOUS
<1>0. Len(s) \in Nat
  OBVIOUS
<1> HIDE DEF r
<1>2. ASSUME In(r, x) PROVE In(s, x) \/ x = b
  <2>1. PICK i \in 1 .. Len(s) + 1 : r[i] = x
    BY <1>1, <1>2 DEF In
  <2>2. i \in 1 .. Len(s) \/ i = Len(s) + 1
    BY <1>0
  <2> QED BY <1>1, <2>1, <2>2 DEF In
<1>3. ASSUME In(s, x) PROVE In(r, x)
  <2>1. PICK i \in 1 .. Len(s) : s[i] = x
    BY <1>3 DEF In
  <2>2. i \in 1 .. Len(r)
    BY <1>0, <1>1
  <2> QED BY <1>1, <2>1, <2>2 DEF In
<1>4. In(r, b)
  <2>1. Len(s) + 1 \in 1 .. Len(r)
    BY <1>0, <1>1
  <2> QED BY <1>1, <2>1 DEF In
<1> QED BY <1>2, <1>3, <1>4 DEF r

LEMMA InPrepend ==
  ASSUME NEW O, NEW s \in Seq(O), NEW b \in O, NEW x
  PROVE  In(<<b>> \o s, x) <=> In(s, x) \/ x = b
<1> DEFINE r == <<b>> \o s
<1>1. Len(r) = Len(s) + 1 /\ \A i \in 1 .. Len(s) + 1 : r[i] = IF i = 1 THEN b ELSE s[i - 1]
  OBVIOUS
<1>0. Len(s) \in Nat
  OBVIOUS
<1> HIDE DEF r
<1>2. ASSUME In(r, x) PROVE In(s, x) \/ x = b
  <2>1. PICK i \in 1 .. Len(s) + 1 : r[i] = x
    BY <1>1, <1>2 DEF In
  <2>2. i = 1 \/ i - 1 \in 1 .. Len(s)
    BY <1>0
  <2> QED BY <1>1, <2>1, <2>2 DEF In
<1>3. ASSUME In(s, x) PROVE In(r, x)
  <2>1. PICK i \in 1 .. Len(s) : s[i] = x
    BY <1>3 DEF In
  <2>2. i + 1 \in 1 .. Len(s) + 1 /\ i + 1 - 1 = i /\ i + 1 # 1
    BY <1>0
  <2>3. r[i + 1] = x
    BY <1>1, <2>1, <2>2
  <2> QED BY <1>1, <2>2, <2>3 DEF In
<1>4. In(r, b)
  <2>1. 1 \in 1 .. Len(s) + 1
    BY <1>0
  <2> QED BY <1>1, <2>1 DEF In
<1> QED BY <1>2, <1>3, <1>4 DEF r

\* What is left in a list in which everything is once.
LEMMA InWithout ==
  ASSUME NEW O, NEW s \in Seq(O), \A i, j \in 1 .. Len(s) : s[i] = s[j] => i = j,
         NEW k \in 1 .. Len(s), NEW x
  PROVE  In(RemoveAt(s, k), x) <=> In(s, x) /\ x # s[k]
<1> DEFINE r == RemoveAt(s, k)
<1>1. /\ Len(r) = Len(s) - 1
      /\ \A i \in 1 .. Len(s) - 1 : r[i] = s[IF i < k THEN i ELSE i + 1]
  BY RemoveAtProperties DEF Without
<1>0. Len(s) \in Nat
  OBVIOUS
<1> HIDE DEF r
<1>2. ASSUME In(r, x) PROVE In(s, x) /\ x # s[k]
  <2>1. PICK i \in 1 .. Len(s) - 1 : r[i] = x
    BY <1>1, <1>2 DEF In
  <2>2. PICK j \in 1 .. Len(s) : j = (IF i < k THEN i ELSE i + 1) /\ j # k
    BY <1>0
  <2>3. s[j] = x
    BY <1>1, <2>1, <2>2
  <2> QED BY <2>2, <2>3 DEF In
<1>3. ASSUME In(s, x), x # s[k] PROVE In(r, x)
  <2>1. PICK j \in 1 .. Len(s) : s[j] = x
    BY <1>3 DEF In
  <2>2. j # k
    BY <1>3, <2>1
  <2>3. PICK i \in 1 .. Len(s) - 1 : j = (IF i < k THEN i ELSE i + 1)
    <3>1. CASE j < k
      <4>1. j \in 1 .. Len(s) - 1 /\ j = (IF j < k THEN j ELSE j + 1)
        BY <1>0, <3>1
      <4> QED BY <4>1
    <3>2. CASE ~(j < k)
      <4>1. j - 1 \in 1 .. Len(s) - 1 /\ j = (IF j - 1 < k THEN j - 1 ELSE j - 1 + 1)
        BY <1>0, <2>2, <3>2
      <4> QED BY <4>1
    <3> QED BY <3>1, <3>2
  <2>4. r[i] = x
    BY <1>1, <2>1, <2>3
  <2> QED BY <1>1, <2>4 DEF In
<1> QED BY <1>2, <1>3 DEF r

\* A list without elements.
LEMMA ChainedEmpty ==
  ASSUME NEW O, NEW nil, nil \notin O, NEW n \in [O -> O \cup {nil}],
         NEW p \in [O -> O \cup {nil}]
  PROVE  Chained(O, nil, <<>>, nil, nil, n, p)
  BY DEF Chained

-----------------------------------------------------------------------------
\* What begins at 0 and goes on with each number is true of all.
LEMMA SetInduction ==
  ASSUME NEW D \in SUBSET Nat, 0 \in D, \A n \in D : n + 1 \in D
  PROVE  \A n \in Nat : n \in D
<1> SUFFICES ASSUME Nat \ D # {} PROVE FALSE
  OBVIOUS
<1>1. PICK m \in Nat \ D : \A k \in Nat \ D : m <= k
  BY LeastExists, Zenon
<1>2. m # 0 /\ m \in Nat
  OBVIOUS
<1>3. m - 1 \in Nat /\ m - 1 + 1 = m /\ ~(m <= m - 1)
  BY <1>2
<1>4. m - 1 \in D
  BY <1>1, <1>3
<1>5. m - 1 + 1 \in D
  BY <1>4
<1> QED BY <1>3, <1>5

-----------------------------------------------------------------------------
(* Lists linked in both directions, side by side: the elements of O are in    *)
(* the list of their slot.                                                    *)

LEMMA ChainedSame ==
  ASSUME NEW O, NEW nil, NEW s, NEW h, NEW t, NEW n, NEW p,
         Chained(O, nil, s, h, t, n, p),
         NEW nn \in [O -> O \cup {nil}], NEW pp \in [O -> O \cup {nil}],
         \A i \in 1 .. Len(s) : nn[s[i]] = n[s[i]] /\ pp[s[i]] = p[s[i]]
  PROVE  Chained(O, nil, s, h, t, nn, pp)
<1>1. \A i \in 1 .. Len(s) : nn[s[i]] = IF i = Len(s) THEN nil ELSE s[i + 1]
  BY ChainedParts
<1>2. \A i \in 1 .. Len(s) : pp[s[i]] = IF i = 1 THEN nil ELSE s[i - 1]
  BY ChainedParts
<1> QED BY <1>1, <1>2, ChainedParts DEF Chained

End(s, nil) == IF Len(s) = 0 THEN nil ELSE s[Len(s)]

Bucketed(O, nil, slot, m, Z, d, n, p) ==
  /\ nil \notin O /\ m \in Nat /\ slot \in [O -> 0 .. m - 1]
  /\ n \in [O -> O \cup {nil}] /\ p \in [O -> O \cup {nil}]
  /\ Z \in [0 .. m - 1 -> Seq(O)] /\ d \in [0 .. m - 1 -> O \cup {nil}]
  /\ \A i \in 0 .. m - 1 : Chained(O, nil, Z[i], d[i], End(Z[i], nil), n, p)
  /\ \A i \in 0 .. m - 1 : \A j \in 1 .. Len(Z[i]) : slot[Z[i][j]] = i

\* No list has an element.
LEMMA BucketsEmpty ==
  ASSUME NEW O, NEW nil, nil \notin O, NEW m \in Nat, NEW slot \in [O -> 0 .. m - 1],
         NEW n \in [O -> O \cup {nil}], NEW p \in [O -> O \cup {nil}],
         NEW Z \in [0 .. m - 1 -> Seq(O)], NEW d \in [0 .. m - 1 -> O \cup {nil}],
         \A i \in 0 .. m - 1 : Z[i] = <<>> /\ d[i] = nil
  PROVE  Bucketed(O, nil, slot, m, Z, d, n, p)
<1>1. ASSUME NEW i \in 0 .. m - 1
      PROVE  /\ Chained(O, nil, Z[i], d[i], End(Z[i], nil), n, p)
             /\ \A j \in 1 .. Len(Z[i]) : slot[Z[i][j]] = i
  <2>1. Z[i] = <<>> /\ d[i] = nil
    OBVIOUS
  <2>2. End(<<>>, nil) = nil /\ Len(<<>>) = 0 /\ 1 .. 0 = {}
    BY DEF End
  <2>3. Chained(O, nil, <<>>, nil, nil, n, p)
    BY ChainedEmpty
  <2> QED BY <2>1, <2>2, <2>3
<1> QED BY <1>1 DEF Bucketed

\* An element becomes the first of its list.
LEMMA BucketsLink ==
  ASSUME NEW O, NEW nil, NEW slot, NEW m, NEW Z, NEW d, NEW n, NEW p,
         Bucketed(O, nil, slot, m, Z, d, n, p), NEW b \in O, NEW k, k = slot[b],
         ~In(Z[k], b), NEW f, f = d[k]
  PROVE  Bucketed(O, nil, slot, m, [Z EXCEPT ![k] = <<b>> \o @], [d EXCEPT ![k] = b],
                  [n EXCEPT ![b] = f],
                  [e \in O |-> IF e = b THEN nil ELSE IF e = f THEN b ELSE p[e]])
<1> DEFINE nn == [n EXCEPT ![b] = f]
           pp == [e \in O |-> IF e = b THEN nil ELSE IF e = f THEN b ELSE p[e]]
           s == Z[k]
           r == <<b>> \o s
           SS == [Z EXCEPT ![k] = r]
           dd == [d EXCEPT ![k] = b]
<1>1. /\ nil \notin O /\ m \in Nat /\ slot \in [O -> 0 .. m - 1] /\ k \in 0 .. m - 1
      /\ n \in [O -> O \cup {nil}] /\ p \in [O -> O \cup {nil}]
      /\ Z \in [0 .. m - 1 -> Seq(O)] /\ d \in [0 .. m - 1 -> O \cup {nil}]
      /\ f \in O \cup {nil} /\ s \in Seq(O)
  BY DEF Bucketed
<1>2. Chained(O, nil, s, f, End(s, nil), n, p)
  BY <1>1 DEF Bucketed
<1>3. nn \in [O -> O \cup {nil}] /\ pp \in [O -> O \cup {nil}]
  BY <1>1
<1>4. r \in Seq(O) /\ Len(r) = Len(s) + 1 /\ r[1] = b
      /\ \A j \in 2 .. Len(r) : j - 1 \in 1 .. Len(s) /\ r[j] = s[j - 1]
  BY <1>1
<1>0. Len(s) \in Nat
  BY <1>1
<1>5. \A i \in 1 .. Len(s) : s[i] # b
  BY DEF In
<1>6. Chained(O, nil, r, b, End(r, nil), nn, pp)
  <2>1. CASE Len(s) = 0
    <3>1. f = nil /\ r = <<b>>
      <4>1. f = nil
        BY <1>2, <2>1, ChainedParts
      <4>2. s = <<>>
        BY <1>1, <2>1
      <4> QED BY <4>1, <4>2
    <3>2. Chained(O, nil, <<b>>, b, b, [n EXCEPT ![b] = nil], [p EXCEPT ![b] = nil])
      BY <1>2, <2>1, ChainedAlone
    <3>3. pp = [p EXCEPT ![b] = nil] /\ nn = [n EXCEPT ![b] = nil]
      <4>1. \A e \in O : pp[e] = [p EXCEPT ![b] = nil][e]
        BY <1>1, <3>1
      <4>2. pp = [e \in O |-> pp[e]] /\ [p EXCEPT ![b] = nil] = [e \in O |-> [p EXCEPT ![b] = nil][e]]
        BY <1>1
      <4>3. nn = [n EXCEPT ![b] = nil]
        BY <3>1
      <4> HIDE DEF nn, pp
      <4> QED BY <4>1, <4>2, <4>3, Zenon
    <3>4. End(<<b>>, nil) = b
      BY DEF End
    <3> HIDE DEF nn, pp
    <3> QED BY <3>1, <3>2, <3>3, <3>4, Zenon
  <2>2. CASE Len(s) # 0
    <3>1. Chained(O, nil, r, b, End(s, nil), nn, [p EXCEPT ![f] = b, ![b] = nil])
      BY <1>2, <1>5, <2>2, ChainedPrepend
    <3>2. f \in O /\ f # b
      <4>1. f = s[1] /\ 1 \in 1 .. Len(s)
        BY <1>0, <1>2, <2>2, ChainedParts
      <4> QED BY <1>1, <1>5, <4>1
    <3>3. pp = [p EXCEPT ![f] = b, ![b] = nil]
      BY <1>1, <3>2, Zenon
    <3>4. End(r, nil) = End(s, nil)
      <4>1. Len(r) # 0 /\ Len(r) \in 2 .. Len(r) /\ Len(r) - 1 = Len(s)
        BY <1>0, <1>4, <2>2
      <4>2. r[Len(r)] = s[Len(s)]
        BY <1>4, <4>1
      <4> QED BY <2>2, <4>1, <4>2 DEF End
    <3> HIDE DEF nn, pp, r
    <3> QED BY <3>1, <3>3, <3>4
  <2> QED BY <2>1, <2>2
<1>7. \A j \in 1 .. Len(r) : slot[r[j]] = k
  <2>1. \A j \in 1 .. Len(s) : slot[s[j]] = k
    BY <1>1 DEF Bucketed
  <2> SUFFICES ASSUME NEW j \in 1 .. Len(r) PROVE slot[r[j]] = k
    OBVIOUS
  <2>2. j = 1 \/ j \in 2 .. Len(r)
    BY <1>0, <1>4
  <2> HIDE DEF r, s
  <2> QED BY <1>4, <2>1, <2>2
<1>8. ASSUME NEW i \in 0 .. m - 1, i # k
      PROVE  /\ Chained(O, nil, Z[i], d[i], End(Z[i], nil), nn, pp)
             /\ \A j \in 1 .. Len(Z[i]) : slot[Z[i][j]] = i
  <2>1. /\ Chained(O, nil, Z[i], d[i], End(Z[i], nil), n, p)
        /\ \A j \in 1 .. Len(Z[i]) : slot[Z[i][j]] = i
    BY DEF Bucketed
  <2>2. \A j \in 1 .. Len(Z[i]) : Z[i][j] \in O
    BY <2>1, ChainedParts
  <2>3. f \in O => slot[f] = k
    <3>1. CASE Len(s) = 0
      BY <1>1, <1>2, <3>1, ChainedParts
    <3>2. CASE Len(s) # 0
      <4>1. f = s[1] /\ 1 \in 1 .. Len(s)
        BY <1>0, <1>2, <3>2, ChainedParts
      <4> QED BY <1>1, <4>1, Zenon DEF Bucketed
    <3> QED BY <3>1, <3>2
  <2>4. \A j \in 1 .. Len(Z[i]) : Z[i][j] # b /\ Z[i][j] # f
    BY <1>8, <2>1, <2>2, <2>3
  <2>5. \A j \in 1 .. Len(Z[i]) : nn[Z[i][j]] = n[Z[i][j]] /\ pp[Z[i][j]] = p[Z[i][j]]
    BY <1>1, <2>2, <2>4, Zenon
  <2> HIDE DEF nn, pp
  <2>6. Chained(O, nil, Z[i], d[i], End(Z[i], nil), nn, pp)
    BY <1>3, <2>1, <2>5, ChainedSame
  <2> QED BY <2>1, <2>6
<1>9. SS \in [0 .. m - 1 -> Seq(O)] /\ dd \in [0 .. m - 1 -> O \cup {nil}]
  BY <1>1, <1>4
<1>10. SS[k] = r /\ dd[k] = b /\ \A i \in 0 .. m - 1 : i # k => SS[i] = Z[i] /\ dd[i] = d[i]
  BY <1>1
<1> HIDE DEF nn, pp, SS, dd, r, s
<1>11. \A i \in 0 .. m - 1 :
         /\ Chained(O, nil, SS[i], dd[i], End(SS[i], nil), nn, pp)
         /\ \A j \in 1 .. Len(SS[i]) : slot[SS[i][j]] = i
  <2> SUFFICES ASSUME NEW i \in 0 .. m - 1
               PROVE  /\ Chained(O, nil, SS[i], dd[i], End(SS[i], nil), nn, pp)
                      /\ \A j \in 1 .. Len(SS[i]) : slot[SS[i][j]] = i
    OBVIOUS
  <2>1. CASE i = k
    BY <1>6, <1>7, <1>10, <2>1
  <2>2. CASE i # k
    BY <1>8, <1>10, <2>2
  <2> QED BY <2>1, <2>2
<1>12. Bucketed(O, nil, slot, m, SS, dd, nn, pp)
  BY <1>1, <1>3, <1>9, <1>11, Zenon DEF Bucketed
<1>13. SS = [Z EXCEPT ![k] = <<b>> \o @]
  BY DEF SS, r, s
<1> QED BY <1>12, <1>13 DEF dd, nn, pp

\* The element j of the list k leaves it, and SS, dd, nn and pp are what is left.
TakenOut(O, nil, m, Z, d, n, p, k, j, SS, dd, nn, pp) ==
  LET b == Z[k][j]
  IN  /\ j \in 1 .. Len(Z[k])
      /\ SS \in [0 .. m - 1 -> Seq(O)] /\ dd \in [0 .. m - 1 -> O \cup {nil}]
      /\ nn \in [O -> O \cup {nil}] /\ pp \in [O -> O \cup {nil}]
      /\ \A i \in 0 .. m - 1 : SS[i] = IF i = k THEN RemoveAt(Z[k], j) ELSE Z[i]
      /\ \A i \in 0 .. m - 1 : dd[i] = IF i = k /\ p[b] = nil THEN n[b] ELSE d[i]
      /\ \A e \in O : nn[e] = IF e = b THEN nil ELSE IF e = p[b] THEN n[b] ELSE n[e]
      /\ \A e \in O : pp[e] = IF e = b THEN nil ELSE IF e = n[b] THEN p[b] ELSE p[e]

LEMMA BucketsUnlink ==
  ASSUME NEW O, NEW nil, NEW slot, NEW m, NEW Z, NEW d, NEW n, NEW p,
         Bucketed(O, nil, slot, m, Z, d, n, p), NEW k \in 0 .. m - 1, NEW j,
         NEW SS, NEW dd, NEW nn, NEW pp,
         TakenOut(O, nil, m, Z, d, n, p, k, j, SS, dd, nn, pp)
  PROVE  Bucketed(O, nil, slot, m, SS, dd, nn, pp)
<1> PICK b : b = Z[k][j]
  OBVIOUS
<1>01. j \in 1 .. Len(Z[k])
  BY DEF TakenOut
<1>02. /\ nn \in [O -> O \cup {nil}] /\ pp \in [O -> O \cup {nil}]
       /\ \A e \in O : nn[e] = IF e = b THEN nil ELSE IF e = p[b] THEN n[b] ELSE n[e]
       /\ \A e \in O : pp[e] = IF e = b THEN nil ELSE IF e = n[b] THEN p[b] ELSE p[e]
  BY DEF TakenOut
<1>03. /\ SS \in [0 .. m - 1 -> Seq(O)] /\ dd \in [0 .. m - 1 -> O \cup {nil}]
       /\ \A i \in 0 .. m - 1 : SS[i] = IF i = k THEN RemoveAt(Z[k], j) ELSE Z[i]
       /\ \A i \in 0 .. m - 1 : dd[i] = IF i = k /\ p[b] = nil THEN n[b] ELSE d[i]
  BY DEF TakenOut
<1> DEFINE n1 == [x \in O |-> IF x = p[b] THEN n[b] ELSE n[x]]
           p1 == [x \in O |-> IF x = n[b] THEN p[b] ELSE p[x]]
           s == Z[k]
           r == RemoveAt(s, j)
           h == IF p[b] = nil THEN n[b] ELSE d[k]
<1>1. /\ nil \notin O /\ m \in Nat /\ slot \in [O -> 0 .. m - 1] /\ k \in 0 .. m - 1
      /\ n \in [O -> O \cup {nil}] /\ p \in [O -> O \cup {nil}]
      /\ Z \in [0 .. m - 1 -> Seq(O)] /\ d \in [0 .. m - 1 -> O \cup {nil}]
      /\ s \in Seq(O)
  BY Zenon DEF Bucketed
<1>2. Chained(O, nil, s, d[k], End(s, nil), n, p)
  BY <1>1 DEF Bucketed
<1>3. nn \in [O -> O \cup {nil}] /\ pp \in [O -> O \cup {nil}]
  BY <1>02
<1>4. \A x : In(r, x) <=> In(s, x) /\ x # b
  <2>1. \A i, l \in 1 .. Len(s) : s[i] = s[l] => i = l
    BY <1>2, ChainedParts
  <2>2. j \in 1 .. Len(s) /\ s[j] = b
    BY <1>01
  <2>3. \A x : In(RemoveAt(s, j), x) <=> In(s, x) /\ x # s[j]
    <3> HIDE DEF s
    <3> QED BY <1>1, <2>1, <2>2, InWithout, Zenon
  <2> QED BY <2>2, <2>3
<1>5. \A i \in 1 .. Len(r) : r[i] \in O /\ r[i] # b /\ In(s, r[i])
  <2>1. \A i \in 1 .. Len(r) : In(r, r[i])
    BY DEF In
  <2>2. \A x : In(s, x) => x \in O
    BY <1>2, ChainedParts DEF In
  <2> QED BY <1>4, <2>1, <2>2
<1>6. Chained(O, nil, r, h, IF n[b] = nil THEN p[b] ELSE End(s, nil), n1, p1)
  <2>1. j \in 1 .. Len(s) /\ b = s[j]
    BY <1>01
  <2> HIDE DEF s
  <2> QED BY <1>2, <2>1, ChainedWithout
<1>7. Chained(O, nil, r, h, End(r, nil), nn, pp)
  <2>1. (IF n[b] = nil THEN p[b] ELSE End(s, nil)) = End(r, nil)
    <3> HIDE DEF r, h, n1, p1, s
    <3> QED BY <1>6, ChainedParts DEF End
  <2>2. \A i \in 1 .. Len(r) : nn[r[i]] = n1[r[i]] /\ pp[r[i]] = p1[r[i]]
    BY <1>02, <1>5
  <2> HIDE DEF r, h, n1, p1, s
  <2>3. Chained(O, nil, r, h, End(r, nil), n1, p1)
    BY <1>6, <2>1
  <2> QED BY <1>3, <2>2, <2>3, ChainedSame
<1>8. \A i \in 1 .. Len(r) : slot[r[i]] = k
  <2>1. \A i \in 1 .. Len(s) : slot[s[i]] = k
    BY <1>1 DEF Bucketed
  <2>2. \A x : In(s, x) => slot[x] = k
    BY <2>1 DEF In
  <2> QED BY <1>5, <2>2
<1>9. ASSUME NEW i \in 0 .. m - 1, i # k
      PROVE  /\ Chained(O, nil, Z[i], d[i], End(Z[i], nil), nn, pp)
             /\ \A l \in 1 .. Len(Z[i]) : slot[Z[i][l]] = i
  <2>1. /\ Chained(O, nil, Z[i], d[i], End(Z[i], nil), n, p)
        /\ \A l \in 1 .. Len(Z[i]) : slot[Z[i][l]] = i
    BY Zenon DEF Bucketed
  <2>2. \A l \in 1 .. Len(Z[i]) : Z[i][l] \in O
    BY <2>1, ChainedParts
  <2>3. (n[b] \in O => slot[n[b]] = k) /\ (p[b] \in O => slot[p[b]] = k)
    <3>1. /\ Len(s) \in Nat /\ j \in 1 .. Len(s) /\ b = s[j]
          /\ n[b] = IF j = Len(s) THEN nil ELSE s[j + 1]
          /\ p[b] = IF j = 1 THEN nil ELSE s[j - 1]
      BY <1>01, <1>2, ChainedParts
    <3>2. \A l \in 1 .. Len(s) : slot[s[l]] = k
      BY <1>1, Zenon DEF Bucketed
    <3>3. (j # Len(s) => j + 1 \in 1 .. Len(s)) /\ (j # 1 => j - 1 \in 1 .. Len(s))
      BY <3>1
    <3> HIDE DEF s
    <3>4. n[b] \in O => j # Len(s) /\ n[b] = s[j + 1]
      BY <1>1, <3>1
    <3>5. p[b] \in O => j # 1 /\ p[b] = s[j - 1]
      BY <1>1, <3>1
    <3> QED BY <3>2, <3>3, <3>4, <3>5
  <2>4. \A l \in 1 .. Len(Z[i]) : Z[i][l] # b /\ Z[i][l] # n[b] /\ Z[i][l] # p[b]
    <3> SUFFICES ASSUME NEW l \in 1 .. Len(Z[i])
                 PROVE  Z[i][l] # b /\ Z[i][l] # n[b] /\ Z[i][l] # p[b]
      OBVIOUS
    <3>1. slot[Z[i][l]] = i /\ Z[i][l] \in O /\ i # k
      BY <1>9, <2>1, <2>2
    <3>2. slot[b] = k
      <4>1. \A x \in 1 .. Len(Z[k]) : slot[Z[k][x]] = k
        BY <1>1 DEF Bucketed
      <4> QED BY <1>01, <4>1
    <3> QED BY <2>3, <3>1, <3>2
  <2>5. \A l \in 1 .. Len(Z[i]) : nn[Z[i][l]] = n[Z[i][l]] /\ pp[Z[i][l]] = p[Z[i][l]]
    BY <1>02, <1>1, <2>2, <2>4, Zenon
  <2>6. Chained(O, nil, Z[i], d[i], End(Z[i], nil), nn, pp)
    <3>1. \A c, h1, t1 : Chained(O, nil, c, h1, t1, n, p)
            /\ (\A l \in 1 .. Len(c) : nn[c[l]] = n[c[l]] /\ pp[c[l]] = p[c[l]])
            => Chained(O, nil, c, h1, t1, nn, pp)
      BY <1>3, ChainedSame
    <3> QED BY <2>1, <2>5, <3>1, Zenon
  <2> QED BY <2>1, <2>6
<1>12. SS[k] = r /\ dd[k] = h /\ \A i \in 0 .. m - 1 : i # k => SS[i] = Z[i] /\ dd[i] = d[i]
  <2> HIDE DEF n1, p1
  <2> QED BY <1>03
<1> HIDE DEF n1, p1, r, s
<1> HIDE DEF h
<1>13. \A i \in 0 .. m - 1 :
         /\ Chained(O, nil, SS[i], dd[i], End(SS[i], nil), nn, pp)
         /\ \A l \in 1 .. Len(SS[i]) : slot[SS[i][l]] = i
  <2> SUFFICES ASSUME NEW i \in 0 .. m - 1
               PROVE  /\ Chained(O, nil, SS[i], dd[i], End(SS[i], nil), nn, pp)
                      /\ \A l \in 1 .. Len(SS[i]) : slot[SS[i][l]] = i
    OBVIOUS
  <2>1. CASE i = k
    BY <1>7, <1>8, <1>12, <2>1
  <2>2. CASE i # k
    BY <1>9, <1>12, <2>2
  <2> QED BY <2>1, <2>2
<1> QED BY <1>03, <1>1, <1>3, <1>13, Zenon DEF Bucketed
-----------------------------------------------------------------------------
\* Lists one behind the other.

\* F[i] is the first i lists of c, one behind the other.
Joins(F, O, c, n) ==
  /\ F \in [0 .. n -> Seq(O)]
  /\ F[0] = <<>>
  /\ \A i \in 1 .. n : F[i] = F[i - 1] \o c[i]

LEMMA JoinsThere ==
  ASSUME NEW O, NEW c \in Seq(Seq(O)), NEW n \in Nat, n <= Len(c)
  PROVE  \E F : Joins(F, O, c, n)
<1> DEFINE D == {k \in Nat : k <= Len(c) => \E F : Joins(F, O, c, k)}
<1>0. Len(c) \in Nat /\ \A i \in 1 .. Len(c) : c[i] \in Seq(O)
  OBVIOUS
<1>1. 0 \in D
  <2> DEFINE F == [i \in 0 .. 0 |-> <<>>]
  <2>1. F \in [0 .. 0 -> Seq(O)] /\ F[0] = <<>> /\ 1 .. 0 = {}
    OBVIOUS
  <2> HIDE DEF F
  <2>2. Joins(F, O, c, 0)
    BY <2>1 DEF Joins
  <2> QED BY <2>2
<1>2. ASSUME NEW k \in D PROVE k + 1 \in D
  <2>1. k \in Nat /\ (k <= Len(c) => \E F : Joins(F, O, c, k))
    OBVIOUS
  <2>2. ASSUME k + 1 <= Len(c) PROVE \E F : Joins(F, O, c, k + 1)
    <3>1. k <= Len(c) /\ k + 1 \in 1 .. Len(c)
      BY <1>0, <2>1, <2>2
    <3> PICK F : Joins(F, O, c, k)
      BY <2>1, <3>1
    <3> DEFINE G == [i \in 0 .. k + 1 |-> IF i <= k THEN F[i] ELSE F[k] \o c[k + 1]]
    <3>2. F \in [0 .. k -> Seq(O)] /\ F[0] = <<>> /\ \A i \in 1 .. k : F[i] = F[i - 1] \o c[i]
      BY Zenon DEF Joins
    <3>3. F[k] \in Seq(O) /\ c[k + 1] \in Seq(O)
      BY <1>0, <2>1, <3>1, <3>2
    <3>4. F[k] \o c[k + 1] \in Seq(O)
      BY <3>3
    <3>5. \A i \in 0 .. k + 1 : i <= k => i \in 0 .. k
      BY <2>1
    <3>6. \A i \in 0 .. k + 1 : G[i] \in Seq(O)
      BY <3>2, <3>4, <3>5
    <3>7. G \in [0 .. k + 1 -> Seq(O)] /\ G[0] = <<>>
      <4>1. 0 \in 0 .. k + 1 /\ 0 <= k
        BY <2>1
      <4>2. G[0] = F[0]
        BY <4>1
      <4>3. G = [i \in 0 .. k + 1 |-> G[i]]
        OBVIOUS
      <4> HIDE DEF G
      <4> QED BY <3>2, <3>6, <4>2, <4>3
    <3>8. ASSUME NEW i \in 1 .. k + 1 PROVE G[i] = G[i - 1] \o c[i]
      <4>1. i \in 0 .. k + 1 /\ i - 1 \in 0 .. k + 1 /\ i - 1 <= k
        BY <2>1
      <4>2. G[i - 1] = F[i - 1]
        BY <4>1
      <4>3. CASE i <= k
        <5>1. i \in 1 .. k
          BY <2>1, <4>3
        <5> QED BY <3>2, <4>1, <4>2, <4>3, <5>1, Zenon
      <4>4. CASE ~(i <= k)
        <5>1. i = k + 1 /\ i - 1 = k
          BY <2>1, <4>4
        <5>2. G[i] = F[k] \o c[k + 1]
          BY <4>1, <4>4, Zenon
        <5> QED BY <4>2, <5>1, <5>2, Zenon
      <4> QED BY <4>3, <4>4, Zenon
    <3> HIDE DEF G
    <3>9. Joins(G, O, c, k + 1)
      BY <3>7, <3>8, Zenon DEF Joins
    <3> QED BY <3>9
  <2> QED BY <2>1, <2>2
<1> HIDE DEF D
<1>3. D \in SUBSET Nat
  BY DEF D
<1>4. n \in D
  BY <1>1, <1>2, <1>3, SetInduction, Zenon
<1> QED BY <1>4 DEF D

\* Flattens(f, c): f is the function that FlattenSeq is computed by.
Flattens(f, c) ==
  f = [i \in 1 .. Len(c) |-> IF i = 1 THEN c[i] ELSE f[i - 1] \o c[i]]

LEMMA FlattenJoins ==
  ASSUME NEW O, NEW c \in Seq(Seq(O)), NEW F, Joins(F, O, c, Len(c))
  PROVE  FlattenSeq(c) = F[Len(c)]
<1> DEFINE f == CHOOSE g : g = [i \in 1 .. Len(c) |-> IF i = 1 THEN c[i] ELSE g[i - 1] \o c[i]]
           G == [i \in 1 .. Len(c) |-> F[i]]
<1>0. Len(c) \in Nat /\ \A i \in 1 .. Len(c) : c[i] \in Seq(O)
  OBVIOUS
<1>1. /\ F \in [0 .. Len(c) -> Seq(O)] /\ F[0] = <<>>
      /\ \A i \in 1 .. Len(c) : F[i] = F[i - 1] \o c[i]
  BY Zenon DEF Joins
<1>2. CASE Len(c) = 0
  <2>1. c = <<>>
    BY <1>2
  <2>2. FlattenSeq(c) = c
    BY <1>2 DEF FlattenSeq
  <2> QED BY <1>1, <1>2, <2>1, <2>2
<1>3. CASE Len(c) # 0
  <2>1. Flattens(G, c)
    <3>1. ASSUME NEW i \in 1 .. Len(c)
          PROVE  G[i] = IF i = 1 THEN c[i] ELSE G[i - 1] \o c[i]
      <4>1. CASE i = 1
        <5>1. F[1] = F[0] \o c[1]
          <6>1. 1 \in 1 .. Len(c) /\ 1 - 1 = 0
            BY <4>1
          <6> QED BY <1>1, <6>1, Zenon
        <5>2. <<>> \o c[1] = c[1]
          BY <1>0, <4>1
        <5> QED BY <1>1, <4>1, <5>1, <5>2
      <4>2. CASE i # 1
        <5>1. i - 1 \in 1 .. Len(c)
          BY <1>0, <4>2
        <5> QED BY <1>1, <4>2, <5>1, Zenon
      <4> QED BY <4>1, <4>2
    <3>2. G = [i \in 1 .. Len(c) |-> G[i]]
      OBVIOUS
    <3> HIDE DEF G
    <3> QED BY <3>1, <3>2, Zenon DEF Flattens
  <2>2. Flattens(f, c)
    <3>1. \E g : g = [i \in 1 .. Len(c) |-> IF i = 1 THEN c[i] ELSE g[i - 1] \o c[i]]
      BY <2>1, Zenon DEF Flattens
    <3>2. f = [i \in 1 .. Len(c) |-> IF i = 1 THEN c[i] ELSE f[i - 1] \o c[i]]
      BY <3>1, Zenon
    <3> HIDE DEF f
    <3> QED BY <3>2, Zenon DEF Flattens
  <2>3. FlattenSeq(c) = f[Len(c)]
    BY <1>3 DEF FlattenSeq
  <2> HIDE DEF f
  <2>4. f[Len(c)] = F[Len(c)]
    <3> DEFINE E == {k \in Nat : k + 1 <= Len(c) => f[k + 1] = F[k + 1]}
    <3>0. /\ f = [i \in 1 .. Len(c) |-> IF i = 1 THEN c[i] ELSE f[i - 1] \o c[i]]
          /\ G = [i \in 1 .. Len(c) |-> IF i = 1 THEN c[i] ELSE G[i - 1] \o c[i]]
      BY <2>1, <2>2, Zenon DEF Flattens
    <3>1. \A i \in 1 .. Len(c) :
            /\ f[i] = IF i = 1 THEN c[i] ELSE f[i - 1] \o c[i]
            /\ G[i] = IF i = 1 THEN c[i] ELSE G[i - 1] \o c[i]
      BY <3>0, Zenon
    <3>2. 0 \in E
      <4>1. 1 \in 1 .. Len(c) /\ 0 + 1 = 1
        BY <1>0, <1>3
      <4>2. G[1] = F[1]
        BY <4>1
      <4>3. f[1] = F[1]
        BY <3>1, <4>1, <4>2, Zenon
      <4> QED BY <4>1, <4>3
    <3>3. ASSUME NEW k \in E PROVE k + 1 \in E
      <4>1. k \in Nat /\ (k + 1 <= Len(c) => f[k + 1] = F[k + 1])
        OBVIOUS
      <4>2. ASSUME k + 1 + 1 <= Len(c) PROVE f[k + 1 + 1] = F[k + 1 + 1]
        <5>1. /\ k + 1 + 1 \in 1 .. Len(c) /\ k + 1 \in 1 .. Len(c) /\ k + 1 + 1 # 1
              /\ k + 1 + 1 - 1 = k + 1 /\ k + 1 <= Len(c)
          BY <1>0, <4>1, <4>2
        <5> PICK i \in 1 .. Len(c), j \in 1 .. Len(c) :
                 i = k + 1 + 1 /\ j = k + 1 /\ i # 1 /\ i - 1 = j
          BY <5>1
        <5>2. f[i] = f[j] \o c[i]
          BY <3>1, Zenon
        <5>3. F[i] = F[j] \o c[i]
          BY <1>1, Zenon
        <5> QED BY <4>1, <5>1, <5>2, <5>3, Zenon
      <4> QED BY <4>1, <4>2
    <3> HIDE DEF E
    <3>4. E \in SUBSET Nat
      BY DEF E
    <3>5. \A k \in Nat : k \in E
      BY <3>2, <3>3, <3>4, SetInduction, Zenon
    <3>6. Len(c) - 1 \in Nat /\ Len(c) - 1 + 1 = Len(c)
      BY <1>0, <1>3
    <3>7. Len(c) - 1 \in E
      BY <3>5, <3>6
    <3> QED BY <3>6, <3>7 DEF E
  <2> QED BY <2>3, <2>4
<1> QED BY <1>2, <1>3
LEMMA InConcat ==
  ASSUME NEW O, NEW s \in Seq(O), NEW t \in Seq(O), NEW x
  PROVE  In(s \o t, x) <=> In(s, x) \/ In(t, x)
<1> DEFINE r == s \o t
<1>1. /\ Len(s) \in Nat /\ Len(t) \in Nat /\ Len(r) = Len(s) + Len(t)
      /\ \A i \in 1 .. Len(r) : r[i] = IF i <= Len(s) THEN s[i] ELSE t[i - Len(s)]
  OBVIOUS
<1> HIDE DEF r
<1>2. ASSUME In(r, x) PROVE In(s, x) \/ In(t, x)
  <2>1. PICK i \in 1 .. Len(r) : r[i] = x
    BY <1>2 DEF In
  <2>2. i \in 1 .. Len(s) \/ (~(i <= Len(s)) /\ i - Len(s) \in 1 .. Len(t))
    BY <1>1
  <2> QED BY <1>1, <2>1, <2>2 DEF In
<1>3. ASSUME In(s, x) PROVE In(r, x)
  <2>1. PICK i \in 1 .. Len(s) : s[i] = x
    BY <1>3 DEF In
  <2>2. i \in 1 .. Len(r) /\ i <= Len(s)
    BY <1>1
  <2> QED BY <1>1, <2>1, <2>2 DEF In
<1>4. ASSUME In(t, x) PROVE In(r, x)
  <2>1. PICK i \in 1 .. Len(t) : t[i] = x
    BY <1>4 DEF In
  <2>2. PICK j \in 1 .. Len(r) : ~(j <= Len(s)) /\ j - Len(s) = i
    <3>1. Len(s) + i \in 1 .. Len(r) /\ ~(Len(s) + i <= Len(s)) /\ Len(s) + i - Len(s) = i
      BY <1>1
    <3> QED BY <3>1
  <2> QED BY <1>1, <2>1, <2>2 DEF In
<1> QED BY <1>2, <1>3, <1>4 DEF r

\* Everything in s is there once.
Once(s) == \A i, j \in 1 .. Len(s) : s[i] = s[j] => i = j

LEMMA OnceConcat ==
  ASSUME NEW O, NEW s \in Seq(O), NEW t \in Seq(O), Once(s), Once(t),
         \A x : ~(In(s, x) /\ In(t, x))
  PROVE  Once(s \o t)
<1> DEFINE r == s \o t
<1>1. /\ Len(s) \in Nat /\ Len(t) \in Nat /\ Len(r) = Len(s) + Len(t)
      /\ \A i \in 1 .. Len(r) : r[i] = IF i <= Len(s) THEN s[i] ELSE t[i - Len(s)]
  OBVIOUS
<1> HIDE DEF r
<1>2. ASSUME NEW i \in 1 .. Len(r), NEW j \in 1 .. Len(r), r[i] = r[j] PROVE i = j
  <2>1. CASE i <= Len(s) /\ j <= Len(s)
    <3>1. i \in 1 .. Len(s) /\ j \in 1 .. Len(s)
      BY <1>1, <2>1
    <3>2. s[i] = s[j]
      BY <1>1, <1>2, <2>1
    <3> QED BY <3>1, <3>2 DEF Once
  <2>2. CASE ~(i <= Len(s)) /\ ~(j <= Len(s))
    <3>0. i - Len(s) \in 1 .. Len(t) /\ j - Len(s) \in 1 .. Len(t)
      BY <1>1, <2>2
    <3> PICK k \in 1 .. Len(t) : k = i - Len(s)
      BY <3>0
    <3> PICK l \in 1 .. Len(t) : l = j - Len(s)
      BY <3>0
    <3>1. t[k] = t[l]
      BY <1>1, <1>2, <2>2
    <3>2. k = l
      BY <3>1 DEF Once
    <3> QED BY <1>1, <3>2
  <2>3. CASE i <= Len(s) /\ ~(j <= Len(s))
    <3>1. i \in 1 .. Len(s) /\ j - Len(s) \in 1 .. Len(t)
      BY <1>1, <2>3
    <3>2. In(s, s[i]) /\ In(t, t[j - Len(s)])
      BY <3>1 DEF In
    <3> QED BY <1>1, <1>2, <2>3, <3>2
  <2>4. CASE ~(i <= Len(s)) /\ j <= Len(s)
    <3>1. j \in 1 .. Len(s) /\ i - Len(s) \in 1 .. Len(t)
      BY <1>1, <2>4
    <3>2. In(s, s[j]) /\ In(t, t[i - Len(s)])
      BY <3>1 DEF In
    <3> QED BY <1>1, <1>2, <2>4, <3>2
  <2> QED BY <2>1, <2>2, <2>3, <2>4
<1> QED BY <1>2 DEF Once, r

LEMMA JoinsHold ==
  ASSUME NEW O, NEW c \in Seq(Seq(O)), NEW n \in Nat, n <= Len(c), NEW F, Joins(F, O, c, n),
         \A i \in 1 .. n : Once(c[i]),
         \A i, j \in 1 .. n : \A x : In(c[i], x) /\ In(c[j], x) => i = j
  PROVE  /\ \A x : In(F[n], x) <=> \E i \in 1 .. n : In(c[i], x)
         /\ Once(F[n])
<1> DEFINE D == {k \in Nat : k <= n =>
                   /\ \A x : In(F[k], x) <=> \E i \in 1 .. k : In(c[i], x)
                   /\ Once(F[k])}
<1>1. /\ F \in [0 .. n -> Seq(O)] /\ F[0] = <<>>
      /\ \A i \in 1 .. n : F[i] = F[i - 1] \o c[i]
  BY Zenon DEF Joins
<1>2. 0 \in D
  <2>1. \A x : ~In(<<>>, x)
    BY DEF In
  <2>2. Once(<<>>)
    BY DEF Once
  <2>3. \A x : ~(\E i \in 1 .. 0 : In(c[i], x))
    OBVIOUS
  <2> QED BY <1>1, <2>1, <2>2, <2>3
<1>3. ASSUME NEW k \in D PROVE k + 1 \in D
  <2> SUFFICES ASSUME k + 1 <= n
               PROVE  /\ \A x : In(F[k + 1], x) <=> \E i \in 1 .. k + 1 : In(c[i], x)
                      /\ Once(F[k + 1])
    OBVIOUS
  <2>1. /\ k \in Nat /\ k <= n /\ k + 1 \in 1 .. n /\ k \in 0 .. n /\ k + 1 \in 1 .. Len(c)
        /\ k + 1 - 1 = k
    OBVIOUS
  <2>2. \A x : In(F[k], x) <=> \E i \in 1 .. k : In(c[i], x)
    BY <2>1
  <2>3. Once(F[k])
    BY <2>1
  <2> HIDE DEF D
  <2> PICK l \in 1 .. n : l = k + 1 /\ l - 1 = k
    BY <2>1
  <2>4. F[l] = F[k] \o c[l]
    BY <1>1, Zenon
  <2>5. F[k] \in Seq(O) /\ c[l] \in Seq(O)
    BY <1>1, <2>1
  <2>6. \A x : In(F[l], x) <=> In(F[k], x) \/ In(c[l], x)
    BY <2>4, <2>5, InConcat
  <2>7. \A i \in 1 .. l : i \in 1 .. k \/ i = l
    BY <2>1
  <2>8. \A i \in 1 .. k : i \in 1 .. l /\ i \in 1 .. n /\ i # l
    BY <2>1
  <2>9. \A x : In(F[l], x) <=> \E i \in 1 .. l : In(c[i], x)
    <3>1. l \in 1 .. l
      BY <2>1
    <3> QED BY <2>2, <2>6, <2>7, <2>8, <3>1, Zenon
  <2>10. \A x : ~(In(F[k], x) /\ In(c[l], x))
    BY <2>2, <2>8, Zenon
  <2>11. Once(F[l])
    BY <2>3, <2>4, <2>5, <2>10, OnceConcat
  <2> QED BY <2>9, <2>11
<1> HIDE DEF D
<1>4. D \in SUBSET Nat
  BY DEF D
<1>5. n \in D
  BY <1>2, <1>3, <1>4, SetInduction, Zenon
<1>6. n <= n
  OBVIOUS
<1> QED BY <1>5, <1>6 DEF D
\* The buckets in any order, one list behind the other: every element once.
Ordered(O, Z, g, m, c) ==
  /\ g \in [1 .. m -> 0 .. m - 1]
  /\ \A i, j \in 1 .. m : g[i] = g[j] => i = j
  /\ \A k \in 0 .. m - 1 : \E i \in 1 .. m : g[i] = k
  /\ c \in Seq(Seq(O)) /\ Len(c) = m /\ \A i \in 1 .. m : c[i] = Z[g[i]]

LEMMA BucketsListed ==
  ASSUME NEW O, NEW nil, NEW slot, NEW m, NEW Z, NEW d, NEW n, NEW p,
         Bucketed(O, nil, slot, m, Z, d, n, p),
         NEW g, NEW c, Ordered(O, Z, g, m, c)
  PROVE  /\ FlattenSeq(c) \in Seq(O) /\ Once(FlattenSeq(c))
         /\ \A x : In(FlattenSeq(c), x) <=> x \in O /\ In(Z[slot[x]], x)
<1>1. /\ m \in Nat /\ Z \in [0 .. m - 1 -> Seq(O)] /\ slot \in [O -> 0 .. m - 1]
      /\ \A i \in 0 .. m - 1 : Chained(O, nil, Z[i], d[i], End(Z[i], nil), n, p)
      /\ \A i \in 0 .. m - 1 : \A j \in 1 .. Len(Z[i]) : slot[Z[i][j]] = i
  BY DEF Bucketed
<1>2. c \in Seq(Seq(O)) /\ Len(c) = m /\ \A i \in 1 .. m : c[i] = Z[g[i]]
  BY DEF Ordered
<1>0. /\ g \in [1 .. m -> 0 .. m - 1] /\ \A i, j \in 1 .. m : g[i] = g[j] => i = j
      /\ \A k \in 0 .. m - 1 : \E i \in 1 .. m : g[i] = k
  BY Zenon DEF Ordered
<1>3. \A i \in 0 .. m - 1 : Once(Z[i]) /\ \A x : In(Z[i], x) => x \in O /\ slot[x] = i
  <2> SUFFICES ASSUME NEW i \in 0 .. m - 1
               PROVE  Once(Z[i]) /\ \A x : In(Z[i], x) => x \in O /\ slot[x] = i
    OBVIOUS
  <2>1. Chained(O, nil, Z[i], d[i], End(Z[i], nil), n, p)
    BY <1>1
  <2>2. Once(Z[i])
    BY <2>1, ChainedParts DEF Once
  <2>3. \A j \in 1 .. Len(Z[i]) : Z[i][j] \in O /\ slot[Z[i][j]] = i
    BY <1>1, <2>1, ChainedParts
  <2> QED BY <2>2, <2>3 DEF In
<1>4. \A i \in 1 .. m : Once(c[i])
  BY <1>0, <1>2, <1>3
<1>5. \A i, j \in 1 .. m : \A x : In(c[i], x) /\ In(c[j], x) => i = j
  <2> SUFFICES ASSUME NEW i \in 1 .. m, NEW j \in 1 .. m, NEW x, In(c[i], x), In(c[j], x)
               PROVE  i = j
    OBVIOUS
  <2>1. slot[x] = g[i] /\ slot[x] = g[j]
    BY <1>0, <1>2, <1>3, Zenon
  <2> QED BY <1>0, <2>1, Zenon
<1>6. m <= Len(c)
  BY <1>1, <1>2
<1> PICK F : Joins(F, O, c, m)
  BY <1>1, <1>2, <1>6, JoinsThere
<1>7. FlattenSeq(c) = F[m]
  <2>1. Joins(F, O, c, Len(c)) /\ c \in Seq(Seq(O))
    BY <1>2
  <2>2. \A b \in Seq(Seq(O)) : \A f : Joins(f, O, b, Len(b)) => FlattenSeq(b) = f[Len(b)]
    BY FlattenJoins
  <2>3. FlattenSeq(c) = F[Len(c)]
    BY <2>1, <2>2, Zenon
  <2> QED BY <1>2, <2>3
<1>8. /\ \A x : In(F[m], x) <=> \E i \in 1 .. m : In(c[i], x)
      /\ Once(F[m])
  BY <1>1, <1>2, <1>4, <1>5, <1>6, JoinsHold, Zenon
<1>9. F[m] \in Seq(O)
  BY <1>1 DEF Joins
<1>10. ASSUME NEW x PROVE (\E i \in 1 .. m : In(c[i], x)) <=> x \in O /\ In(Z[slot[x]], x)
  <2>1. ASSUME NEW i \in 1 .. m, In(c[i], x) PROVE x \in O /\ In(Z[slot[x]], x)
    <3>1. g[i] \in 0 .. m - 1 /\ In(Z[g[i]], x)
      BY <1>0, <1>2, <2>1, Zenon
    <3>2. x \in O /\ slot[x] = g[i]
      BY <1>3, <3>1
    <3> QED BY <3>1, <3>2
  <2>2. ASSUME x \in O, In(Z[slot[x]], x) PROVE \E i \in 1 .. m : In(c[i], x)
    <3>1. slot[x] \in 0 .. m - 1
      BY <1>1, <2>2
    <3> PICK i \in 1 .. m : g[i] = slot[x]
      BY <1>0, <3>1
    <3> QED BY <1>2, <2>2
  <2> QED BY <2>1, <2>2
<1> QED BY <1>7, <1>8, <1>9, <1>10

\* What is in a sequence once is counted by its places.
Places(s, W) == {i \in DOMAIN s : s[i] \in W}

Elements(O, s, W) == {x \in O : In(s, x) /\ x \in W}

LEMMA OnceCounts ==
  ASSUME NEW O, NEW s \in Seq(O), Once(s), NEW W
  PROVE  Cardinality(Places(s, W)) = Cardinality(Elements(O, s, W))
<1> DEFINE I == {i \in DOMAIN s : s[i] \in W}
           X == {x \in O : In(s, x) /\ x \in W}
           f == [i \in I |-> s[i]]
<1>1. DOMAIN s = 1 .. Len(s) /\ Len(s) \in Nat /\ \A i \in 1 .. Len(s) : s[i] \in O
  OBVIOUS
<1>2. IsFiniteSet(I)
  <2>1. IsFiniteSet(1 .. Len(s))
    BY <1>1, FS_Interval
  <2>2. I \subseteq 1 .. Len(s)
    BY <1>1
  <2> HIDE DEF I
  <2> QED BY <2>1, <2>2, FS_Subset, Zenon
<1>3. f \in [I -> X]
  <2>1. ASSUME NEW i \in I PROVE s[i] \in X
    <3>1. i \in 1 .. Len(s) /\ s[i] \in W /\ s[i] \in O
      BY <1>1
    <3>2. In(s, s[i])
      BY <3>1 DEF In
    <3> QED BY <3>1, <3>2
  <2> HIDE DEF I, X
  <2> QED BY <2>1
<1>4. \A i, j \in I : f[i] = f[j] => i = j
  BY <1>1 DEF Once
<1>5. ASSUME NEW x \in X PROVE \E i \in I : f[i] = x
  <2> PICK i \in 1 .. Len(s) : s[i] = x
    BY DEF In
  <2>1. i \in I
    BY <1>1
  <2> QED BY <2>1
<1> HIDE DEF I, X, f
<1>6. f \in Bijection(I, X)
  <2>1. DOMAIN f = I
    BY <1>3
  <2>2. IsInjective(f)
    BY <1>4, <2>1 DEF IsInjective
  <2>3. f \in Injection(I, X)
    BY <1>3, <2>2 DEF Injection
  <2>4. f \in Surjection(I, X)
    BY <1>3, <1>5 DEF Surjection
  <2> QED BY <2>3, <2>4 DEF Bijection
<1>7. ExistsBijection(I, X)
  BY <1>6 DEF ExistsBijection
<1>8. IsFiniteSet(X) /\ Cardinality(X) = Cardinality(I)
  BY <1>2, <1>7, FS_Bijection
<1> QED BY <1>8 DEF I, X, Places, Elements

-----------------------------------------------------------------------------
\* Lists one behind the other, met by an iteration.

\* w is r with s behind it.
IsConcat(r, s, w) ==
  /\ Len(r) \in Nat /\ Len(s) \in Nat /\ Len(w) = Len(r) + Len(s)
  /\ \A k \in 1 .. Len(r) : w[k] = r[k]
  /\ \A k \in 1 .. Len(s) : w[Len(r) + k] = s[k]

LEMMA ConcatAt ==
  ASSUME NEW O, NEW r \in Seq(O), NEW s \in Seq(O)
  PROVE  IsConcat(r, s, r \o s)
<1> DEFINE w == r \o s
<1>1. /\ Len(r) \in Nat /\ Len(s) \in Nat /\ Len(w) = Len(r) + Len(s)
      /\ \A k \in 1 .. Len(w) : w[k] = IF k <= Len(r) THEN r[k] ELSE s[k - Len(r)]
  OBVIOUS
<1> HIDE DEF w
<1>2. ASSUME NEW k \in 1 .. Len(r) PROVE w[k] = r[k]
  <2>1. k \in 1 .. Len(w) /\ k <= Len(r)
    BY <1>1
  <2> QED BY <1>1, <2>1
<1>3. ASSUME NEW k \in 1 .. Len(s) PROVE w[Len(r) + k] = s[k]
  <2> PICK x \in 1 .. Len(w) : x = Len(r) + k /\ ~(x <= Len(r)) /\ x - Len(r) = k
    <3>1. Len(r) + k \in 1 .. Len(w) /\ ~(Len(r) + k <= Len(r)) /\ Len(r) + k - Len(r) = k
      BY <1>1
    <3> QED BY <3>1
  <2> QED BY <1>1
<1>4. IsConcat(r, s, w)
  BY <1>1, <1>2, <1>3 DEF IsConcat
<1> QED BY <1>4 DEF w

\* F[i] is the lists 1 to i, one behind the other.
Grow(F, O, c, n) ==
  /\ \A i \in 0 .. n : F[i] \in Seq(O) /\ Len(F[i]) \in Nat
  /\ \A i \in 1 .. n : IsConcat(F[i - 1], c[i], F[i])
  /\ F[0] = <<>>

LEMMA JoinsGrow ==
  ASSUME NEW O, NEW c \in Seq(Seq(O)), NEW n \in Nat, n <= Len(c), NEW F, Joins(F, O, c, n)
  PROVE  Grow(F, O, c, n)
<1>1. /\ F \in [0 .. n -> Seq(O)] /\ F[0] = <<>>
      /\ \A i \in 1 .. n : F[i] = F[i - 1] \o c[i]
  BY Zenon DEF Joins
<1>2. \A i \in 0 .. n : F[i] \in Seq(O) /\ Len(F[i]) \in Nat
  BY <1>1
<1>3. ASSUME NEW i \in 1 .. n PROVE IsConcat(F[i - 1], c[i], F[i])
  <2>1. i - 1 \in 0 .. n /\ i \in 1 .. Len(c)
    OBVIOUS
  <2>2. F[i - 1] \in Seq(O) /\ c[i] \in Seq(O)
    BY <1>2, <2>1
  <2>3. IsConcat(F[i - 1], c[i], F[i - 1] \o c[i])
    BY <2>2, ConcatAt
  <2> QED BY <1>1, <2>3, Zenon
<1> QED BY <1>1, <1>2, <1>3 DEF Grow

\* What is joined first stays first, and nothing comes with empty lists.
Begins(F, c, a, x) ==
  /\ Len(F[a]) <= Len(F[x])
  /\ \A k \in 1 .. Len(F[a]) : F[x][k] = F[a][k]
  /\ (\A z \in a + 1 .. x : Len(c[z]) = 0) => Len(F[x]) = Len(F[a])

LEMMA AtMostSum ==
  ASSUME NEW u \in Nat, NEW v \in Nat, NEW o \in Nat, NEW w, w = v + o, u <= v
  PROVE  u <= w /\ v <= w /\ (u = v /\ o = 0 => w = u) /\ 1 .. u \subseteq 1 .. v
OBVIOUS

LEMMA SumOn ==
  ASSUME NEW p \in Nat, NEW j \in Int, NEW l, l = p + j, NEW i, i = j + 1
  PROVE  l + 1 = p + i
OBVIOUS

LEMMA WithinSum ==
  ASSUME NEW p \in Nat, NEW u \in Nat, NEW w, w = p + u, NEW z \in Nat, w <= z, NEW j \in 1 .. u
  PROVE  p + j \in 1 .. w /\ p + j <= z /\ p + (j + 1) = p + j + 1
OBVIOUS

LEMMA BeginsOn ==
  ASSUME NEW c, NEW F, NEW a \in Nat, NEW x \in Nat, a <= x, Begins(F, c, a, x),
         NEW y \in Nat, y = x + 1, IsConcat(F[x], c[y], F[y]), Len(F[a]) \in Nat
  PROVE  Begins(F, c, a, y)
<1>1. /\ Len(F[x]) \in Nat /\ Len(c[y]) \in Nat /\ Len(F[y]) = Len(F[x]) + Len(c[y])
      /\ \A k \in 1 .. Len(F[x]) : F[y][k] = F[x][k]
  BY DEF IsConcat
<1>2. /\ Len(F[a]) <= Len(F[x])
      /\ \A k \in 1 .. Len(F[a]) : F[x][k] = F[a][k]
  BY DEF Begins
<1>3. /\ Len(F[a]) <= Len(F[y])
      /\ Len(F[a]) = Len(F[x]) /\ Len(c[y]) = 0 => Len(F[y]) = Len(F[a])
      /\ 1 .. Len(F[a]) \subseteq 1 .. Len(F[x])
  <2>1. \A u, v, o \in Nat : u <= v => u <= v + o /\ (u = v /\ o = 0 => v + o = u)
    BY AtMostSum
  <2>2. \A u, v \in Nat : u <= v => 1 .. u \subseteq 1 .. v
    OBVIOUS
  <2>3. /\ Len(F[a]) <= Len(F[y])
        /\ Len(F[a]) = Len(F[x]) /\ Len(c[y]) = 0 => Len(F[y]) = Len(F[a])
    <3>1. Len(F[a]) \in Nat /\ Len(F[x]) \in Nat /\ Len(c[y]) \in Nat /\ Len(F[a]) <= Len(F[x])
      BY <1>1, <1>2
    <3>2. /\ Len(F[a]) <= Len(F[x]) + Len(c[y])
          /\ Len(F[a]) = Len(F[x]) /\ Len(c[y]) = 0 => Len(F[x]) + Len(c[y]) = Len(F[a])
      BY <2>1, <3>1, Zenon
    <3> QED BY <1>1, <3>2, Zenon
  <2>4. 1 .. Len(F[a]) \subseteq 1 .. Len(F[x])
    BY <1>1, <1>2, <2>2, Zenon
  <2> QED BY <2>3, <2>4
<1>4. \A k \in 1 .. Len(F[a]) : F[y][k] = F[a][k]
  BY <1>1, <1>2, <1>3
<1>5. ASSUME \A w \in a + 1 .. y : Len(c[w]) = 0 PROVE Len(F[y]) = Len(F[a])
  <2>1. y \in a + 1 .. y /\ \A w \in a + 1 .. x : w \in a + 1 .. y
    OBVIOUS
  <2>2. Len(c[y]) = 0
    BY <1>5, <2>1
  <2>3. Len(F[x]) = Len(F[a])
    BY <1>5, <2>1 DEF Begins
  <2> QED BY <1>3, <2>2, <2>3
<1> QED BY <1>3, <1>4, <1>5 DEF Begins

LEMMA JoinsBegin ==
  ASSUME NEW O, NEW c, NEW n \in Nat, NEW F, Grow(F, O, c, n),
         NEW a \in 0 .. n, NEW b \in a .. n
  PROVE  Begins(F, c, a, b)
<1> DEFINE D == {d \in Nat : a + d <= n => Begins(F, c, a, a + d)}
<1>0. /\ \A i \in 0 .. n : Len(F[i]) \in Nat
      /\ \A i \in 1 .. n : IsConcat(F[i - 1], c[i], F[i])
  BY DEF Grow
<1> HIDE DEF D
<1>1. 0 \in D
  <2>1. Begins(F, c, a, a)
    BY <1>0 DEF Begins
  <2>2. a + 0 = a
    OBVIOUS
  <2> QED BY <2>1, <2>2 DEF D
<1>2. ASSUME NEW d \in D PROVE d + 1 \in D
  <2>1. d \in Nat /\ (a + d <= n => Begins(F, c, a, a + d))
    BY DEF D
  <2>2. ASSUME a + (d + 1) <= n PROVE Begins(F, c, a, a + (d + 1))
    <3> PICK x \in 0 .. n, y \in 1 .. n :
             x = a + d /\ y = a + (d + 1) /\ y - 1 = x /\ y = x + 1 /\ a <= x
      BY <2>1, <2>2
    <3>1. Begins(F, c, a, x) /\ IsConcat(F[x], c[y], F[y]) /\ Len(F[a]) \in Nat
      BY <1>0, <2>1
    <3>2. a \in Nat /\ x \in Nat /\ y \in Nat
      OBVIOUS
    <3>3. Begins(F, c, a, y)
      BY <3>1, <3>2, BeginsOn, Zenon
    <3> QED BY <3>3
  <2> QED BY <2>1, <2>2 DEF D
<1>3. \A d \in Nat : d \in D
  <2>1. D \in SUBSET Nat
    BY DEF D
  <2> QED BY <1>1, <1>2, <2>1, SetInduction
<1>4. b - a \in Nat /\ a + (b - a) = b /\ b <= n
  OBVIOUS
<1>5. b - a \in D
  BY <1>3, <1>4
<1> QED BY <1>4, <1>5 DEF D

LEMMA JoinsAt ==
  ASSUME NEW O, NEW c, NEW n \in Nat, NEW F, Grow(F, O, c, n),
         NEW x \in 1 .. n, NEW j \in 1 .. Len(c[x])
  PROVE  /\ Len(F[x - 1]) \in Nat /\ Len(F[n]) \in Nat
         /\ Len(F[x - 1]) + j <= Len(F[n])
         /\ F[n][Len(F[x - 1]) + j] = c[x][j]
<1>1. x - 1 \in 0 .. n /\ x \in 0 .. n /\ n \in x .. n /\ n \in 0 .. n
  OBVIOUS
<1>2. /\ Len(F[x - 1]) \in Nat /\ Len(F[x]) \in Nat /\ Len(F[n]) \in Nat
      /\ IsConcat(F[x - 1], c[x], F[x])
  BY <1>1 DEF Grow
<1>3. Begins(F, c, x, n)
  BY <1>1, JoinsBegin
<1>4. /\ Len(c[x]) \in Nat /\ Len(F[x]) = Len(F[x - 1]) + Len(c[x])
      /\ \A k \in 1 .. Len(c[x]) : F[x][Len(F[x - 1]) + k] = c[x][k]
  BY <1>2 DEF IsConcat
<1>5. /\ Len(F[x]) <= Len(F[n])
      /\ \A k \in 1 .. Len(F[x]) : F[n][k] = F[x][k]
  BY <1>3 DEF Begins
<1>6. Len(F[x - 1]) + j \in 1 .. Len(F[x]) /\ Len(F[x - 1]) + j <= Len(F[n])
  BY <1>2, <1>4, <1>5, WithinSum, Zenon
<1>7. F[n][Len(F[x - 1]) + j] = c[x][j]
  BY <1>4, <1>5, <1>6, Zenon
<1> QED BY <1>2, <1>6, <1>7

\* The iteration e has come to the first list behind the list x that has an
\* element, or to the end.
Lands(e, nil, c, m, g, x) ==
  \/ e.ptr = nil /\ \A y \in x + 1 .. m : Len(c[y]) = 0
  \/ \E y \in x + 1 .. m :
       /\ Len(c[y]) # 0 /\ e.i = g[y] /\ e.ptr = c[y][1]
       /\ \A z \in x + 1 .. y - 1 : Len(c[z]) = 0

\* it goes along the lists.
Iterates(it, O, nil, c, m, g, link, n) ==
  /\ Lands(it[0], nil, c, m, g, 0)
  /\ \A k \in 1 .. n :
       IF it[k - 1].ptr = nil THEN it[k] = it[k - 1]
       ELSE IF link[it[k - 1].ptr] # nil
            THEN it[k].i = it[k - 1].i /\ it[k].ptr = link[it[k - 1].ptr]
            ELSE \A x \in 1 .. m : it[k - 1].i = g[x] => Lands(it[k], nil, c, m, g, x)

\* The lists are linked.
LinkedLists(O, nil, c, m, link) ==
  \A x \in 1 .. m : \A j \in 1 .. Len(c[x]) :
    c[x][j] # nil /\ link[c[x][j]] = IF j = Len(c[x]) THEN nil ELSE c[x][j + 1]

\* e is at the place k of the lists.
AtPlace(e, nil, c, m, g, F, k) ==
  \/ e.ptr = nil /\ k > Len(F[m])
  \/ \E x \in 1 .. m : \E j \in 1 .. Len(c[x]) :
       e.i = g[x] /\ e.ptr = c[x][j] /\ k = Len(F[x - 1]) + j

LEMMA LandsAt ==
  ASSUME NEW O, NEW nil, NEW c, NEW m \in Nat, NEW F,
         Grow(F, O, c, m), NEW g, NEW e, NEW x \in 0 .. m, Lands(e, nil, c, m, g, x)
  PROVE  AtPlace(e, nil, c, m, g, F, Len(F[x]) + 1)
<1>0. /\ \A i \in 0 .. m : F[i] \in Seq(O) /\ Len(F[i]) \in Nat
      /\ \A i \in 1 .. m : Len(c[i]) \in Nat
  BY DEF Grow, IsConcat
<1>1. CASE e.ptr = nil /\ \A y \in x + 1 .. m : Len(c[y]) = 0
  <2>1. m \in x .. m
    OBVIOUS
  <2>2. Len(F[m]) = Len(F[x])
    <3>1. Begins(F, c, x, m)
      BY <2>1, JoinsBegin
    <3> QED BY <1>1, <3>1 DEF Begins
  <2>3. Len(F[x]) + 1 > Len(F[m])
    BY <1>0, <2>2
  <2> QED BY <1>1, <2>3 DEF AtPlace
<1>2. ASSUME NEW y \in x + 1 .. m, Len(c[y]) # 0, e.i = g[y], e.ptr = c[y][1],
             \A z \in x + 1 .. y - 1 : Len(c[z]) = 0
      PROVE  AtPlace(e, nil, c, m, g, F, Len(F[x]) + 1)
  <2>1. y \in 1 .. m /\ y - 1 \in x .. m
    OBVIOUS
  <2>2. Len(F[y - 1]) = Len(F[x])
    <3>1. Begins(F, c, x, y - 1)
      BY <2>1, JoinsBegin
    <3> QED BY <1>2, <3>1 DEF Begins
  <2>3. 1 \in 1 .. Len(c[y])
    BY <1>0, <1>2, <2>1
  <2> QED BY <1>2, <2>1, <2>2, <2>3, Zenon DEF AtPlace
<1> QED BY <1>1, <1>2 DEF Lands

\* An iteration meets what is in the lists, in their order.
LEMMA IterationMeets ==
  ASSUME NEW O, NEW nil, NEW c, NEW m \in Nat, NEW F,
         Grow(F, O, c, m), NEW g, NEW link, LinkedLists(O, nil, c, m, link),
         NEW n \in Nat, NEW it, Iterates(it, O, nil, c, m, g, link, n)
  PROVE  \A k \in 0 .. n : AtPlace(it[k], nil, c, m, g, F, k + 1)
<1> DEFINE D == {k \in Nat : k <= n => AtPlace(it[k], nil, c, m, g, F, k + 1)}
<1>0. /\ \A i \in 0 .. m : F[i] \in Seq(O) /\ Len(F[i]) \in Nat
      /\ \A i \in 1 .. m : Len(c[i]) \in Nat /\ Len(F[i]) = Len(F[i - 1]) + Len(c[i])
      /\ F[0] = <<>> /\ 0 \in 0 .. m
  <2>1. 0 \in 0 .. m
    OBVIOUS
  <2> QED BY <2>1, Zenon DEF Grow, IsConcat
<1> HIDE DEF D
<1>1. 0 \in D
  <2>1. Lands(it[0], nil, c, m, g, 0)
    BY DEF Iterates
  <2>2. AtPlace(it[0], nil, c, m, g, F, Len(F[0]) + 1)
    BY <1>0, <2>1, LandsAt
  <2>3. Len(F[0]) + 1 = 0 + 1
    BY <1>0
  <2> QED BY <2>2, <2>3 DEF D
<1>2. ASSUME NEW k \in D PROVE k + 1 \in D
  <2>1. k \in Nat /\ (k <= n => AtPlace(it[k], nil, c, m, g, F, k + 1))
    BY DEF D
  <2>2. ASSUME k + 1 <= n PROVE AtPlace(it[k + 1], nil, c, m, g, F, k + 1 + 1)
    <3> PICK l \in 1 .. n : l = k + 1 /\ l - 1 = k
      BY <2>1, <2>2
    <3>0. AtPlace(it[k], nil, c, m, g, F, l) /\ Len(F[m]) \in Nat
      BY <1>0, <2>1, <2>2
    <3>1. IF it[k].ptr = nil THEN it[l] = it[k]
          ELSE IF link[it[k].ptr] # nil
               THEN it[l].i = it[k].i /\ it[l].ptr = link[it[k].ptr]
               ELSE \A x \in 1 .. m : it[k].i = g[x] => Lands(it[l], nil, c, m, g, x)
      BY DEF Iterates
    <3>2. CASE it[k].ptr = nil
      <4>1. l > Len(F[m])
        BY <3>0, <3>2 DEF AtPlace, LinkedLists
      <4>2. l + 1 > Len(F[m])
        BY <3>0, <4>1
      <4> QED BY <3>1, <3>2, <4>2 DEF AtPlace
    <3>3. CASE it[k].ptr # nil
      <4> PICK x \in 1 .. m : \E j \in 1 .. Len(c[x]) :
               it[k].i = g[x] /\ it[k].ptr = c[x][j] /\ l = Len(F[x - 1]) + j
        BY <3>0, <3>3, Zenon DEF AtPlace
      <4> PICK j \in 1 .. Len(c[x]) :
               it[k].i = g[x] /\ it[k].ptr = c[x][j] /\ l = Len(F[x - 1]) + j
        OBVIOUS
      <4>1. c[x][j] # nil /\ link[c[x][j]] = IF j = Len(c[x]) THEN nil ELSE c[x][j + 1]
        BY Zenon DEF LinkedLists
      <4>2. Len(c[x]) \in Nat /\ Len(F[x]) = Len(F[x - 1]) + Len(c[x]) /\ Len(F[x - 1]) \in Nat
        <5>1. x - 1 \in 0 .. m
          OBVIOUS
        <5> QED BY <1>0, <5>1, Zenon
      <4>3. CASE j # Len(c[x])
        <5> PICK i \in 1 .. Len(c[x]) : i = j + 1
          BY <4>2, <4>3
        <5>1. c[x][i] # nil /\ link[c[x][j]] = c[x][i]
          BY <4>1, <4>3 DEF LinkedLists
        <5>2. it[l].i = g[x] /\ it[l].ptr = c[x][i]
          BY <3>1, <3>3, <5>1
        <5>3. l + 1 = Len(F[x - 1]) + i
          <6>1. j \in Int
            OBVIOUS
          <6>2. \A p \in Nat, z \in Int : p + z + 1 = p + (z + 1)
            BY SumOn
          <6> QED BY <4>2, <6>1, <6>2, Zenon
        <5> QED BY <5>2, <5>3, Zenon DEF AtPlace
      <4>4. CASE j = Len(c[x])
        <5>1. Lands(it[l], nil, c, m, g, x)
          BY <3>1, <3>3, <4>1, <4>4
        <5>2. x \in 0 .. m
          OBVIOUS
        <5>3. l = Len(F[x])
          BY <4>4, <4>2, Zenon
        <5> QED BY <5>1, <5>2, <5>3, LandsAt
      <4> QED BY <4>3, <4>4
    <3> QED BY <3>2, <3>3
  <2>3. k + 1 \in Nat
    BY <2>1
  <2> QED BY <2>2, <2>3 DEF D
<1>3. \A k \in Nat : k \in D
  <2>1. D \in SUBSET Nat
    BY DEF D
  <2> QED BY <1>1, <1>2, <2>1, SetInduction
<1>4. \A k \in 0 .. n : k \in Nat /\ k <= n
  OBVIOUS
<1> QED BY <1>3, <1>4 DEF D

\* What it has met is what is in the lists.
MeetsAt(e, nil, s, k) ==
  /\ e.ptr # nil <=> k <= Len(s)
  /\ k <= Len(s) => e.ptr = s[k]

LEMMA IterationIs ==
  ASSUME NEW O, NEW nil, NEW c, NEW m \in Nat, NEW F,
         Grow(F, O, c, m), NEW g, NEW link, LinkedLists(O, nil, c, m, link),
         NEW n \in Nat, NEW it, Iterates(it, O, nil, c, m, g, link, n), NEW k \in 1 .. n + 1
  PROVE  MeetsAt(it[k - 1], nil, F[m], k)
<1>0. Len(F[m]) \in Nat
  BY DEF Grow
<1>1. k - 1 \in 0 .. n /\ k - 1 + 1 = k
  OBVIOUS
<1>2. AtPlace(it[k - 1], nil, c, m, g, F, k)
  <2>1. \A i \in 0 .. n : AtPlace(it[i], nil, c, m, g, F, i + 1)
    BY IterationMeets
  <2> QED BY <1>1, <2>1
<1>3. CASE it[k - 1].ptr = nil /\ k > Len(F[m])
  <2>1. ~(k <= Len(F[m]))
    BY <1>0, <1>3
  <2> QED BY <1>3, <2>1 DEF MeetsAt
<1>4. ASSUME NEW x \in 1 .. m, NEW j \in 1 .. Len(c[x]),
             it[k - 1].ptr = c[x][j], k = Len(F[x - 1]) + j
      PROVE  it[k - 1].ptr # nil /\ k <= Len(F[m]) /\ it[k - 1].ptr = F[m][k]
  <2>1. c[x][j] # nil
    BY DEF LinkedLists
  <2>2. Len(F[x - 1]) + j <= Len(F[m]) /\ F[m][Len(F[x - 1]) + j] = c[x][j]
    <3>1. \A i \in 1 .. m : \A l \in 1 .. Len(c[i]) :
            Len(F[i - 1]) + l <= Len(F[m]) /\ F[m][Len(F[i - 1]) + l] = c[i][l]
      BY JoinsAt
    <3> QED BY <3>1
  <2> QED BY <1>4, <2>1, <2>2
<1> QED BY <1>2, <1>3, <1>4 DEF AtPlace, MeetsAt

LEMMA OnceLen ==
  ASSUME NEW O, NEW s \in Seq(O), Once(s), NEW W, \A x : In(s, x) <=> x \in W
  PROVE  Len(s) = Cardinality(W)
<1>1. Cardinality(Places(s, O)) = Cardinality(Elements(O, s, O))
  BY OnceCounts
<1>2. DOMAIN s = 1 .. Len(s) /\ Len(s) \in Nat /\ \A i \in 1 .. Len(s) : s[i] \in O
  OBVIOUS
<1>3. Places(s, O) = 1 .. Len(s)
  BY <1>2 DEF Places
<1>4. Elements(O, s, O) = W
  <2>1. \A x : In(s, x) => x \in O
    BY <1>2 DEF In
  <2> QED BY <2>1 DEF Elements
<1>5. Cardinality(1 .. Len(s)) = Len(s)
  <2>1. Cardinality(1 .. Len(s)) = IF 1 > Len(s) THEN 0 ELSE Len(s) - 1 + 1
    BY <1>2, FS_Interval
  <2> QED BY <1>2, <2>1
<1> QED BY <1>1, <1>3, <1>4, <1>5

\* The first and the last of some numbers.
LEMMA EndsThere ==
  ASSUME NEW n \in Nat, NEW X \in SUBSET (0 .. n), X # {}
  PROVE  /\ \E i \in X : \A j \in X : i <= j
         /\ \E i \in X : \A j \in X : j <= i
<1>1. \E i \in X : \A j \in X : i <= j
  <2>1. X \in SUBSET Nat
    OBVIOUS
  <2> QED BY <2>1, LeastExists
<1>2. \E i \in X : \A j \in X : j <= i
  <2> DEFINE Y == {y \in 0 .. n : n - y \in X}
  <2>1. \A x \in X : n - x \in Y
    OBVIOUS
  <2>2. Y \in SUBSET Nat /\ Y # {}
    <3> PICK x \in X : TRUE
      BY Zenon
    <3>1. n - x \in Y
      BY <2>1
    <3>2. Y \subseteq 0 .. n
      OBVIOUS
    <3> HIDE DEF Y
    <3> QED BY <3>1, <3>2
  <2> PICK y \in Y : \A k \in Y : y <= k
    BY <2>2, LeastExists, Zenon
  <2>3. ASSUME NEW x \in X PROVE x <= n - y
    <3>1. n - x \in Y
      BY <2>1
    <3>2. y <= n - x /\ y \in Nat /\ x \in Nat
      BY <3>1
    <3> QED BY <3>2
  <2>4. n - y \in X
    OBVIOUS
  <2> QED BY <2>3, <2>4
<1> QED BY <1>1, <1>2, Zenon

-----------------------------------------------------------------------------
\* FiberLocal.

\* What an array of pointers holds.
Pointer == Cell \cup {Null, Freed}

LocalTypes ==
  /\ nlocal \in 0 .. KeyMax
  /\ live \subseteq Fiber
  /\ duty \in [Value -> L!Duty]
  /\ ending \in [Fiber -> Nat]
  /\ locals \in [Fiber -> Seq(Pointer)]
  /\ \A f \in Fiber : Len(locals[f]) <= nlocal

\* A struct that nobody uses has no array, and the loop that releases an array
\* leaves nothing behind it and has freed nothing before it.
LocalPlaces ==
  /\ \A f \in Fiber \ live : locals[f] = <<>> /\ ending[f] = 0
  /\ \A f \in Fiber : \A k \in 1 .. Len(locals[f]) :
       /\ locals[f][k] = Freed => k < ending[f]
       /\ k < ending[f] => locals[f][k] \in {Null, Freed}

\* The entry k of f is the value v with a callback.
Holds(f, k, v) ==
  /\ k \in 1 .. Len(locals[f])
  /\ locals[f][k] = [ctx |-> v, free_fn |-> TRUE]

\* The library owes a call for exactly the values that it holds, in one entry.
Owed ==
  /\ \A f \in Fiber, v \in Value : \A k \in Nat : Holds(f, k, v) => duty[v] = "kept"
  /\ \A f, g \in Fiber, v \in Value : \A k, m \in Nat :
       Holds(f, k, v) /\ Holds(g, m, v) => f = g /\ k = m
  /\ \A v \in Value : duty[v] = "kept" => \E f \in Fiber : \E k \in Nat : Holds(f, k, v)

LocalInv == LocalTypes /\ LocalPlaces /\ Owed

-----------------------------------------------------------------------------
\* ThreadKeys.

Showing == {"listed", "unlisted", "freed"}

KeyTypes ==
  /\ taken \subseteq K!Index
  /\ keys \in [0 .. KeysMax - 1 -> [key : Int, frees : BOOLEAN]]
  /\ listKey \in Int
  /\ slots \in [Thread -> [K!Index -> Value \cup {Null}]]
  /\ shows \in [Thread -> [K!Index -> Showing]]
  /\ list \in [Thread -> Seq(Record) \cup {Null}]
  /\ used \subseteq Value
  /\ key \in [User -> K!Index \cup {Null, K!None}]

\* What a thread's slot has is the value of the one live record for it, if there
\* is one.
Recorded ==
  \A t \in Thread, i \in K!Index :
    /\ slots[t][i] # Null /\ shows[t][i] = "listed" => \E j \in Nat : j \in K!Places(t, i)
    /\ \A j \in K!Places(t, i) :
         K!Records(t)[j].value = slots[t][i] /\ shows[t][i] = "listed"
    /\ \A j, m \in K!Places(t, i) : j = m

\* What may be used has not been freed, and no other slot has it to be used.
Alone ==
  /\ \A t \in Thread, i \in K!Index :
       slots[t][i] # Null /\ shows[t][i] # "freed" => slots[t][i] \in used
  /\ \A s, t \in Thread, i, k \in K!Index :
       /\ slots[t][i] # Null /\ shows[t][i] # "freed"
       /\ slots[s][k] = slots[t][i] /\ shows[s][k] # "freed"
       => s = t /\ k = i

KeysInv == KeyTypes /\ Recorded /\ Alone

-----------------------------------------------------------------------------
\* FiberLocal.

\* A record is no null pointer.
LEMMA RecordIsThere ==
  ASSUME NEW v \in Value, NEW b \in BOOLEAN
  PROVE  /\ [ctx |-> v, free_fn |-> b] \in Cell
         /\ [ctx |-> v, free_fn |-> b] \notin {Null, Freed}
<1>1. [ctx |-> v, free_fn |-> b] \in Cell
  BY DEF Cell
<1> QED BY <1>1, ServicesAssumption, Zenon

\* What the array of a fiber is when it stores under the key k.
LEMMA GrownArray ==
  ASSUME LocalTypes, NEW f \in Fiber, NEW n \in Nat, Len(locals[f]) <= n
  PROVE  /\ L!Grown(f, n) \in Seq(Pointer)
         /\ Len(L!Grown(f, n)) = n
         /\ \A k \in 1 .. n :
              L!Grown(f, n)[k] = IF k <= Len(locals[f]) THEN locals[f][k] ELSE Null
<1> DEFINE s == locals[f]
           t == [i \in 1 .. n - Len(s) |-> Null]
<1>1. s \in Seq(Pointer) /\ Null \in Pointer
  BY DEF LocalTypes, Pointer
<1>2. CASE Len(s) < n
  <2>1. n - Len(s) \in Nat
    BY <1>1, <1>2
  <2>2. t \in Seq(Pointer) /\ Len(t) = n - Len(s)
    BY <1>1, <2>1
  <2>3. L!Grown(f, n) = s \o t
    BY <1>2 DEF L!Grown
  <2>4. s \o t \in Seq(Pointer) /\ Len(s \o t) = n
    BY <1>1, <2>1, <2>2
  <2>5. ASSUME NEW k \in 1 .. n
        PROVE  (s \o t)[k] = IF k <= Len(s) THEN s[k] ELSE Null
    <3> HIDE DEF s
    <3>1. CASE k <= Len(s)
      BY <3>1, <1>1, <2>2
    <3>2. CASE ~(k <= Len(s))
      <4>1. k - Len(s) \in 1 .. n - Len(s)
        BY <3>2, <1>1, <1>2
      <4>2. t[k - Len(s)] = Null
        BY <4>1
      <4>3. (s \o t)[k] = t[k - Len(s)]
        <5> HIDE DEF t
        <5> QED BY <3>2, <1>1, <2>2
      <4> QED BY <4>2, <4>3, <3>2
    <3> QED BY <3>1, <3>2
  <2> QED BY <2>3, <2>4, <2>5
<1>3. CASE ~(Len(s) < n)
  <2>1. L!Grown(f, n) = s /\ Len(s) = n
    BY <1>1, <1>3 DEF L!Grown
  <2> QED BY <2>1, <1>1
<1> QED BY <1>2, <1>3

\* What a store changes: one entry, and the entries up to n that were not there.
StoredAt(f, n, k, v, fn) ==
  /\ locals' \in [Fiber -> Seq(Pointer)]
  /\ Len(locals'[f]) = n
  /\ \A m \in 1 .. n :
       locals'[f][m] = IF m = k THEN [ctx |-> v, free_fn |-> fn]
                       ELSE IF m <= Len(locals[f]) THEN locals[f][m] ELSE Null
  /\ \A g \in Fiber : g # f => locals'[g] = locals[g]

LEMMA StoreEffect ==
  ASSUME LocalTypes, NEW f \in Fiber, NEW n \in 1 .. KeyMax, NEW k \in 1 .. n,
         nlocal <= n, NEW v \in Value, NEW fn \in BOOLEAN, L!Store(f, k, n, v, fn)
  PROVE  StoredAt(f, n, k, v, fn)
<1> DEFINE t == L!Grown(f, n)
           cell == [ctx |-> v, free_fn |-> fn]
           s == [t EXCEPT ![k] = cell]
<1>1. Len(locals[f]) <= n /\ n \in Nat
  BY ServicesAssumption DEF LocalTypes
<1>2. /\ t \in Seq(Pointer) /\ Len(t) = n
      /\ \A m \in 1 .. n : t[m] = IF m <= Len(locals[f]) THEN locals[f][m] ELSE Null
  BY <1>1, GrownArray
<1>3. cell \in Pointer
  BY DEF Pointer, Cell
<1>4. locals' = [locals EXCEPT ![f] = s]
  BY DEF L!Store
<1> HIDE DEF t, cell
<1>5. s \in Seq(Pointer) /\ Len(s) = n
  BY <1>2, <1>3
<1>6. \A m \in 1 .. n : s[m] = IF m = k THEN cell ELSE t[m]
  BY <1>2
<1> HIDE DEF s
<1>7. locals \in [Fiber -> Seq(Pointer)]
  BY DEF LocalTypes
<1>8. locals' \in [Fiber -> Seq(Pointer)] /\ locals'[f] = s
  BY <1>4, <1>5, <1>7
<1>9. \A g \in Fiber : g # f => locals'[g] = locals[g]
  BY <1>4, <1>7
<1> QED BY <1>2, <1>5, <1>6, <1>8, <1>9 DEF cell, StoredAt

\* The state of a fiber that may store: no pointer of it was freed.
LEMMA NothingFreed ==
  ASSUME LocalTypes, LocalPlaces, NEW f \in Fiber, ending[f] = 0,
         NEW k \in 1 .. Len(locals[f])
  PROVE  locals[f][k] \in Cell \cup {Null}
<1>1. Len(locals[f]) \in Nat /\ locals[f][k] \in Pointer
  BY DEF LocalTypes
<1>2. locals[f][k] # Freed
  BY <1>1 DEF LocalPlaces
<1> QED BY <1>1, <1>2 DEF Pointer

LEMMA StoreKeepsTypes ==
  ASSUME LocalTypes, LocalPlaces, NEW f \in Fiber, NEW n \in 1 .. KeyMax,
         NEW k \in 1 .. n, nlocal <= n, NEW v \in Value, NEW fn \in BOOLEAN,
         L!Store(f, k, n, v, fn)
  PROVE  LocalTypes' /\ LocalPlaces'
<1>1. /\ locals' \in [Fiber -> Seq(Pointer)] /\ Len(locals'[f]) = n
      /\ \A g \in Fiber : g # f => locals'[g] = locals[g]
  <2>1. StoredAt(f, n, k, v, fn)
    BY StoreEffect
  <2>2. locals' \in [Fiber -> Seq(Pointer)] /\ Len(locals'[f]) = n
    BY <2>1 DEF StoredAt
  <2>3. \A g \in Fiber : g # f => locals'[g] = locals[g]
    BY DEF L!Store, LocalTypes
  <2> QED BY <2>2, <2>3
<1>2. /\ f \in live /\ ending[f] = 0
      /\ nlocal' = n /\ ending' = ending /\ live' = live
  BY DEF L!Store
<1>3. duty' \in [Value -> L!Duty]
  <2>1. \A w \in Value : duty[w] \in L!Duty
    BY DEF LocalTypes
  <2>2. \A x \in L!Duty : TRUE
    OBVIOUS
  <2> DEFINE lost(w) == LET old == L!Grown(f, n)[k]
                        IN  old # Null /\ old.free_fn /\ old.ctx = w
             d(w) == IF lost(w) THEN "lost" ELSE IF fn /\ w = v THEN "kept" ELSE duty[w]
  <2>3. duty' = [w \in Value |-> d(w)]
    BY DEF L!Store
  <2>4. \A w \in Value : d(w) \in L!Duty
    <3> HIDE DEF lost
    <3> QED BY <2>1 DEF L!Duty
  <2> HIDE DEF d
  <2> QED BY <2>3, <2>4
<1>4. ASSUME NEW g \in Fiber PROVE Len(locals'[g]) <= n
  <2>1. Len(locals[g]) \in Nat /\ Len(locals[g]) <= nlocal /\ nlocal \in Nat
    BY ServicesAssumption DEF LocalTypes
  <2>2. n \in Nat
    BY ServicesAssumption
  <2> QED BY <1>1, <2>1, <2>2
<1>5. LocalTypes'
  BY <1>1, <1>2, <1>3, <1>4 DEF LocalTypes
<1>6. ASSUME NEW g \in Fiber, NEW m \in 1 .. Len(locals'[g])
      PROVE  /\ locals'[g][m] = Freed => m < ending'[g]
             /\ m < ending'[g] => locals'[g][m] \in {Null, Freed}
  <2>1. CASE g # f
    BY <2>1, <1>1, <1>2 DEF LocalPlaces
  <2>2. CASE g = f
    <3>1. ~(m < ending'[g])
      BY <1>1, <1>2, <2>2
    <3>2. m \in 1 .. n
      BY <1>1, <2>2
    <3>3. locals'[f][m] # Freed
      <4>1. locals'[f][m] = IF m = k THEN [ctx |-> v, free_fn |-> fn]
                            ELSE IF m <= Len(locals[f]) THEN locals[f][m] ELSE Null
        <5>1. StoredAt(f, n, k, v, fn)
          BY StoreEffect
        <5> QED BY <3>2, <5>1 DEF StoredAt
      <4>2. [ctx |-> v, free_fn |-> fn] # Freed
        BY RecordIsThere
      <4>3. ASSUME m <= Len(locals[f]) PROVE locals[f][m] # Freed
        <5>1. m \in 1 .. Len(locals[f])
          BY <3>2, <4>3 DEF LocalTypes
        <5>2. locals[f][m] \in Cell \cup {Null}
          BY <5>1, <1>2, NothingFreed
        <5> QED BY <5>2, ServicesAssumption
      <4> QED BY <4>1, <4>2, <4>3, ServicesAssumption
    <3> QED BY <3>1, <3>3, <2>2
  <2> QED BY <2>1, <2>2
<1>7. \A g \in Fiber \ live' : locals'[g] = <<>> /\ ending'[g] = 0
  BY <1>1, <1>2 DEF LocalPlaces
<1>8. LocalPlaces'
  BY <1>6, <1>7 DEF LocalPlaces
<1> QED BY <1>5, <1>8

\* What is owed after a store.
LEMMA StoreHolds ==
  ASSUME LocalTypes, NEW f \in Fiber, NEW n \in 1 .. KeyMax, NEW k \in 1 .. n,
         nlocal <= n, NEW v \in Value, NEW fn \in BOOLEAN, L!Store(f, k, n, v, fn),
         NEW g \in Fiber, NEW m \in Nat, NEW w \in Value
  PROVE  Holds(g, m, w)' <=> IF g = f /\ m = k THEN fn /\ w = v ELSE Holds(g, m, w)
<1>1. \A h \in Fiber : h # f => locals'[h] = locals[h]
  BY DEF L!Store, LocalTypes
<1>0. StoredAt(f, n, k, v, fn)
  BY StoreEffect
<1>2. Len(locals'[f]) = n
  BY <1>0 DEF StoredAt
<1>3. n \in Nat /\ Len(locals[f]) \in Nat /\ Len(locals[f]) <= n
  BY ServicesAssumption DEF LocalTypes
<1>4. CASE g # f
  BY <1>1, <1>4 DEF Holds
<1>5. CASE g = f /\ m \notin 1 .. n
  BY <1>2, <1>3, <1>5 DEF Holds
<1>6. CASE g = f /\ m \in 1 .. n
  <2>1. locals'[f][m] = IF m = k THEN [ctx |-> v, free_fn |-> fn]
                        ELSE IF m <= Len(locals[f]) THEN locals[f][m] ELSE Null
    BY <1>6, <1>0 DEF StoredAt
  <2>2. CASE m = k
    <3>1. locals'[f][m] = [ctx |-> v, free_fn |-> fn]
      BY <2>1, <2>2
    <3>2. [ctx |-> v, free_fn |-> fn] = [ctx |-> w, free_fn |-> TRUE] <=> fn /\ w = v
      BY Zenon
    <3> QED BY <3>1, <3>2, <1>2, <1>6, <2>2 DEF Holds
  <2>3. CASE m # k /\ m <= Len(locals[f])
    <3>1. locals'[f][m] = locals[f][m] /\ m \in 1 .. Len(locals[f])
      BY <2>1, <2>3, <1>6
    <3> QED BY <3>1, <1>2, <1>6, <2>3 DEF Holds
  <2>4. CASE m # k /\ ~(m <= Len(locals[f]))
    <3>1. locals'[f][m] = Null
      BY <2>1, <2>4
    <3>2. Null # [ctx |-> w, free_fn |-> TRUE]
      BY RecordIsThere, Zenon
    <3> QED BY <3>1, <3>2, <1>6, <2>4, <1>3 DEF Holds
  <2> QED BY <2>2, <2>3, <2>4
<1> QED BY <1>4, <1>5, <1>6

\* Whose callback a store gives up: the value of the entry, if it has one.
LEMMA StoreDuty ==
  ASSUME LocalTypes, LocalPlaces, NEW f \in Fiber, NEW n \in 1 .. KeyMax,
         NEW k \in 1 .. n, nlocal <= n, NEW v \in Value, NEW fn \in BOOLEAN,
         L!Store(f, k, n, v, fn), NEW w \in Value
  PROVE  duty'[w] = IF Holds(f, k, w) THEN "lost"
                    ELSE IF fn /\ w = v THEN "kept" ELSE duty[w]
<1> DEFINE old == L!Grown(f, n)[k]
           lost(x) == old # Null /\ old.free_fn /\ old.ctx = x
<1>1. Len(locals[f]) <= n /\ n \in Nat /\ Len(locals[f]) \in Nat
  BY ServicesAssumption DEF LocalTypes
<1>2. old = IF k <= Len(locals[f]) THEN locals[f][k] ELSE Null
  BY <1>1, GrownArray
<1>3. duty' = [x \in Value |-> IF lost(x) THEN "lost"
                               ELSE IF fn /\ x = v THEN "kept" ELSE duty[x]]
  BY DEF L!Store
<1>4. lost(w) <=> Holds(f, k, w)
  <2>1. CASE k <= Len(locals[f])
    <3>1. k \in 1 .. Len(locals[f]) /\ ending[f] = 0
      BY <1>1, <2>1 DEF L!Store
    <3>2. old \in Cell \cup {Null} /\ old = locals[f][k]
      BY <1>2, <2>1, <3>1, NothingFreed
    <3> HIDE DEF old
    <3>3. CASE old = Null
      BY <3>2, <3>3, RecordIsThere, Zenon DEF Holds
    <3>4. CASE old \in Cell /\ old # Null
      <4>1. old = [ctx |-> old.ctx, free_fn |-> old.free_fn] /\ old.free_fn \in BOOLEAN
        BY <3>4 DEF Cell
      <4>2. old = [ctx |-> w, free_fn |-> TRUE] <=> old.free_fn /\ old.ctx = w
        BY <4>1
      <4> QED BY <3>1, <3>2, <3>4, <4>2 DEF Holds
    <3> QED BY <3>2, <3>3, <3>4
  <2>2. CASE ~(k <= Len(locals[f]))
    <3>1. old = Null
      BY <1>2, <2>2
    <3>2. ~ Holds(f, k, w)
      BY <1>1, <2>2 DEF Holds
    <3> QED BY <3>1, <3>2
  <2> QED BY <2>1, <2>2
<1> HIDE DEF lost
<1> QED BY <1>3, <1>4

LEMMA StoreKeepsOwed ==
  ASSUME LocalInv, NEW f \in Fiber, NEW n \in 1 .. KeyMax, NEW k \in 1 .. n,
         nlocal <= n, NEW v \in Value, NEW fn \in BOOLEAN, L!Store(f, k, n, v, fn)
  PROVE  Owed'
<1> USE DEF LocalInv
<1>1. ASSUME NEW g \in Fiber, NEW m \in Nat, NEW w \in Value
      PROVE  Holds(g, m, w)' <=> IF g = f /\ m = k THEN fn /\ w = v ELSE Holds(g, m, w)
  BY StoreHolds
<1>2. ASSUME NEW w \in Value
      PROVE  duty'[w] = IF Holds(f, k, w) THEN "lost"
                        ELSE IF fn /\ w = v THEN "kept" ELSE duty[w]
  BY StoreDuty
<1>3. fn => duty[v] = "none"
  BY DEF L!Store
<1>4. k \in Nat
  BY ServicesAssumption
<1>5. \A h \in Fiber, w \in Value : \A m \in Nat : Holds(h, m, w) => duty[w] = "kept"
  BY DEF Owed
<1>6. \A g, h \in Fiber, w \in Value : \A m, i \in Nat :
        Holds(g, m, w) /\ Holds(h, i, w) => g = h /\ m = i
  BY DEF Owed
<1>7. \A w \in Value : duty[w] = "kept" => \E h \in Fiber : \E m \in Nat : Holds(h, m, w)
  BY DEF Owed
<1>8. ASSUME NEW g \in Fiber, NEW w \in Value, NEW m \in Nat, Holds(g, m, w)'
      PROVE  duty'[w] = "kept"
  BY <1>1, <1>2, <1>3, <1>4, <1>5, <1>6, <1>8
<1>9. ASSUME NEW g \in Fiber, NEW h \in Fiber, NEW w \in Value, NEW m \in Nat,
             NEW i \in Nat, Holds(g, m, w)', Holds(h, i, w)'
      PROVE  g = h /\ m = i
  BY <1>1, <1>3, <1>4, <1>5, <1>6, <1>9
<1>10. ASSUME NEW w \in Value, duty'[w] = "kept"
       PROVE  \E h \in Fiber : \E m \in Nat : Holds(h, m, w)'
  <2>1. CASE fn /\ w = v
    <3>1. Holds(f, k, w)'
      BY <2>1, <1>1, <1>4
    <3> QED BY <3>1, <1>4
  <2>2. CASE ~(fn /\ w = v)
    <3>1. ~ Holds(f, k, w) /\ duty[w] = "kept"
      BY <2>2, <1>2, <1>10
    <3>2. PICK h \in Fiber, m \in Nat : Holds(h, m, w)
      BY <3>1, <1>7
    <3>3. Holds(h, m, w)'
      BY <3>1, <3>2, <1>1
    <3> QED BY <3>3
  <2> QED BY <2>1, <2>2
<1> QED BY <1>8, <1>9, <1>10 DEF Owed

\* One round of the loop: the entry is given back, if there is one.
LEMMA ReleaseEffect ==
  ASSUME LocalTypes, LocalPlaces, NEW f \in Fiber, L!Release(f)
  PROVE  LET k == ending[f]
             cell == locals[f][k]
         IN  /\ k \in 1 .. Len(locals[f])
             /\ cell \in Cell \cup {Null}
             /\ cell = Null => UNCHANGED <<locals, duty>>
             /\ cell # Null =>
                  /\ locals' = [locals EXCEPT ![f] = [locals[f] EXCEPT ![k] = Freed]]
                  /\ duty' = IF cell.free_fn THEN [duty EXCEPT ![cell.ctx] = "released"]
                             ELSE duty
<1> DEFINE k == ending[f]
           cell == locals[f][k]
<1>1. k \in 1 .. Len(locals[f])
  BY DEF L!Release
<1>2. cell \in Pointer /\ cell # Freed
  BY <1>1 DEF LocalTypes, LocalPlaces
<1>3. cell = Null => UNCHANGED <<locals, duty>>
  BY DEF L!Release
<1>4. cell # Null => locals' = [locals EXCEPT ![f] = [locals[f] EXCEPT ![k] = Freed]]
  <2>1. cell # Null => locals' = [locals EXCEPT ![f][k] = Freed]
    BY DEF L!Release
  <2> QED BY <2>1
<1>5. cell # Null =>
        duty' = IF cell.free_fn THEN [duty EXCEPT ![cell.ctx] = "released"] ELSE duty
  BY DEF L!Release, L!DutyAfter
<1> QED BY <1>1, <1>2, <1>3, <1>4, <1>5 DEF Pointer

LEMMA ReleaseKeepsInv ==
  ASSUME LocalInv, NEW f \in Fiber, L!Release(f)
  PROVE  LocalInv'
<1> USE DEF LocalInv
<1> DEFINE k == ending[f]
           cell == locals[f][k]
<1>1. /\ k \in 1 .. Len(locals[f])
      /\ cell \in Cell \cup {Null}
      /\ cell = Null => UNCHANGED <<locals, duty>>
      /\ cell # Null =>
           /\ locals' = [locals EXCEPT ![f] = [locals[f] EXCEPT ![k] = Freed]]
           /\ duty' = IF cell.free_fn THEN [duty EXCEPT ![cell.ctx] = "released"] ELSE duty
  BY ReleaseEffect
<1>2. /\ nlocal' = nlocal /\ live' = live
      /\ ending' = [ending EXCEPT ![f] = @ + 1]
  BY DEF L!Release
<1>3. ending' \in [Fiber -> Nat] /\ ending'[f] = k + 1 /\ k \in Nat
  BY <1>2 DEF LocalTypes
<1>4. f \in live
  BY <1>1 DEF LocalPlaces
<1> HIDE DEF k, cell
<1>5. CASE cell = Null
  <2>1. locals' = locals /\ duty' = duty
    BY <1>1, <1>5
  <2>2. LocalTypes'
    BY <2>1, <1>2, <1>3 DEF LocalTypes
  <2>3. ASSUME NEW g \in Fiber, NEW m \in 1 .. Len(locals[g])
        PROVE  /\ locals[g][m] = Freed => m < ending'[g]
               /\ m < ending'[g] => locals[g][m] \in {Null, Freed}
    <3>1. /\ locals[g][m] = Freed => m < ending[g]
          /\ m < ending[g] => locals[g][m] \in {Null, Freed}
      BY DEF LocalPlaces
    <3>2. CASE g # f
      BY <3>1, <3>2, <1>2 DEF LocalTypes
    <3>3. CASE g = f
      BY <3>1, <3>3, <1>3, <1>5 DEF k, cell
    <3> QED BY <3>2, <3>3
  <2>4. LocalPlaces'
    BY <2>1, <2>3, <1>2, <1>4 DEF LocalPlaces, LocalTypes
  <2>5. Owed'
    BY <2>1 DEF Owed, Holds
  <2> QED BY <2>2, <2>4, <2>5
<1>6. CASE cell # Null
  <2> DEFINE s == [locals[f] EXCEPT ![k] = Freed]
  <2>1. /\ cell \in Cell
        /\ locals' = [locals EXCEPT ![f] = s]
        /\ duty' = IF cell.free_fn THEN [duty EXCEPT ![cell.ctx] = "released"] ELSE duty
    BY <1>1, <1>6
  <2>2. locals[f] \in Seq(Pointer) /\ Freed \in Pointer
    BY DEF LocalTypes, Pointer
  <2>3. s \in Seq(Pointer) /\ Len(s) = Len(locals[f])
    BY <2>2, <1>1
  <2>4. \A m \in 1 .. Len(s) : s[m] = IF m = k THEN Freed ELSE locals[f][m]
    BY <2>2, <1>1
  <2> HIDE DEF s
  <2>5. locals' \in [Fiber -> Seq(Pointer)] /\ locals'[f] = s
    BY <2>1, <2>3 DEF LocalTypes
  <2>6. \A g \in Fiber : g # f => locals'[g] = locals[g]
    BY <2>1 DEF LocalTypes
  <2>7. cell.ctx \in Value /\ cell.free_fn \in BOOLEAN
    BY <2>1 DEF Cell
  <2>8. \A w \in Value : duty'[w] = IF cell.free_fn /\ w = cell.ctx THEN "released" ELSE duty[w]
    BY <2>1, <2>7 DEF LocalTypes
  <2>9. duty' \in [Value -> L!Duty]
    BY <2>1, <2>7 DEF LocalTypes, L!Duty
  <2>10. LocalTypes'
    BY <2>3, <2>5, <2>6, <2>9, <1>2, <1>3, Zenon DEF LocalTypes
  <2>11. ASSUME NEW g \in Fiber, NEW m \in 1 .. Len(locals'[g])
         PROVE  /\ locals'[g][m] = Freed => m < ending'[g]
                /\ m < ending'[g] => locals'[g][m] \in {Null, Freed}
    <3>1. CASE g # f
      BY <3>1, <2>6, <1>2, Zenon DEF LocalTypes, LocalPlaces
    <3>2. CASE g = f
      <4>1. m \in 1 .. Len(locals[f]) /\ locals'[g][m] = IF m = k THEN Freed ELSE locals[f][m]
        BY <3>2, <2>3, <2>4, <2>5
      <4>2. /\ locals[f][m] = Freed => m < k
            /\ m < k => locals[f][m] \in {Null, Freed}
        BY <4>1 DEF LocalPlaces, k
      <4> QED BY <4>1, <4>2, <3>2, <1>3
    <3> QED BY <3>1, <3>2
  <2>12. LocalPlaces'
    <3>1. \A g \in Fiber \ live' : locals'[g] = <<>> /\ ending'[g] = 0
      BY <2>6, <1>2, <1>4 DEF LocalTypes, LocalPlaces
    <3> QED BY <3>1, <2>11 DEF LocalPlaces
  <2>13. ASSUME NEW g \in Fiber, NEW m \in Nat, NEW w \in Value
         PROVE  Holds(g, m, w)' <=> Holds(g, m, w) /\ ~(g = f /\ m = k)
    <3>1. CASE g # f
      BY <3>1, <2>6 DEF Holds
    <3>2. CASE g = f /\ m = k
      <4>1. locals'[g][m] = Freed
        BY <3>2, <2>3, <2>4, <2>5, <1>1
      <4> QED BY <4>1, <3>2, RecordIsThere, Zenon DEF Holds
    <3>3. CASE g = f /\ m # k
      BY <3>3, <2>3, <2>4, <2>5 DEF Holds
    <3> QED BY <3>1, <3>2, <3>3
  <2>14. ASSUME NEW w \in Value
         PROVE  Holds(f, k, w) <=> cell.free_fn /\ w = cell.ctx
    <3>1. cell = [ctx |-> cell.ctx, free_fn |-> cell.free_fn]
      BY <2>1 DEF Cell
    <3>2. cell = [ctx |-> w, free_fn |-> TRUE] <=> cell.free_fn /\ w = cell.ctx
      BY <3>1, <2>7
    <3> QED BY <3>2, <1>1 DEF Holds, cell
  <2>15. Owed'
    <3>1. \A h \in Fiber, w \in Value : \A m \in Nat : Holds(h, m, w) => duty[w] = "kept"
      BY DEF Owed
    <3>2. \A g, h \in Fiber, w \in Value : \A m, i \in Nat :
            Holds(g, m, w) /\ Holds(h, i, w) => g = h /\ m = i
      BY DEF Owed
    <3>3. ASSUME NEW g \in Fiber, NEW w \in Value, NEW m \in Nat, Holds(g, m, w)'
          PROVE  duty'[w] = "kept"
      BY <3>1, <3>2, <3>3, <2>8, <2>13, <2>14, <1>3
    <3>4. ASSUME NEW g \in Fiber, NEW h \in Fiber, NEW w \in Value, NEW m \in Nat,
                 NEW i \in Nat, Holds(g, m, w)', Holds(h, i, w)'
          PROVE  g = h /\ m = i
      BY <3>2, <3>4, <2>13
    <3>5. ASSUME NEW w \in Value, duty'[w] = "kept"
          PROVE  \E h \in Fiber : \E m \in Nat : Holds(h, m, w)'
      <4>1. duty[w] = "kept" /\ ~ Holds(f, k, w)
        BY <3>5, <2>8, <2>14
      <4>2. PICK h \in Fiber, m \in Nat : Holds(h, m, w)
        BY <4>1 DEF Owed
      <4>3. Holds(h, m, w)'
        BY <4>1, <4>2, <2>13
      <4> QED BY <4>3
    <3> QED BY <3>3, <3>4, <3>5 DEF Owed
  <2> QED BY <2>10, <2>12, <2>15
<1> QED BY <1>5, <1>6

LEMMA EndKeepsInv ==
  ASSUME LocalInv, NEW f \in Fiber, L!End(f)
  PROVE  LocalInv'
<1> USE DEF LocalInv
<1>1. /\ ending[f] > Len(locals[f])
      /\ locals' = [locals EXCEPT ![f] = <<>>]
      /\ live' = live \ {f}
      /\ ending' = [ending EXCEPT ![f] = 0]
      /\ nlocal' = nlocal /\ duty' = duty
  BY DEF L!End, L!Left
<1>2. <<>> \in Seq(Pointer) /\ Len(<<>>) = 0
  OBVIOUS
<1>3. /\ locals' \in [Fiber -> Seq(Pointer)] /\ locals'[f] = <<>>
      /\ \A g \in Fiber : g # f => locals'[g] = locals[g]
  BY <1>1, <1>2 DEF LocalTypes
<1>4. LocalTypes'
  BY <1>1, <1>2, <1>3, ServicesAssumption DEF LocalTypes
<1>5. ASSUME NEW g \in Fiber, NEW m \in 1 .. Len(locals'[g])
      PROVE  /\ locals'[g][m] = Freed => m < ending'[g]
             /\ m < ending'[g] => locals'[g][m] \in {Null, Freed}
  <2>1. g # f
    BY <1>2, <1>3
  <2> QED BY <2>1, <1>1, <1>3 DEF LocalTypes, LocalPlaces
<1>6. \A g \in Fiber \ live' : locals'[g] = <<>> /\ ending'[g] = 0
  BY <1>1, <1>3 DEF LocalTypes, LocalPlaces
<1>7. LocalPlaces'
  BY <1>5, <1>6 DEF LocalPlaces
\* The loop has left nothing in the array that ends.
<1>8. ASSUME NEW m \in 1 .. Len(locals[f]) PROVE locals[f][m] \in {Null, Freed}
  <2>1. m < ending[f]
    BY <1>1 DEF LocalTypes
  <2> QED BY <2>1 DEF LocalPlaces
<1>9. ASSUME NEW g \in Fiber, NEW m \in Nat, NEW w \in Value
      PROVE  Holds(g, m, w)' <=> Holds(g, m, w)
  <2>1. CASE g # f
    BY <2>1, <1>3 DEF Holds
  <2>2. CASE g = f
    <3>1. ~ Holds(f, m, w)
      BY <1>8, RecordIsThere, Zenon DEF Holds
    <3>2. ~ Holds(f, m, w)'
      BY <1>2, <1>3 DEF Holds
    <3> QED BY <3>1, <3>2, <2>2
  <2> QED BY <2>1, <2>2
<1>10. Owed'
  <2>1. \A g \in Fiber, w \in Value : \A m \in Nat : Holds(g, m, w)' => duty'[w] = "kept"
    BY <1>1, <1>9 DEF Owed
  <2>2. \A g, h \in Fiber, w \in Value : \A m, i \in Nat :
          Holds(g, m, w)' /\ Holds(h, i, w)' => g = h /\ m = i
    BY <1>9 DEF Owed
  <2>3. ASSUME NEW w \in Value, duty'[w] = "kept"
        PROVE  \E h \in Fiber : \E m \in Nat : Holds(h, m, w)'
    <3>1. PICK h \in Fiber, m \in Nat : Holds(h, m, w)
      BY <2>3, <1>1 DEF Owed
    <3>2. Holds(h, m, w)'
      BY <3>1, <1>9
    <3> QED BY <3>2
  <2> QED BY <2>1, <2>2, <2>3 DEF Owed
<1> QED BY <1>4, <1>7, <1>10

LEMMA StartKeepsInv ==
  ASSUME LocalInv, NEW f \in Fiber, L!Start(f)
  PROVE  LocalInv'
<1>1. live' = live \cup {f} /\ UNCHANGED <<nlocal, locals, ending, duty>>
  BY DEF L!Start
<1>2. LocalTypes'
  BY <1>1 DEF LocalInv, LocalTypes
<1>3. LocalPlaces'
  BY <1>1 DEF LocalInv, LocalPlaces
<1>4. Owed'
  BY <1>1 DEF LocalInv, Owed, Holds
<1> QED BY <1>2, <1>3, <1>4 DEF LocalInv

LEMMA ReturnKeepsInv ==
  ASSUME LocalInv, NEW f \in Fiber, L!Return(f)
  PROVE  LocalInv'
<1>1. /\ f \in live /\ ending[f] = 0
      /\ ending' = [ending EXCEPT ![f] = 1]
      /\ UNCHANGED <<nlocal, locals, live, duty>>
  BY DEF L!Return
<1>2. LocalTypes'
  BY <1>1 DEF LocalInv, LocalTypes
<1>3. ASSUME NEW g \in Fiber, NEW m \in 1 .. Len(locals[g])
      PROVE  /\ locals[g][m] = Freed => m < ending'[g]
             /\ m < ending'[g] => locals[g][m] \in {Null, Freed}
  BY <1>1 DEF LocalInv, LocalTypes, LocalPlaces
<1>4. \A g \in Fiber \ live : locals[g] = <<>> /\ ending'[g] = 0
  BY <1>1 DEF LocalInv, LocalTypes, LocalPlaces
<1>5. LocalPlaces'
  BY <1>1, <1>3, <1>4 DEF LocalPlaces
<1>6. Owed'
  BY <1>1 DEF LocalInv, Owed, Holds
<1> QED BY <1>2, <1>5, <1>6 DEF LocalInv

\* A store is one of the two: with a new key or with one that there is.
LEMMA StoreKeepsInv ==
  ASSUME LocalInv, NEW f \in Fiber, NEW v \in Value, NEW fn \in BOOLEAN,
         L!SetNew(f, v, fn) \/ \E k \in L!Key : L!Set(f, k, v, fn)
  PROVE  /\ LocalInv'
         /\ \E n \in 1 .. KeyMax : \E k \in 1 .. n :
              nlocal <= n /\ L!Store(f, k, n, v, fn)
<1>1. \E n \in 1 .. KeyMax : \E k \in 1 .. n : nlocal <= n /\ L!Store(f, k, n, v, fn)
  <2>1. nlocal \in 0 .. KeyMax /\ KeyMax \in Nat
    BY ServicesAssumption DEF LocalInv, LocalTypes
  <2>2. CASE L!SetNew(f, v, fn)
    <3>1. /\ nlocal + 1 \in 1 .. KeyMax /\ nlocal + 1 \in 1 .. nlocal + 1
          /\ nlocal <= nlocal + 1 /\ L!Store(f, nlocal + 1, nlocal + 1, v, fn)
      BY <2>1, <2>2 DEF L!SetNew
    <3> QED BY <3>1
  <2>3. CASE \E k \in L!Key : L!Set(f, k, v, fn)
    <3>1. PICK k \in L!Key : L!Set(f, k, v, fn)
      BY <2>3
    <3>2. /\ nlocal \in 1 .. KeyMax /\ k \in 1 .. nlocal
          /\ nlocal <= nlocal /\ L!Store(f, k, nlocal, v, fn)
      BY <2>1, <3>1 DEF L!Set
    <3> QED BY <3>2
  <2> QED BY <2>2, <2>3
<1>2. PICK n \in 1 .. KeyMax : \E k \in 1 .. n : nlocal <= n /\ L!Store(f, k, n, v, fn)
  BY <1>1
<1>3. PICK k \in 1 .. n : nlocal <= n /\ L!Store(f, k, n, v, fn)
  BY <1>2
<1>4. LocalTypes' /\ LocalPlaces'
  BY <1>3, StoreKeepsTypes DEF LocalInv
<1>5. Owed'
  BY <1>3, StoreKeepsOwed
<1> QED BY <1>1, <1>4, <1>5 DEF LocalInv

LEMMA LocalStays ==
  ASSUME LocalInv, [L!Next]_(L!vars)
  PROVE  LocalInv'
<1>2. ASSUME NEW f \in Fiber, L!Start(f) PROVE LocalInv'
  BY <1>2, StartKeepsInv
<1>3. ASSUME NEW f \in Fiber, L!Return(f) PROVE LocalInv'
  BY <1>3, ReturnKeepsInv
<1>4. ASSUME NEW f \in Fiber, L!Release(f) PROVE LocalInv'
  BY <1>4, ReleaseKeepsInv
<1>5. ASSUME NEW f \in Fiber, L!End(f) PROVE LocalInv'
  BY <1>5, EndKeepsInv
<1>6. ASSUME NEW f \in Fiber, NEW v \in Value, NEW fn \in BOOLEAN,
             L!SetNew(f, v, fn) \/ \E k \in L!Key : L!Set(f, k, v, fn)
      PROVE  LocalInv'
  BY <1>6, StoreKeepsInv
<1>7. CASE UNCHANGED L!vars
  BY <1>7 DEF L!vars, LocalInv, LocalTypes, LocalPlaces, Owed, Holds
<1> QED BY <1>2, <1>3, <1>4, <1>5, <1>6, <1>7 DEF L!Next

LEMMA LocalBegins ==
  ASSUME L!Init
  PROVE  LocalInv
<1>1. /\ nlocal = 0 /\ live = {}
      /\ locals = [f \in Fiber |-> <<>>]
      /\ ending = [f \in Fiber |-> 0]
      /\ duty = [v \in Value |-> "none"]
  BY DEF L!Init
<1>2. <<>> \in Seq(Pointer) /\ Len(<<>>) = 0
  OBVIOUS
<1>3. LocalTypes
  BY <1>1, <1>2, ServicesAssumption DEF LocalTypes, L!Duty
<1>4. LocalPlaces
  BY <1>1, <1>2 DEF LocalPlaces
<1>5. \A f \in Fiber, v \in Value : \A k \in Nat : ~ Holds(f, k, v)
  BY <1>1, <1>2 DEF Holds
<1>6. Owed
  BY <1>1, <1>5 DEF Owed
<1> QED BY <1>3, <1>4, <1>6 DEF LocalInv

LEMMA LocalSuffices == LocalInv => L!KeptIsStored
<1> SUFFICES ASSUME LocalInv, NEW v \in Value
             PROVE  LET places == {p \in live \X L!Key :
                                     /\ p[2] \in L!Cells(p[1])
                                     /\ locals[p[1]][p[2]] = [ctx |-> v, free_fn |-> TRUE]}
                    IN  IF duty[v] = "kept" THEN \E p \in places : places = {p}
                        ELSE places = {}
  BY DEF L!KeptIsStored
<1> DEFINE places == {p \in live \X L!Key :
                        /\ p[2] \in L!Cells(p[1])
                        /\ locals[p[1]][p[2]] = [ctx |-> v, free_fn |-> TRUE]}
<1>1. ASSUME NEW p \in places
      PROVE  /\ p = <<p[1], p[2]>> /\ p[1] \in Fiber /\ p[2] \in Nat
             /\ Holds(p[1], p[2], v)
  <2>1. p = <<p[1], p[2]>> /\ p[1] \in live /\ p[2] \in L!Key
    OBVIOUS
  <2>2. p[1] \in Fiber /\ p[2] \in Nat
    BY <2>1, ServicesAssumption DEF LocalInv, LocalTypes, L!Key
  <2>3. p[2] \in DOMAIN locals[p[1]]
    BY DEF L!Cells
  <2>4. Holds(p[1], p[2], v)
    BY <2>2, <2>3 DEF Holds, LocalInv, LocalTypes
  <2> QED BY <2>1, <2>2, <2>4
<1>2. ASSUME NEW f \in Fiber, NEW k \in Nat, Holds(f, k, v)
      PROVE  <<f, k>> \in places
  <2>1. f \in live
    BY <1>2 DEF Holds, LocalInv, LocalPlaces
  <2>2. k \in DOMAIN locals[f] /\ k \in L!Key
    BY <1>2, ServicesAssumption DEF Holds, LocalInv, LocalTypes, L!Key
  <2>3. locals[f][k] = [ctx |-> v, free_fn |-> TRUE]
    BY <1>2 DEF Holds
  <2>4. k \in L!Cells(f)
    BY <2>2, <2>3, RecordIsThere, Zenon DEF L!Cells
  <2> QED BY <2>1, <2>2, <2>3, <2>4
<1> HIDE DEF places
<1>3. CASE duty[v] = "kept"
  <2>1. PICK f \in Fiber, k \in Nat : Holds(f, k, v)
    BY <1>3 DEF LocalInv, Owed
  <2>2. <<f, k>> \in places
    BY <2>1, <1>2
  <2>3. ASSUME NEW p \in places PROVE p = <<f, k>>
    <3>1. p = <<p[1], p[2]>> /\ p[1] = f /\ p[2] = k
      BY <1>1, <2>1 DEF LocalInv, Owed
    <3> QED BY <3>1
  <2>4. places = {<<f, k>>}
    BY <2>2, <2>3
  <2> QED BY <1>3, <2>2, <2>4, Zenon DEF places
<1>4. CASE duty[v] # "kept"
  <2>1. ASSUME NEW p \in places PROVE FALSE
    BY <1>1, <1>4 DEF LocalInv, Owed
  <2> QED BY <1>4, <2>1, Zenon DEF places
<1> QED BY <1>3, <1>4, Zenon

-----------------------------------------------------------------------------
\* Each fiber has a map of its own: FiberLocal implements FiberMap.

Shown(f, k) ==
  IF ending[f] # 0 /\ L!GetSpecific(f, k) = Freed THEN Null ELSE L!GetSpecific(f, k)

Maps == [f \in Fiber |-> [k \in L!Key |-> Shown(f, k)]]

LEMMA ShownIs ==
  ASSUME LocalInv, NEW f \in Fiber, NEW k \in L!Key
  PROVE  Shown(f, k) = IF k <= Len(locals[f]) /\ locals[f][k] \in Cell
                       THEN locals[f][k].ctx ELSE Null
<1>1. Len(locals[f]) \in Nat /\ k \in Nat /\ k >= 1
  BY ServicesAssumption DEF LocalInv, LocalTypes, L!Key
<1>2. CASE k > Len(locals[f])
  BY <1>1, <1>2, ServicesAssumption DEF Shown, L!GetSpecific
<1>3. CASE k <= Len(locals[f])
  <2>1. k \in 1 .. Len(locals[f]) /\ ~(k > Len(locals[f]))
    BY <1>1, <1>3
  <2>2. locals[f][k] \in Pointer
    BY <2>1 DEF LocalInv, LocalTypes
  <2>3. CASE locals[f][k] = Freed
    <3>1. k < ending[f]
      BY <2>1, <2>3 DEF LocalInv, LocalPlaces
    <3>2. ending[f] # 0
      BY <3>1, <1>1
    <3> QED BY <2>1, <2>3, <3>2, ServicesAssumption DEF Shown, L!GetSpecific
  <2>4. CASE locals[f][k] = Null
    BY <2>1, <2>4, ServicesAssumption DEF Shown, L!GetSpecific
  <2>5. CASE locals[f][k] \in Cell
    <3>1. locals[f][k] \notin {Null, Freed}
      BY <2>5, ServicesAssumption
    <3>2. locals[f][k].ctx \in Value /\ locals[f][k].ctx # Freed
      BY <2>5, ServicesAssumption DEF Cell
    <3> QED BY <2>1, <2>5, <3>1, <3>2, <1>3 DEF Shown, L!GetSpecific
  <2> QED BY <2>2, <2>3, <2>4, <2>5 DEF Pointer
<1> QED BY <1>1, <1>2, <1>3

ShownRight ==
  \A f \in Fiber, k \in L!Key :
    Shown(f, k) = IF k <= Len(locals[f]) /\ locals[f][k] \in Cell
                  THEN locals[f][k].ctx ELSE Null

LEMMA ShownAlways == LocalInv => ShownRight
BY ShownIs DEF ShownRight

LEMMA ShownNext == LocalInv' => ShownRight'
BY ShownAlways, PTL

LEMMA MapBegins ==
  ASSUME L!Init
  PROVE  L!Map!Init
<1>1. locals = [f \in Fiber |-> <<>>] /\ ending = [f \in Fiber |-> 0]
  BY DEF L!Init
<1>2. LocalInv
  BY LocalBegins
<1>3. ASSUME NEW f \in Fiber, NEW k \in L!Key PROVE Shown(f, k) = Null
  <2>1. Len(locals[f]) = 0 /\ k > 0
    BY <1>1, ServicesAssumption DEF L!Key
  <2> QED BY <2>1, ServicesAssumption DEF Shown, L!GetSpecific, L!Key
<1>4. {f \in Fiber : ending[f] # 0} = {}
  BY <1>1
<1>5. Maps = [f \in Fiber |-> [k \in L!Key |-> Null]]
  BY <1>3 DEF Maps
<1> QED BY <1>4, <1>5 DEF L!Map!Init, Maps, Shown

Ended == {f \in Fiber : ending[f] # 0}

LEMMA MapSets ==
  ASSUME NEW f \in Fiber, NEW k \in L!Key, NEW v \in Value, f \notin Ended,
         Maps' = [Maps EXCEPT ![f][k] = v], Ended' = Ended
  PROVE  L!Map!Next
<1>1. L!Map!Set(f, k, v)
  BY DEF L!Map!Set, Maps, Shown, Ended
<1> QED BY <1>1 DEF L!Map!Next

LEMMA MapClears ==
  ASSUME NEW f \in Fiber, NEW k \in L!Key, f \in Ended,
         Maps' = [Maps EXCEPT ![f][k] = Null], Ended' = Ended
  PROVE  L!Map!Next
<1>1. L!Map!Clear(f, k)
  BY DEF L!Map!Clear, Maps, Shown, Ended
<1> QED BY <1>1 DEF L!Map!Next

LEMMA MapReturns ==
  ASSUME NEW f \in Fiber, Maps' = Maps, Ended' = Ended \cup {f}
  PROVE  L!Map!Next
<1>1. L!Map!Return(f)
  BY DEF L!Map!Return, Maps, Shown, Ended
<1> QED BY <1>1 DEF L!Map!Next

LEMMA MapEnds ==
  ASSUME NEW f \in Fiber, \A k \in L!Key : Maps[f][k] = Null,
         Maps' = Maps, Ended' = Ended \ {f}
  PROVE  L!Map!Next
<1>1. L!Map!End(f)
  BY DEF L!Map!End, Maps, Shown, Ended
<1> QED BY <1>1 DEF L!Map!Next

LEMMA MapStutters ==
  ASSUME Maps' = Maps, Ended' = Ended
  PROVE  UNCHANGED L!Map!mvars
BY DEF L!Map!mvars, Maps, Shown, Ended

\* The map of a fiber whose array is as before.
LEMMA MapsStay ==
  ASSUME LocalInv, LocalInv', locals' = locals
  PROVE  Maps' = Maps
<1>1. ShownRight /\ ShownRight'
  BY ShownAlways, ShownNext
<1>2. ASSUME NEW f \in Fiber, NEW k \in L!Key PROVE Shown(f, k)' = Shown(f, k)
  BY <1>1 DEF ShownRight
<1> QED BY <1>2 DEF Maps

\* The map changes where the array does.
LEMMA MapsChange ==
  ASSUME NEW f \in Fiber, NEW k \in L!Key, NEW x, Shown(f, k)' = x,
         \A g \in Fiber, m \in L!Key : ~(g = f /\ m = k) => Shown(g, m)' = Shown(g, m)
  PROVE  Maps' = [Maps EXCEPT ![f][k] = x]
<1>1. Maps' = [g \in Fiber |-> [m \in L!Key |-> IF g = f /\ m = k THEN x ELSE Shown(g, m)]]
  BY DEF Maps
<1>2. Maps = [g \in Fiber |-> [m \in L!Key |-> Shown(g, m)]]
  BY DEF Maps
<1>3. [Maps EXCEPT ![f][k] = x]
      = [g \in Fiber |-> [m \in L!Key |-> IF g = f /\ m = k THEN x ELSE Shown(g, m)]]
  BY <1>2
<1> QED BY <1>1, <1>3

LEMMA StoreMaps ==
  ASSUME LocalInv, LocalInv', NEW f \in Fiber, NEW n \in 1 .. KeyMax, NEW k \in 1 .. n,
         nlocal <= n, NEW v \in Value, NEW fn \in BOOLEAN, L!Store(f, k, n, v, fn)
  PROVE  L!Map!Next
<1>1. ShownRight /\ ShownRight'
  BY ShownAlways, ShownNext
<1>2. k \in L!Key /\ n \in Nat /\ k \in Nat /\ L!Key \subseteq Nat
  BY ServicesAssumption DEF L!Key
<1>3. LocalTypes
  BY DEF LocalInv
<1>0. StoredAt(f, n, k, v, fn)
  BY <1>3, StoreEffect
<1>4. Len(locals'[f]) = n
  BY <1>0 DEF StoredAt
<1>5. \A h \in Fiber : h # f => locals'[h] = locals[h]
  BY <1>3 DEF L!Store, LocalTypes
<1>6. ASSUME NEW m \in 1 .. n
      PROVE  locals'[f][m] = IF m = k THEN [ctx |-> v, free_fn |-> fn]
                             ELSE IF m <= Len(locals[f]) THEN locals[f][m] ELSE Null
  BY <1>0 DEF StoredAt
<1>7. Shown(f, k)' = v
  <2>1. locals'[f][k] = [ctx |-> v, free_fn |-> fn]
    BY <1>6
  <2>2. locals'[f][k] \in Cell /\ locals'[f][k].ctx = v
    BY <2>1, RecordIsThere
  <2> QED BY <2>2, <1>1, <1>2, <1>4 DEF ShownRight
<1>8. ASSUME NEW g \in Fiber, NEW m \in L!Key, ~(g = f /\ m = k)
      PROVE  Shown(g, m)' = Shown(g, m)
  <2>1. CASE g # f
    BY <2>1, <1>1, <1>5 DEF ShownRight
  <2>2. CASE g = f
    <3>1. Len(locals[f]) \in Nat /\ Len(locals[f]) <= n /\ m \in Nat /\ m >= 1
      BY <1>2, ServicesAssumption DEF LocalInv, LocalTypes, L!Key
    <3>2. Null \notin Cell
      BY ServicesAssumption
    <3>3. CASE m <= Len(locals[f])
      <4>1. m \in 1 .. n /\ locals'[f][m] = locals[f][m]
        BY <3>1, <3>3, <2>2, <1>6, <1>8
      <4> QED BY <4>1, <2>2, <3>1, <3>3, <1>1, <1>4 DEF ShownRight
    <3>4. CASE ~(m <= Len(locals[f])) /\ m <= n
      <4>1. m \in 1 .. n /\ locals'[f][m] = Null
        BY <3>1, <3>4, <2>2, <1>6, <1>8
      <4>2. Shown(f, m)' = Null
        BY <4>1, <3>2, <1>1 DEF ShownRight
      <4>3. Shown(f, m) = Null
        BY <3>4, <1>1 DEF ShownRight
      <4> QED BY <4>2, <4>3, <2>2
    <3>5. CASE ~(m <= n)
      <4>1. ~(m <= Len(locals[f])) /\ ~(m <= Len(locals'[f]))
        BY <3>1, <3>5, <1>2, <1>4
      <4> QED BY <4>1, <2>2, <1>1 DEF ShownRight
    <3> QED BY <3>3, <3>4, <3>5
  <2> QED BY <2>1, <2>2
<1>9. Maps' = [Maps EXCEPT ![f][k] = v]
  BY <1>2, <1>7, <1>8, MapsChange
<1>10. f \notin Ended /\ Ended' = Ended
  BY DEF L!Store, Ended
<1> QED BY <1>2, <1>9, <1>10, MapSets, Zenon

LEMMA ReleaseMaps ==
  ASSUME LocalInv, LocalInv', NEW f \in Fiber, L!Release(f)
  PROVE  L!Map!Next \/ UNCHANGED L!Map!mvars
<1> DEFINE cell == locals[f][ending[f]]
<1>1. /\ ending[f] \in 1 .. Len(locals[f])
      /\ cell \in Cell \cup {Null}
      /\ cell = Null => UNCHANGED <<locals, duty>>
      /\ cell # Null => locals' = [locals EXCEPT ![f] = [locals[f] EXCEPT ![ending[f]] = Freed]]
  BY ReleaseEffect DEF LocalInv
<1>2. f \in Ended /\ Ended' = Ended
  <2>1. ending[f] \in Nat /\ ending[f] # 0 /\ ending[f] + 1 # 0
    BY <1>1 DEF LocalInv, LocalTypes
  <2>2. ending' = [ending EXCEPT ![f] = ending[f] + 1]
    BY DEF L!Release
  <2> QED BY <2>1, <2>2 DEF Ended, LocalInv, LocalTypes
<1>3. PICK k \in L!Key : k = ending[f]
  BY <1>1, ServicesAssumption DEF LocalInv, LocalTypes, L!Key
<1>4. ShownRight /\ ShownRight'
  BY ShownAlways, ShownNext
<1> HIDE DEF cell
<1>5. CASE cell = Null
  <2>1. Maps' = Maps
    BY <1>1, <1>5, MapsStay
  <2> QED BY <2>1, <1>2, MapStutters
<1>6. CASE cell # Null
  <2> DEFINE s == [locals[f] EXCEPT ![k] = Freed]
  <2>1. locals' = [locals EXCEPT ![f] = s] /\ locals[f] \in Seq(Pointer)
    BY <1>1, <1>3, <1>6 DEF LocalInv, LocalTypes
  <2>2. /\ Len(s) = Len(locals[f]) /\ s[k] = Freed
        /\ \A m \in L!Key : m # k => s[m] = locals[f][m]
    BY <2>1, <1>1, <1>3
  <2> HIDE DEF s
  <2>3. locals'[f] = s /\ \A g \in Fiber : g # f => locals'[g] = locals[g]
    BY <2>1 DEF LocalInv, LocalTypes
  <2>4. Shown(f, k)' = Null
    <3>1. locals'[f][k] = Freed /\ Freed \notin Cell
      BY <2>2, <2>3, ServicesAssumption
    <3> QED BY <3>1, <1>4 DEF ShownRight
  <2>5. ASSUME NEW g \in Fiber, NEW m \in L!Key, ~(g = f /\ m = k)
        PROVE  Shown(g, m)' = Shown(g, m)
    BY <2>2, <2>3, <2>5, <1>4 DEF ShownRight
  <2>6. Maps' = [Maps EXCEPT ![f][k] = Null]
    BY <2>4, <2>5, MapsChange
  <2> QED BY <2>6, <1>2, MapClears, Zenon
<1> QED BY <1>5, <1>6

LEMMA EndMaps ==
  ASSUME LocalInv, LocalInv', NEW f \in Fiber, L!End(f)
  PROVE  L!Map!Next
<1>1. /\ ending[f] > Len(locals[f])
      /\ locals' = [locals EXCEPT ![f] = <<>>]
      /\ ending' = [ending EXCEPT ![f] = 0]
  BY DEF L!End, L!Left
<1>2. Len(locals[f]) \in Nat /\ Len(<<>>) = 0
  BY DEF LocalInv, LocalTypes
<1>3. locals'[f] = <<>> /\ \A g \in Fiber : g # f => locals'[g] = locals[g]
  BY <1>1 DEF LocalInv, LocalTypes
<1>4. ShownRight /\ ShownRight'
  BY ShownAlways, ShownNext
<1>5. \A m \in L!Key : m \in Nat /\ m >= 1
  BY ServicesAssumption DEF L!Key
<1>6. ASSUME NEW m \in L!Key PROVE Shown(f, m) = Null
  <2>1. CASE m <= Len(locals[f])
    <3>1. m \in 1 .. Len(locals[f]) /\ m < ending[f]
      BY <2>1, <1>1, <1>2, <1>5 DEF LocalInv, LocalTypes
    <3>2. locals[f][m] \in {Null, Freed}
      BY <3>1 DEF LocalInv, LocalPlaces
    <3>3. locals[f][m] \notin Cell
      BY <3>2, ServicesAssumption
    <3> QED BY <3>3, <1>4 DEF ShownRight
  <2>2. CASE ~(m <= Len(locals[f]))
    BY <2>2, <1>4 DEF ShownRight
  <2> QED BY <2>1, <2>2
<1>7. ASSUME NEW m \in L!Key PROVE Shown(f, m)' = Null
  <2>1. ~(m <= Len(locals'[f]))
    BY <1>2, <1>3, <1>5
  <2> QED BY <2>1, <1>4 DEF ShownRight
<1>8. ASSUME NEW g \in Fiber, NEW m \in L!Key PROVE Shown(g, m)' = Shown(g, m)
  <2>1. CASE g = f
    BY <2>1, <1>6, <1>7
  <2>2. CASE g # f
    BY <2>2, <1>3, <1>4 DEF ShownRight
  <2> QED BY <2>1, <2>2
<1>9. Maps' = Maps
  BY <1>8 DEF Maps
<1>10. \A m \in L!Key : Maps[f][m] = Null
  BY <1>6 DEF Maps
<1>11. Ended' = Ended \ {f}
  BY <1>1 DEF Ended, LocalInv, LocalTypes
<1> QED BY <1>9, <1>10, <1>11, MapEnds

LEMMA MapSteps ==
  ASSUME LocalInv, LocalInv', [L!Next]_(L!vars)
  PROVE  [L!Map!Next]_(L!Map!mvars)
<1> SUFFICES L!Map!Next \/ UNCHANGED L!Map!mvars
  OBVIOUS
<1>2. ASSUME NEW f \in Fiber, L!Start(f) PROVE UNCHANGED L!Map!mvars
  <2>1. locals' = locals /\ ending' = ending
    BY <1>2 DEF L!Start
  <2>2. Maps' = Maps /\ Ended' = Ended
    BY <2>1, MapsStay DEF Ended
  <2> QED BY <2>2, MapStutters
<1>3. ASSUME NEW f \in Fiber, L!Return(f) PROVE L!Map!Next
  <2>1. locals' = locals /\ ending' = [ending EXCEPT ![f] = 1]
    BY <1>3 DEF L!Return
  <2>2. Maps' = Maps
    BY <2>1, MapsStay
  <2>3. Ended' = Ended \cup {f}
    BY <2>1 DEF Ended, LocalInv, LocalTypes
  <2> QED BY <2>2, <2>3, MapReturns
<1>4. ASSUME NEW f \in Fiber, L!Release(f) PROVE L!Map!Next \/ UNCHANGED L!Map!mvars
  BY <1>4, ReleaseMaps
<1>5. ASSUME NEW f \in Fiber, L!End(f) PROVE L!Map!Next
  BY <1>5, EndMaps
<1>6. ASSUME NEW f \in Fiber, NEW v \in Value, NEW fn \in BOOLEAN,
             L!SetNew(f, v, fn) \/ \E k \in L!Key : L!Set(f, k, v, fn)
      PROVE  L!Map!Next
  <2>1. PICK n \in 1 .. KeyMax : \E k \in 1 .. n : nlocal <= n /\ L!Store(f, k, n, v, fn)
    BY <1>6, StoreKeepsInv
  <2>2. PICK k \in 1 .. n : nlocal <= n /\ L!Store(f, k, n, v, fn)
    BY <2>1
  <2> QED BY <2>2, StoreMaps
<1>7. CASE UNCHANGED L!vars
  <2>1. locals' = locals /\ ending' = ending
    BY <1>7 DEF L!vars
  <2>2. Maps' = Maps /\ Ended' = Ended
    BY <2>1, MapsStay DEF Ended
  <2> QED BY <2>2, MapStutters
<1> QED BY <1>2, <1>3, <1>4, <1>5, <1>6, <1>7 DEF L!Next

-----------------------------------------------------------------------------
\* ThreadKeys.

LEMMA RecordsTyped ==
  ASSUME KeyTypes, NEW t \in Thread
  PROVE  K!Records(t) \in Seq(Record)
<1>1. list[t] \in Seq(Record) \cup {Null}
  BY DEF KeyTypes
<1>2. <<>> \in Seq(Record)
  OBVIOUS
<1> QED BY <1>1, <1>2 DEF K!Records

\* The record of the old value, if there is one, is emptied and keeps its place.
LEMMA RetiredIs ==
  ASSUME KeyTypes, Recorded, NEW t \in Thread, NEW k \in K!Index
  PROVE  /\ K!Retired(t, k) \in Seq(Record)
         /\ Len(K!Retired(t, k)) = Len(K!Records(t))
         /\ \A j \in 1 .. Len(K!Records(t)) :
              K!Retired(t, k)[j] = IF j \in K!Places(t, k) THEN K!Dead ELSE K!Records(t)[j]
<1> DEFINE s == K!Records(t)
           P == K!Places(t, k)
<1>1. s \in Seq(Record)
  BY RecordsTyped
<1>2. \A j \in P : j \in 1 .. Len(s)
  BY <1>1 DEF K!Places
<1>3. \A j, m \in P : j = m
  BY DEF Recorded
<1>4. K!Dead \in Record
  BY DEF K!Dead, K!None, Record
<1>5. CASE P = {}
  BY <1>1, <1>5 DEF K!Retired
<1>6. CASE P # {}
  <2>1. PICK j : j \in P
    BY <1>6
  <2>2. \A m \in P : m = j
    BY <2>1, <1>3
  <2>3. (CHOOSE p \in P : \A r \in P : p <= r) = j
    <3>1. \A r \in P : j <= r
      BY <2>2, <2>1, <1>2
    <3> HIDE DEF P
    <3> QED BY <3>1, <2>1, <2>2
  <2>4. K!Retired(t, k) = [s EXCEPT ![j] = K!Dead]
    BY <1>6, <2>3, Zenon DEF K!Retired
  <2> HIDE DEF s, P
  <2>5. [s EXCEPT ![j] = K!Dead] \in Seq(Record)
    BY <1>1, <1>2, <1>4, <2>1
  <2>6. Len([s EXCEPT ![j] = K!Dead]) = Len(s)
    BY <1>1
  <2>7. \A i \in 1 .. Len(s) :
          [s EXCEPT ![j] = K!Dead][i] = IF i \in P THEN K!Dead ELSE s[i]
    BY <1>1, <2>1, <2>2
  <2> QED BY <2>4, <2>5, <2>6, <2>7 DEF s, P
<1> QED BY <1>5, <1>6

LEMMA RecordsAfter ==
  ASSUME KeyTypes, Recorded, NEW t \in Thread, NEW k \in K!Index, NEW v \in Value \cup {Null}
  PROVE  Append(K!Retired(t, k), [key |-> k, value |-> v]) \in Seq(Record)
<1>1. [key |-> k, value |-> v] \in Record
  BY ServicesAssumption DEF Record, K!Index
<1>2. K!Retired(t, k) \in Seq(Record)
  BY RetiredIs
<1> QED BY <1>1, <1>2

\* After pthread_setspecific the new record is the only one for the key, and the
\* records for the other keys are where they were.
LEMMA PlacesAfter ==
  ASSUME KeyTypes, Recorded, NEW t \in Thread, NEW k \in K!Index,
         NEW v \in Value \cup {Null},
         list' = [list EXCEPT ![t] = Append(K!Retired(t, k), [key |-> k, value |-> v])]
  PROVE  /\ list' \in [Thread -> Seq(Record) \cup {Null}]
         /\ \A j \in K!Places(t, k)' : j \in Nat /\ j = Len(K!Records(t)) + 1
         /\ Len(K!Records(t)) + 1 \in K!Places(t, k)'
         /\ K!Records(t)'[Len(K!Records(t)) + 1].value = v
         /\ \A i \in K!Index : i # k =>
              /\ K!Places(t, i)' = K!Places(t, i)
              /\ \A j \in K!Places(t, i) : K!Records(t)'[j] = K!Records(t)[j]
<1> DEFINE s == K!Records(t)
           r == K!Retired(t, k)
           new == [key |-> k, value |-> v]
           P == K!Places(t, k)
<1>1. s \in Seq(Record) /\ Len(s) \in Nat
  BY RecordsTyped
<1>2. r \in Seq(Record)
  BY RetiredIs
<1>3. Len(r) = Len(s)
  BY RetiredIs
<1>4. ASSUME NEW j \in 1 .. Len(s) PROVE r[j] = IF j \in P THEN K!Dead ELSE s[j]
  BY RetiredIs
<1>5. new \in Record
  BY ServicesAssumption DEF Record, K!Index
<1>6. /\ Append(r, new) \in Seq(Record)
      /\ Len(Append(r, new)) = Len(s) + 1
      /\ Append(r, new)[Len(s) + 1] = new
      /\ \A j \in 1 .. Len(s) : Append(r, new)[j] = r[j]
  <2> HIDE DEF r, new, s
  <2> QED BY <1>1, <1>2, <1>3, <1>5
<1> DEFINE z == Append(r, new)
<1>7. list' = [list EXCEPT ![t] = z] /\ list \in [Thread -> Seq(Record) \cup {Null}]
  BY DEF KeyTypes
<1> HIDE DEF z
<1>8. z \in Seq(Record) /\ z # Null
  BY <1>6, ServicesAssumption, Zenon DEF z
<1>9. list' \in [Thread -> Seq(Record) \cup {Null}] /\ list'[t] = z
  BY <1>7, <1>8, Zenon
<1>10. K!Records(t)' = z
  BY <1>8, <1>9, Zenon DEF K!Records
<1>11. DOMAIN z = 1 .. Len(s) + 1 /\ DOMAIN s = 1 .. Len(s)
  BY <1>1, <1>6, <1>8 DEF z
<1>12. \A i : \A j : j \in K!Places(t, i)' <=> j \in 1 .. Len(s) + 1 /\ z[j].key = i
  BY <1>10, <1>11 DEF K!Places
<1>13. \A i : \A j : j \in K!Places(t, i) <=> j \in 1 .. Len(s) /\ s[j].key = i
  BY <1>11 DEF K!Places
<1>14. z[Len(s) + 1] = new /\ new.key = k /\ new.value = v
  BY <1>6 DEF z
<1>15. ASSUME NEW j \in 1 .. Len(s) PROVE z[j] = IF j \in P THEN K!Dead ELSE s[j]
  <2>1. z[j] = r[j]
    BY <1>6 DEF z
  <2> QED BY <2>1, <1>4
<1>16. \A i \in K!Index : K!Dead.key # i
  BY ServicesAssumption DEF K!Dead, K!None, K!Index
<1> HIDE DEF s, r, new, P
<1>17. ASSUME NEW j \in K!Places(t, k)' PROVE j \in Nat /\ j = Len(s) + 1
  <2>1. j \in 1 .. Len(s) + 1 /\ z[j].key = k
    BY <1>12
  <2>2. ASSUME j \in 1 .. Len(s) PROVE FALSE
    <3>1. CASE j \in P
      BY <3>1, <2>1, <2>2, <1>15, <1>16
    <3>2. CASE j \notin P
      <4>1. s[j].key = k
        BY <3>2, <2>1, <2>2, <1>15
      <4>2. j \in P
        BY <4>1, <2>2, <1>13 DEF P
      <4> QED BY <4>2, <3>2
    <3> QED BY <3>1, <3>2
  <2> QED BY <2>1, <2>2, <1>1
<1>18. Len(s) + 1 \in K!Places(t, k)'
  <2>1. Len(s) + 1 \in 1 .. Len(s) + 1
    BY <1>1
  <2> QED BY <2>1, <1>12, <1>14
<1>19. ASSUME NEW i \in K!Index, i # k, NEW j
       PROVE  /\ j \in K!Places(t, i)' <=> j \in K!Places(t, i)
              /\ j \in K!Places(t, i) => z[j] = s[j]
  <2>1. CASE j \in 1 .. Len(s)
    <3>1. CASE j \in P
      <4>1. z[j] = K!Dead /\ s[j].key = k
        BY <2>1, <3>1, <1>13, <1>15 DEF P
      <4>2. j \notin K!Places(t, i)' /\ j \notin K!Places(t, i)
        BY <4>1, <1>12, <1>13, <1>16, <1>19
      <4> QED BY <4>2
    <3>2. CASE j \notin P
      <4>1. z[j] = s[j] /\ j \in 1 .. Len(s) + 1
        BY <2>1, <3>2, <1>1, <1>15
      <4> QED BY <4>1, <2>1, <1>12, <1>13
    <3> QED BY <3>1, <3>2
  <2>2. CASE j = Len(s) + 1
    <3>1. j \notin K!Places(t, i)
      BY <2>2, <1>1, <1>13
    <3>2. j \notin K!Places(t, i)'
      BY <2>2, <1>12, <1>14, <1>19
    <3> QED BY <3>1, <3>2
  <2>3. CASE j \notin 1 .. Len(s) + 1
    <3>1. j \notin 1 .. Len(s)
      BY <2>3, <1>1
    <3> QED BY <2>3, <3>1, <1>12, <1>13
  <2>4. j \in 1 .. Len(s) + 1 => j \in 1 .. Len(s) \/ j = Len(s) + 1
    BY <1>1
  <2> QED BY <2>1, <2>2, <2>3, <2>4
<1>20. ASSUME NEW i \in K!Index, i # k
       PROVE  /\ K!Places(t, i)' = K!Places(t, i)
              /\ \A j \in K!Places(t, i) : z[j] = s[j]
  BY <1>19, <1>20, Zenon
<1> QED BY <1>9, <1>10, <1>14, <1>17, <1>18, <1>20 DEF s

\* The records of a thread whose list is as before.
LEMMA PlacesStay ==
  ASSUME NEW t \in Thread, K!Records(t)' = K!Records(t)
  PROVE  \A i : K!Places(t, i)' = K!Places(t, i)
BY DEF K!Places

\* The records for other keys, and those of other threads, are where they were.
OthersStay(t, k) ==
  \A s \in Thread, i \in K!Index : s # t \/ i # k =>
    /\ K!Places(s, i)' = K!Places(s, i)
    /\ \A j \in K!Places(s, i) : K!Records(s)'[j] = K!Records(s)[j]

\* What the slot shows now has its record, or there is none.
NewlyListed(t, k) ==
  /\ shows'[t][k] = "listed" =>
       \E n \in Nat : K!Places(t, k)' = {n} /\ K!Records(t)'[n].value = slots'[t][k]
  /\ shows'[t][k] # "listed" => K!Places(t, k)' = {}

\* No other slot than one is touched.
OtherSlots(t, k) ==
  /\ slots' \in [Thread -> [K!Index -> Value \cup {Null}]]
  /\ shows' \in [Thread -> [K!Index -> Showing]]
  /\ \A s \in Thread, i \in K!Index : s # t \/ i # k =>
       slots'[s][i] = slots[s][i] /\ shows'[s][i] = shows[s][i]

\* A value that may be used after the step is new, or it was usable before and
\* has not been given to the destructor.
Usable(t, k, v) ==
  slots'[t][k] # Null /\ shows'[t][k] # "freed" =>
    \/ slots'[t][k] = v
    \/ /\ slots'[t][k] = slots[t][k] /\ shows[t][k] # "freed"
       /\ slots[t][k] \notin K!Destroyed(t, k)

\* The destructor gets what this thread has under this key, once.
LEMMA DestroyedIs ==
  ASSUME KeysInv, NEW t \in Thread, NEW k \in K!Index, NEW x \in K!Destroyed(t, k)
  PROVE  x = slots[t][k] /\ shows[t][k] = "listed"
<1>1. PICK j \in K!Places(t, k) : x = K!Records(t)[j].value
  BY DEF K!Destroyed
<1> QED BY <1>1 DEF KeysInv, Recorded

\* A slot and its record change together, to a value that nobody has.
LEMMA SlotKeepsInv ==
  ASSUME KeysInv, NEW t \in Thread, NEW k \in K!Index,
         NEW v \in Value \cup {Null}, v \notin used,
         list' \in [Thread -> Seq(Record) \cup {Null}],
         OthersStay(t, k), NewlyListed(t, k), OtherSlots(t, k), Usable(t, k, v),
         used' = (used \ K!Destroyed(t, k)) \cup ({v} \ {Null}),
         taken' = taken, keys' = keys, listKey' = listKey, key' = key
  PROVE  KeysInv'
<1>1. KeyTypes'
  BY DEF KeysInv, KeyTypes, OtherSlots
<1>2. ASSUME NEW s \in Thread, NEW i \in K!Index
      PROVE  /\ slots'[s][i] # Null /\ shows'[s][i] = "listed" =>
                  \E j \in Nat : j \in K!Places(s, i)'
             /\ \A j \in K!Places(s, i)' :
                  K!Records(s)'[j].value = slots'[s][i] /\ shows'[s][i] = "listed"
             /\ \A j, m \in K!Places(s, i)' : j = m
  <2>1. CASE s = t /\ i = k
    <3>1. CASE shows'[t][k] = "listed"
      <4>1. PICK n \in Nat : K!Places(t, k)' = {n} /\ K!Records(t)'[n].value = slots'[t][k]
        BY <3>1 DEF NewlyListed
      <4> QED BY <2>1, <3>1, <4>1
    <3>2. CASE shows'[t][k] # "listed"
      <4>1. K!Places(t, k)' = {}
        BY <3>2 DEF NewlyListed
      <4> QED BY <2>1, <3>2, <4>1
    <3> QED BY <3>1, <3>2
  <2>2. CASE s # t \/ i # k
    <3>1. /\ K!Places(s, i)' = K!Places(s, i)
          /\ \A j \in K!Places(s, i) : K!Records(s)'[j] = K!Records(s)[j]
      BY <2>2 DEF OthersStay
    <3>2. slots'[s][i] = slots[s][i] /\ shows'[s][i] = shows[s][i]
      BY <2>2 DEF OtherSlots
    <3> QED BY <3>1, <3>2 DEF KeysInv, Recorded
  <2> QED BY <2>1, <2>2
<1>3. Recorded'
  BY <1>2 DEF Recorded
<1>4. ASSUME NEW s \in Thread, NEW i \in K!Index, slots'[s][i] # Null, shows'[s][i] # "freed"
      PROVE  \/ s = t /\ i = k /\ slots'[s][i] = v
             \/ /\ slots'[s][i] = slots[s][i] /\ shows[s][i] # "freed"
                /\ slots[s][i] \in used /\ slots[s][i] \notin K!Destroyed(t, k)
  <2>1. CASE s = t /\ i = k
    BY <1>4, <2>1 DEF Usable, KeysInv, Alone
  <2>2. CASE s # t \/ i # k
    <3>1. slots'[s][i] = slots[s][i] /\ shows'[s][i] = shows[s][i]
      BY <2>2 DEF OtherSlots
    <3>2. slots[s][i] \in used
      BY <1>4, <3>1 DEF KeysInv, Alone
    <3>3. ASSUME slots[s][i] \in K!Destroyed(t, k) PROVE FALSE
      <4>1. slots[s][i] = slots[t][k] /\ shows[t][k] = "listed"
        BY <3>3, DestroyedIs
      <4> QED BY <1>4, <2>2, <3>1, <4>1 DEF KeysInv, Alone
    <3> QED BY <1>4, <3>1, <3>2, <3>3
  <2> QED BY <2>1, <2>2
<1>5. ASSUME NEW s \in Thread, NEW i \in K!Index, slots'[s][i] # Null, shows'[s][i] # "freed"
      PROVE  slots'[s][i] \in used'
  BY <1>4, <1>5
<1>6. ASSUME NEW s \in Thread, NEW r \in Thread, NEW i \in K!Index, NEW j \in K!Index,
             slots'[r][i] # Null, shows'[r][i] # "freed",
             slots'[s][j] = slots'[r][i], shows'[s][j] # "freed"
      PROVE  s = r /\ j = i
  <2>1. \/ r = t /\ i = k /\ slots'[r][i] = v
        \/ slots'[r][i] = slots[r][i] /\ shows[r][i] # "freed" /\ slots[r][i] \in used
    BY <1>4, <1>6
  <2>2. \/ s = t /\ j = k /\ slots'[s][j] = v
        \/ slots'[s][j] = slots[s][j] /\ shows[s][j] # "freed" /\ slots[s][j] \in used
    BY <1>4, <1>6
  <2>3. CASE slots'[r][i] = v
    BY <1>6, <2>1, <2>2, <2>3
  <2>4. CASE slots'[r][i] # v
    BY <1>6, <2>1, <2>2, <2>4 DEF KeysInv, Alone
  <2> QED BY <2>3, <2>4
<1>7. Alone'
  BY <1>5, <1>6 DEF Alone
<1> QED BY <1>1, <1>3, <1>7 DEF KeysInv

\* A thread whose list could not be kept has no records.
LEMMA WithoutList ==
  ASSUME NEW t \in Thread, NEW k \in K!Index, list[t] = Null, list' = list
  PROVE  /\ OthersStay(t, k) /\ K!Places(t, k) = {} /\ K!Places(t, k)' = {}
         /\ K!Destroyed(t, k) = {}
<1>1. \A s \in Thread : K!Records(s)' = K!Records(s)
  BY DEF K!Records
<1>2. \A s \in Thread : \A i : K!Places(s, i)' = K!Places(s, i)
  BY <1>1 DEF K!Places
<1>3. K!Records(t) = <<>>
  BY DEF K!Records
<1>4. K!Places(t, k) = {}
  BY <1>3 DEF K!Places
<1>5. K!Destroyed(t, k) = {}
  BY <1>4 DEF K!Destroyed
<1>6. OthersStay(t, k)
  BY <1>1, <1>2 DEF OthersStay
<1> QED BY <1>2, <1>4, <1>5, <1>6

\* The lists of the other threads.
LEMMA ListSet ==
  ASSUME KeysInv, NEW t \in Thread, NEW z \in Seq(Record), list' = [list EXCEPT ![t] = z]
  PROVE  /\ list' \in [Thread -> Seq(Record) \cup {Null}] /\ list'[t] # Null
         /\ K!Records(t)' = z
         /\ \A s \in Thread : s # t =>
              K!Records(s)' = K!Records(s) /\ \A i : K!Places(s, i)' = K!Places(s, i)
<1>1. list \in [Thread -> Seq(Record) \cup {Null}] /\ z # Null
  BY ServicesAssumption DEF KeysInv, KeyTypes
<1>2. list' \in [Thread -> Seq(Record) \cup {Null}] /\ list'[t] = z
  BY <1>1, Zenon
<1>3. K!Records(t)' = z
  BY <1>1, <1>2, Zenon DEF K!Records
<1>4. ASSUME NEW s \in Thread, s # t PROVE K!Records(s)' = K!Records(s)
  BY <1>1, <1>4 DEF K!Records
<1> QED BY <1>1, <1>2, <1>3, <1>4, PlacesStay, Zenon

LEMMA SlotsSet ==
  ASSUME KeysInv, NEW t \in Thread, NEW k \in K!Index,
         NEW v \in Value \cup {Null}, NEW w \in Showing,
         \/ slots' = [slots EXCEPT ![t][k] = v]
         \/ slots' = slots,
         shows' = [shows EXCEPT ![t][k] = w]
  PROVE  /\ OtherSlots(t, k) /\ shows'[t][k] = w
         /\ slots' = [slots EXCEPT ![t][k] = v] => slots'[t][k] = v
<1>1. /\ slots \in [Thread -> [K!Index -> Value \cup {Null}]]
      /\ shows \in [Thread -> [K!Index -> Showing]]
  BY DEF KeysInv, KeyTypes
<1>2. /\ shows' \in [Thread -> [K!Index -> Showing]] /\ shows'[t][k] = w
      /\ \A s \in Thread, i \in K!Index : s # t \/ i # k => shows'[s][i] = shows[s][i]
  BY <1>1
<1>3. CASE slots' = [slots EXCEPT ![t][k] = v]
  <2>1. /\ slots' \in [Thread -> [K!Index -> Value \cup {Null}]] /\ slots'[t][k] = v
        /\ \A s \in Thread, i \in K!Index : s # t \/ i # k => slots'[s][i] = slots[s][i]
    BY <1>1, <1>3
  <2> QED BY <1>2, <2>1 DEF OtherSlots
<1>4. CASE slots' = slots /\ slots' # [slots EXCEPT ![t][k] = v]
  BY <1>1, <1>2, <1>4 DEF OtherSlots
<1> QED BY <1>3, <1>4

\* The value is set.
LEMMA SlotSetKeeps ==
  ASSUME KeysInv, NEW t \in Thread, NEW k \in K!Index,
         NEW v \in Value \cup {Null}, v \notin used, K!SlotSet(t, k, v),
         taken' = taken, keys' = keys, listKey' = listKey, key' = key
  PROVE  KeysInv'
<1> DEFINE z == Append(K!Retired(t, k), [key |-> k, value |-> v])
           w == IF list'[t] = Null THEN "unlisted" ELSE "listed"
<1>1. /\ slots' = [slots EXCEPT ![t][k] = v] /\ shows' = [shows EXCEPT ![t][k] = w]
      /\ used' = (used \ K!Destroyed(t, k)) \cup ({v} \ {Null})
      /\ \/ list' = [list EXCEPT ![t] = z]
         \/ list[t] = Null /\ list' = list
  BY DEF K!SlotSet, K!Keep
<1>2. KeyTypes /\ Recorded /\ list \in [Thread -> Seq(Record) \cup {Null}]
  BY DEF KeysInv, KeyTypes
<1>3. w \in Showing
  BY DEF Showing
<1> HIDE DEF w, z
<1>4. OtherSlots(t, k) /\ shows'[t][k] = w /\ slots'[t][k] = v
  BY <1>1, <1>3, SlotsSet
<1>5. Usable(t, k, v)
  BY <1>4 DEF Usable
<1>6. CASE list[t] = Null /\ list' = list
  <2>1. OthersStay(t, k) /\ K!Places(t, k)' = {} /\ w = "unlisted"
    BY <1>6, WithoutList DEF w
  <2>2. NewlyListed(t, k)
    BY <1>4, <2>1 DEF NewlyListed
  <2> QED BY <1>1, <1>2, <1>4, <1>5, <1>6, <2>1, <2>2, SlotKeepsInv
<1>7. CASE list' = [list EXCEPT ![t] = z]
  <2> DEFINE n == Len(K!Records(t)) + 1
  <2>1. list' = [list EXCEPT ![t] = Append(K!Retired(t, k), [key |-> k, value |-> v])]
    BY <1>7 DEF z
  <2>2. /\ list' \in [Thread -> Seq(Record) \cup {Null}]
        /\ \A j \in K!Places(t, k)' : j \in Nat /\ j = n
        /\ n \in K!Places(t, k)' /\ K!Records(t)'[n].value = v
    BY <1>2, <2>1, PlacesAfter, Zenon
  <2>3. ASSUME NEW i \in K!Index, i # k
        PROVE  /\ K!Places(t, i)' = K!Places(t, i)
               /\ \A j \in K!Places(t, i) : K!Records(t)'[j] = K!Records(t)[j]
    BY <1>2, <2>1, <2>3, PlacesAfter, Zenon
  <2> HIDE DEF n
  <2>4. z \in Seq(Record)
    BY <1>2, <2>1, RecordsAfter DEF z
  <2>5. /\ list'[t] # Null
        /\ \A s \in Thread : s # t =>
             K!Records(s)' = K!Records(s) /\ \A i : K!Places(s, i)' = K!Places(s, i)
    BY <1>7, <2>4, ListSet
  <2>6. OthersStay(t, k)
    BY <2>3, <2>5 DEF OthersStay
  <2>7. w = "listed" /\ n \in Nat /\ K!Places(t, k)' = {n}
    BY <2>2, <2>5 DEF w
  <2>8. NewlyListed(t, k)
    BY <1>4, <2>2, <2>7 DEF NewlyListed
  <2> QED BY <1>1, <1>4, <1>5, <2>2, <2>6, <2>8, SlotKeepsInv
<1> QED BY <1>1, <1>6, <1>7

\* The value is not set: its record is gone, and the slot may show what has been
\* freed.
LEMMA SlotFailsKeeps ==
  ASSUME KeysInv, NEW t \in Thread, NEW k \in K!Index,
         NEW v \in Value \cup {Null}, v \notin used, K!SlotFails(t, k, v),
         taken' = taken, keys' = keys, listKey' = listKey, key' = key
  PROVE  KeysInv'
<1> DEFINE z == K!Retired(t, k)
           w == IF shows[t][k] = "freed" \/ slots[t][k] \in K!Destroyed(t, k)
                THEN "freed" ELSE "unlisted"
<1>1. /\ slots' = slots /\ shows' = [shows EXCEPT ![t][k] = w]
      /\ used' = (used \ K!Destroyed(t, k)) \cup ({v} \ {Null})
      /\ \/ list' = [list EXCEPT ![t] = z]
         \/ list[t] = Null /\ list' = list
  BY DEF K!SlotFails, K!Keep
<1>2. KeyTypes /\ Recorded /\ list \in [Thread -> Seq(Record) \cup {Null}]
  BY DEF KeysInv, KeyTypes
<1>3. w \in Showing
  BY DEF Showing
<1>4. OtherSlots(t, k) /\ shows'[t][k] = w
  <2> HIDE DEF w, z
  <2> QED BY <1>1, <1>3, SlotsSet
<1>5. Usable(t, k, v) /\ shows'[t][k] # "listed"
  BY <1>1, <1>4 DEF Usable
<1> HIDE DEF w, z
<1>6. CASE list[t] = Null /\ list' = list
  <2>1. OthersStay(t, k) /\ K!Places(t, k)' = {}
    BY <1>6, WithoutList
  <2>2. NewlyListed(t, k)
    BY <1>5, <2>1 DEF NewlyListed
  <2> QED BY <1>1, <1>2, <1>4, <1>5, <1>6, <2>1, <2>2, SlotKeepsInv
<1>7. CASE list' = [list EXCEPT ![t] = z]
  <2>1. /\ z \in Seq(Record) /\ Len(z) = Len(K!Records(t)) /\ K!Records(t) \in Seq(Record)
        /\ \A j \in 1 .. Len(K!Records(t)) :
             z[j] = IF j \in K!Places(t, k) THEN K!Dead ELSE K!Records(t)[j]
    BY <1>2, RetiredIs, RecordsTyped DEF z
  <2>2. /\ list' \in [Thread -> Seq(Record) \cup {Null}] /\ K!Records(t)' = z
        /\ \A s \in Thread : s # t =>
             K!Records(s)' = K!Records(s) /\ \A i : K!Places(s, i)' = K!Places(s, i)
    BY <1>7, <2>1, ListSet
  <2>3. \A i : \A j : j \in K!Places(t, i)' <=> j \in 1 .. Len(K!Records(t)) /\ z[j].key = i
    BY <2>1, <2>2 DEF K!Places
  <2>4. \A i : \A j : j \in K!Places(t, i)
                        <=> j \in 1 .. Len(K!Records(t)) /\ K!Records(t)[j].key = i
    BY <2>1 DEF K!Places
  <2>5. \A i \in K!Index : K!Dead.key # i
    BY ServicesAssumption DEF K!Dead, K!None, K!Index
  <2>6. K!Places(t, k)' = {}
    BY <2>1, <2>3, <2>4, <2>5
  <2>7. ASSUME NEW i \in K!Index, i # k
        PROVE  /\ K!Places(t, i)' = K!Places(t, i)
               /\ \A j \in K!Places(t, i) : K!Records(t)'[j] = K!Records(t)[j]
    <3>1. ASSUME NEW j PROVE j \in K!Places(t, i)' <=> j \in K!Places(t, i)
      BY <2>1, <2>3, <2>4, <2>5, <2>7
    <3>2. ASSUME NEW j \in K!Places(t, i) PROVE z[j] = K!Records(t)[j]
      BY <2>1, <2>4, <2>7
    <3> QED BY <2>2, <3>1, <3>2, Zenon
  <2>8. OthersStay(t, k)
    BY <2>2, <2>7 DEF OthersStay
  <2>9. NewlyListed(t, k)
    BY <1>5, <2>6 DEF NewlyListed
  <2> QED BY <1>1, <1>4, <1>5, <2>2, <2>8, <2>9, SlotKeepsInv
<1> QED BY <1>1, <1>6, <1>7

\* The registration of keys, and lists that are made empty, touch no thread's data.
LEMMA KeysAreApart ==
  ASSUME KeysInv, KeyTypes', UNCHANGED <<slots, shows>>, used \subseteq used',
         \A t \in Thread : K!Records(t)' = K!Records(t)
  PROVE  KeysInv'
<1>1. \A t \in Thread : \A i : K!Places(t, i)' = K!Places(t, i)
  BY DEF K!Places
<1>2. Recorded'
  BY <1>1 DEF KeysInv, Recorded
<1>3. Alone'
  BY DEF KeysInv, Alone
<1> QED BY <1>2, <1>3 DEF KeysInv

LEMMA ListsStay ==
  ASSUME list' = list
  PROVE  \A t \in Thread : K!Records(t)' = K!Records(t)
BY DEF K!Records

\* The key is not known.
LEMMA SlotUnknownKeeps ==
  ASSUME KeysInv, NEW t \in Thread, NEW k,
         NEW v \in Value \cup {Null}, K!SlotUnknown(t, k, v),
         taken' = taken, keys' = keys, listKey' = listKey, key' = key
  PROVE  KeysInv'
<1>1. /\ slots' = slots /\ shows' = shows /\ used' = used \cup ({v} \ {Null})
      /\ \/ list' = [list EXCEPT ![t] = K!Records(t)]
         \/ list[t] = Null /\ list' = list
  BY DEF K!SlotUnknown, K!Keep
<1>2. KeyTypes /\ list \in [Thread -> Seq(Record) \cup {Null}]
  BY DEF KeysInv, KeyTypes
<1>3. K!Records(t) \in Seq(Record)
  BY <1>2, RecordsTyped
<1>4. /\ list' \in [Thread -> Seq(Record) \cup {Null}]
      /\ \A s \in Thread : K!Records(s)' = K!Records(s)
  <2>1. CASE list' = list
    BY <1>2, <2>1, ListsStay
  <2>2. CASE list' = [list EXCEPT ![t] = K!Records(t)]
    BY <1>3, <2>2, ListSet
  <2> QED BY <1>1, <2>1, <2>2
<1>5. KeyTypes'
  BY <1>1, <1>2, <1>4 DEF KeyTypes
<1> QED BY <1>1, <1>4, <1>5, KeysAreApart

\* pthread_setspecific with memory that nobody has.
LEMMA SetKeepsInv ==
  ASSUME KeysInv, NEW t \in Thread, NEW k \in K!Index \cup {K!None},
         NEW v \in Value \cup {Null}, v \notin used, K!SetSpecific(t, k, v)
  PROVE  KeysInv'
<1>1. taken' = taken /\ keys' = keys /\ listKey' = listKey /\ key' = key
  BY DEF K!SetSpecific
<1>2. K!Registered(k) => k \in K!Index
  BY ServicesAssumption DEF K!Registered, K!None
<1>3. CASE K!SlotSet(t, k, v)
  <2>1. k \in K!Index
    BY <1>2, <1>3 DEF K!SlotSet
  <2> QED BY <1>1, <1>3, <2>1, SlotSetKeeps
<1>4. CASE K!SlotFails(t, k, v)
  <2>1. k \in K!Index
    BY <1>2, <1>4 DEF K!SlotFails
  <2> QED BY <1>1, <1>4, <2>1, SlotFailsKeeps
<1>5. CASE K!SlotUnknown(t, k, v)
  BY <1>1, <1>5, SlotUnknownKeeps
<1> QED BY <1>3, <1>4, <1>5 DEF K!SetSpecific

LEMMA ThreadEndKeepsInv ==
  ASSUME KeysInv, NEW t \in Thread, K!ThreadEnd(t)
  PROVE  KeysInv'
<1>1. /\ slots' = [slots EXCEPT ![t] = [i \in K!Index |-> Null]]
      /\ shows' = [shows EXCEPT ![t] = [i \in K!Index |-> "listed"]]
      /\ list' = [list EXCEPT ![t] = Null]
      /\ UNCHANGED <<taken, keys, listKey, used, key>>
  BY DEF K!ThreadEnd
<1>2. /\ slots \in [Thread -> [K!Index -> Value \cup {Null}]]
      /\ shows \in [Thread -> [K!Index -> Showing]]
      /\ list \in [Thread -> Seq(Record) \cup {Null}]
  BY DEF KeysInv, KeyTypes
<1>3. /\ slots' \in [Thread -> [K!Index -> Value \cup {Null}]]
      /\ shows' \in [Thread -> [K!Index -> Showing]]
      /\ list' \in [Thread -> Seq(Record) \cup {Null}]
  BY <1>1, <1>2 DEF Showing
<1>4. KeyTypes'
  BY <1>1, <1>3 DEF KeysInv, KeyTypes
<1>5. \A i \in K!Index : slots'[t][i] = Null
  BY <1>1, <1>2
<1>6. \A s \in Thread : s # t => slots'[s] = slots[s] /\ shows'[s] = shows[s]
                                 /\ list'[s] = list[s]
  BY <1>1, <1>2
<1>7. \A i : K!Places(t, i)' = {}
  <2>1. list'[t] = Null
    BY <1>1, <1>2
  <2>2. K!Records(t)' = <<>>
    BY <2>1 DEF K!Records
  <2> QED BY <2>2 DEF K!Places
<1>8. ASSUME NEW s \in Thread, s # t
      PROVE  K!Records(s)' = K!Records(s) /\ \A i : K!Places(s, i)' = K!Places(s, i)
  <2>1. K!Records(s)' = K!Records(s)
    BY <1>6, <1>8 DEF K!Records
  <2> QED BY <2>1, PlacesStay
<1>9. ASSUME NEW s \in Thread, NEW i \in K!Index
      PROVE  /\ slots'[s][i] # Null /\ shows'[s][i] = "listed" =>
                  \E j \in Nat : j \in K!Places(s, i)'
             /\ \A j \in K!Places(s, i)' :
                  K!Records(s)'[j].value = slots'[s][i] /\ shows'[s][i] = "listed"
             /\ \A j, m \in K!Places(s, i)' : j = m
  <2>1. CASE s = t
    BY <2>1, <1>5, <1>7
  <2>2. CASE s # t
    <3>1. K!Places(s, i)' = K!Places(s, i) /\ K!Records(s)' = K!Records(s)
      BY <2>2, <1>8
    <3>2. slots'[s][i] = slots[s][i] /\ shows'[s][i] = shows[s][i]
      BY <2>2, <1>6
    <3> QED BY <3>1, <3>2 DEF KeysInv, Recorded
  <2> QED BY <2>1, <2>2
<1>10. Recorded'
  BY <1>9 DEF Recorded
<1>11. \A s \in Thread, i \in K!Index : slots'[s][i] # Null =>
         s # t /\ slots'[s][i] = slots[s][i] /\ shows'[s][i] = shows[s][i]
  BY <1>5, <1>6
<1>12. Alone'
  BY <1>1, <1>11 DEF KeysInv, Alone
<1> QED BY <1>4, <1>10, <1>12 DEF KeysInv

LEMMA KeysStay ==
  ASSUME KeysInv, [K!Next]_(K!vars)
  PROVE  KeysInv'
<1>2. ASSUME NEW i \in K!Index, K!InitOnce(i) PROVE KeysInv'
  <2>1. keys' \in [0 .. KeysMax - 1 -> [key : Int, frees : BOOLEAN]]
    BY <1>2, ServicesAssumption DEF K!InitOnce, K!Index, K!None
  <2>2. taken' = {i} /\ listKey' = i /\ UNCHANGED <<slots, shows, list, used, key>> /\ i \in Int
    BY <1>2, ServicesAssumption DEF K!InitOnce, K!Index
  <2>3. KeyTypes'
    BY <2>1, <2>2 DEF KeysInv, KeyTypes
  <2> QED BY <2>2, <2>3, KeysAreApart, ListsStay
<1>3. ASSUME NEW u \in User, NEW frees \in BOOLEAN, K!KeyCreate(u, frees) PROVE KeysInv'
  <2>1. UNCHANGED <<listKey, slots, shows, list, used>>
    BY <1>3 DEF K!KeyCreate
  <2>2. PICK i \in K!Index \ taken :
          /\ i < KeysMax
          /\ taken' = taken \cup {i}
          /\ keys' = [keys EXCEPT ![i] = [key |-> i, frees |-> frees]]
          /\ key' = [key EXCEPT ![u] = i]
    BY <1>3 DEF K!KeyCreate
  <2>3. i \in Int
    BY ServicesAssumption DEF K!Index
  <2>4. KeyTypes'
    BY <2>1, <2>2, <2>3, Zenon DEF KeysInv, KeyTypes
  <2> QED BY <2>1, <2>4, KeysAreApart, ListsStay
<1>8. ASSUME NEW u \in User, K!KeyRefused(u) PROVE KeysInv'
  <2>1. UNCHANGED <<taken, keys, listKey, slots, shows, list, used>>
        /\ key' = [key EXCEPT ![u] = K!None]
    BY <1>8 DEF K!KeyRefused
  <2>2. KeyTypes'
    BY <2>1 DEF KeysInv, KeyTypes
  <2> QED BY <2>1, <2>2, KeysAreApart, ListsStay
<1>4. ASSUME NEW t \in Thread, NEW u \in User, K!Buffer(t, u) PROVE KeysInv'
  <2>1. CASE UNCHANGED K!vars
    BY <2>1, KeysAreApart, ListsStay DEF K!vars, KeysInv, KeyTypes
  <2>2. CASE \E v \in Value \ used : K!SetSpecific(t, key[u], v)
    <3>1. PICK v \in Value \ used : K!SetSpecific(t, key[u], v)
      BY <2>2
    <3>2. key[u] \in K!Index \cup {K!None}
      BY <1>4 DEF K!Buffer, KeysInv, KeyTypes
    <3> QED BY <3>1, <3>2, SetKeepsInv
  <2>3. CASE \E v \in Value \ used :
               /\ used' = used \cup {v}
               /\ UNCHANGED <<taken, keys, listKey, slots, shows, list, key>>
    <3>1. KeyTypes'
      BY <2>3 DEF KeysInv, KeyTypes
    <3> QED BY <2>3, <3>1, KeysAreApart, ListsStay
  <2> QED BY <1>4, <2>1, <2>2, <2>3 DEF K!Buffer
<1>5. ASSUME NEW t \in Thread, NEW u \in User, NEW v \in Value \cup {Null}, K!Set(t, u, v)
      PROVE  KeysInv'
  <2>1. v \notin used /\ K!SetSpecific(t, key[u], v)
    BY <1>5 DEF K!Set
  <2>2. key[u] \in K!Index \cup {K!None}
    BY <1>5 DEF K!Set, KeysInv, KeyTypes
  <2> QED BY <2>1, <2>2, SetKeepsInv
<1>6. ASSUME NEW t \in Thread, K!ThreadEnd(t) PROVE KeysInv'
  BY <1>6, ThreadEndKeepsInv
<1>7. CASE UNCHANGED K!vars
  BY <1>7, KeysAreApart, ListsStay DEF K!vars, KeysInv, KeyTypes
<1> QED BY <1>2, <1>3, <1>4, <1>5, <1>6, <1>7, <1>8 DEF K!Next

LEMMA KeysBegin ==
  ASSUME K!Init
  PROVE  KeysInv
<1>1. /\ taken = {} /\ listKey = K!None /\ used = {}
      /\ keys = [i \in 0 .. KeysMax - 1 |-> [key |-> 0, frees |-> FALSE]]
      /\ slots = [t \in Thread |-> [i \in K!Index |-> Null]]
      /\ shows = [t \in Thread |-> [i \in K!Index |-> "listed"]]
      /\ list = [t \in Thread |-> Null]
      /\ key = [u \in User |-> Null]
  BY DEF K!Init
<1>2. KeyTypes
  BY <1>1 DEF KeyTypes, K!None, Showing
<1>3. \A t \in Thread : \A i : K!Places(t, i) = {}
  BY <1>1 DEF K!Places, K!Records
<1>4. Recorded
  BY <1>1, <1>3 DEF Recorded
<1>5. Alone
  BY <1>1 DEF Alone
<1> QED BY <1>2, <1>4, <1>5 DEF KeysInv

LEMMA KeysSuffice ==
  ASSUME KeysInv, NEW t \in Thread, NEW i \in K!Index
  PROVE  /\ \A j \in K!Places(t, i) :
              /\ K!Places(t, i) = {j}
              /\ K!Records(t)[j].value = slots[t][i] /\ shows[t][i] = "listed"
         /\ slots[t][i] # Null /\ shows[t][i] # "freed" =>
              /\ slots[t][i] \in used
              /\ shows[t][i] = "listed" => K!Places(t, i) # {}
              /\ \A s \in Thread, k \in K!Index :
                   slots[s][k] = slots[t][i] /\ shows[s][k] # "freed" => s = t /\ k = i
<1>1. \A j \in K!Places(t, i) :
        /\ K!Places(t, i) = {j}
        /\ K!Records(t)[j].value = slots[t][i] /\ shows[t][i] = "listed"
  BY DEF KeysInv, Recorded
<1>2. ASSUME slots[t][i] # Null, shows[t][i] = "listed" PROVE K!Places(t, i) # {}
  BY <1>2 DEF KeysInv, Recorded
<1>3. ASSUME slots[t][i] # Null, shows[t][i] # "freed"
      PROVE  /\ slots[t][i] \in used
             /\ \A s \in Thread, k \in K!Index :
                  slots[s][k] = slots[t][i] /\ shows[s][k] # "freed" => s = t /\ k = i
  BY <1>3 DEF KeysInv, Alone
<1> QED BY <1>1, <1>2, <1>3

-----------------------------------------------------------------------------
\* Clock: what the clock has told is not ahead of the time.

\* Ticks in microseconds, and the microseconds in a millisecond.
Sys(x) == Scaled(x, Micros, Ticks)
Fine == Micros \div Millis

\* The time of a base in microseconds.
Since(c) == c.sec * Micros + c.usec

Contexts == [last_init : Int, sec : Int, usec : Int, stamp : Int]
Calls == [at : {"idle", "base", "stamp", "tell"}, asked : Nat, based : Nat, late : Int]

\* A base that was taken at the count b, by a clock that is now at offset o and
\* may, as s says, have been put forward since; the thread asked for the time
\* first, so last_init is not later than it.
TookBase(c, b, o, s) ==
  /\ c.last_init <= Since(c) \div Micros
  /\ Since(c) <= Sys(b + o)
  /\ s.at < b => Since(c) = Sys(b + o)

\* A base with its stamp, which may be late; a thread that was told m was not
\* told more than what is true of it at the count n.
ReadsFrom(c, b, m, n, o, s) ==
  /\ TookBase(c, b, o, s)
  /\ b <= c.stamp /\ c.stamp <= n
  /\ m <= (Since(c) + Sys(n - c.stamp)) \div Fine

\* The last change was a day before the count x.
SettledAt(x, s) == s.at = -1 \/ x > s.at + (Day + 1) * Ticks

\* A thread between two calls, before it takes a base, before it takes the stamp
\* of it, and before it is told.
Waiting(c, l, m, n, o, s) ==
  \/ c = C!Fresh /\ m = 0
  \/ ReadsFrom(c, l.based, m, n, o, s) /\ l.late = c.stamp - l.based

Renewing(c, m, n, o) == c.last_init <= Sys(n + o) \div Micros /\ m <= Sys(n + o) \div Fine

Stamping(c, l, m, o, s) ==
  TookBase(c, l.based, o, s) /\ m <= Since(c) \div Fine /\ l.asked <= l.based

Telling(c, l, m, n, o, s) ==
  /\ ReadsFrom(c, l.based, m, n, o, s)
  /\ l.late = c.stamp - l.based
  /\ SettledAt(l.asked, s) => s.at < l.based

OnTime(c, l, m, n, o, s) ==
  /\ l.at = "idle" => Waiting(c, l, m, n, o, s)
  /\ l.at = "base" => Renewing(c, m, n, o)
  /\ l.at = "stamp" => Stamping(c, l, m, o, s)
  /\ l.at = "tell" => Telling(c, l, m, n, o, s)

ClockTypes ==
  /\ counter \in Nat /\ offset \in Offsets
  /\ set \in [at : Int, back : BOOLEAN] /\ set.at <= counter
  /\ ctx \in [Reader -> Contexts] /\ call \in [Reader -> Calls] /\ told \in [Reader -> Int]
  /\ \A t \in Reader : call[t].asked <= counter /\ call[t].based <= counter

ClockInv ==
  /\ ClockTypes
  /\ ~set.back => \A t \in Reader : OnTime(ctx[t], call[t], told[t], counter, offset, set)

LEMMA Units ==
  /\ Micros \in Nat \ {0} /\ Millis \in Nat \ {0} /\ Fine \in Nat \ {0}
  /\ Micros = Millis * Fine /\ Ticks \in Nat \ {0} /\ Day \in Nat
<1>1. Micros \in Nat \ {0} /\ Millis \in Nat \ {0} /\ Micros % Millis = 0
      /\ Ticks \in Nat \ {0} /\ Day \in Nat
  BY ServicesAssumption
<1>2. Micros = Millis * (Micros \div Millis) + (Micros % Millis)
  BY <1>1
<1>3. Fine \in Int
  BY <1>1, DivBounds DEF Fine
<1>4. Micros = Millis * Fine
  BY <1>1, <1>2, <1>3 DEF Fine
<1>5. Fine > 0
  <2>1. CASE Fine <= 0
    <3>1. Millis * Fine <= 0
      BY <1>1, <1>3, <2>1
    <3> QED BY <1>1, <1>4, <3>1
  <2> QED BY <1>3, <2>1
<1> QED BY <1>1, <1>3, <1>4, <1>5

LEMMA InMilliseconds ==
  ASSUME NEW y \in Int, NEW z \in Int, NEW n \in Int
  PROVE  (y + (n \div Micros)) * Millis + ((z + (n % Micros)) \div Fine)
           = (y * Micros + z + n) \div Fine
<1>1. Micros \in Nat \ {0} /\ Millis \in Nat \ {0} /\ Fine \in Nat \ {0} /\ Micros = Millis * Fine
  BY Units
<1>2. ToldWhole(y, z, n, Millis, Fine, Micros)
  BY <1>1, TellsAll
<1> QED BY <1>2 DEF ToldWhole

\* The microseconds of an answer that are not carried are counted all the same.
LEMMA MillisecondsAre ==
  ASSUME counter \in Nat, NEW c \in Contexts
  PROVE  C!Milliseconds(C!TimeOfDay(c)) = (Since(c) + Sys(counter - c.stamp)) \div Fine
<1>1. c.sec \in Int /\ c.usec \in Int /\ counter - c.stamp \in Int
  BY DEF Contexts
<1> PICK x \in Int : x = Sys(counter - c.stamp)
  BY <1>1, Units, ScaledIs, Zenon DEF Sys
<1>2. C!TimeOfDay(c) = [sec |-> c.sec + (x \div Micros), usec |-> c.usec + (x % Micros)]
  BY DEF C!TimeOfDay, Sys, Scaled
<1>3. C!Milliseconds(C!TimeOfDay(c))
        = (c.sec + (x \div Micros)) * Millis + ((c.usec + (x % Micros)) \div Fine)
  BY <1>2 DEF C!Milliseconds, Fine
<1>4. (c.sec + (x \div Micros)) * Millis + ((c.usec + (x % Micros)) \div Fine)
        = (c.sec * Micros + c.usec + x) \div Fine
  BY <1>1, InMilliseconds
<1> QED BY <1>3, <1>4 DEF Since

LEMMA SysIs ==
  ASSUME NEW x \in Int, NEW y \in Int
  PROVE  /\ Sys(x) \in Int /\ Sys(0) = 0
         /\ x >= 0 => Sys(x) >= 0
         /\ x <= y => Sys(x) <= Sys(y)
         /\ Sys(x) + Sys(y) <= Sys(x + y) /\ Sys(x + y) <= Sys(x) + Sys(y) + 1
         /\ Sys(x + y * Ticks) = Sys(x) + y * Micros
<1>0. Sys(y) \in Int
  BY Units, ScaledIs, Zenon DEF Sys
<1>1. /\ Sys(x) \in Int /\ Sys(0) = 0
      /\ x >= 0 => Sys(x) >= 0
      /\ x <= y => Sys(x) <= Sys(y)
  BY Units, ScaledIs, Zenon DEF Sys
<1>2. Sys(x + y) \in {Sys(x) + Sys(y), Sys(x) + Sys(y) + 1}
  BY Units, ScaledIs, Zenon DEF Sys
<1>3. Sys(x + y * Ticks) = Sys(x) + y * Micros
  <2>1. \A m, n \in Nat \ {0} : Scaled(x + y * n, m, n) = Scaled(x, m, n) + y * m
    BY ScaledIs, Zenon
  <2> QED BY <2>1, Units, Zenon DEF Sys
<1>4. Sys(x) + Sys(y) <= Sys(x + y) /\ Sys(x + y) <= Sys(x) + Sys(y) + 1
  BY <1>0, <1>1, <1>2
<1> QED BY <1>1, <1>3, <1>4

\* Division by the units of the clock.
LEMMA Coarser ==
  ASSUME NEW x \in Int, NEW y \in Int, x <= y
  PROVE  /\ x \div Fine \in Int /\ x \div Micros \in Int
         /\ x \div Fine <= y \div Fine /\ x \div Micros <= y \div Micros
         /\ x >= 0 => x \div Fine >= 0
<1>1. x \div Fine \in Int /\ x \div Micros \in Int
  BY Units, DivBounds
<1>2. x \div Fine <= y \div Fine /\ x \div Micros <= y \div Micros
  BY Units, DivGrows
<1>3. x >= 0 => x \div Fine >= 0
  <2>1. 0 \div Fine = 0 /\ 0 \in Int
    BY Units
  <2>2. x >= 0 => 0 \div Fine <= x \div Fine
    BY Units, DivGrows
  <2> QED BY <2>1, <2>2, <1>1
<1> QED BY <1>1, <1>2, <1>3

\* A microsecond lost is a millisecond at most.
LEMMA OneLost ==
  ASSUME NEW x \in Int, NEW y \in Int, x \in {y, y + 1}
  PROVE  y \div Fine \in {x \div Fine - 1, x \div Fine}
<1>1. y <= x /\ x <= y + Fine /\ y + Fine \in Int
  BY Units
<1>2. y \div Fine <= x \div Fine /\ x \div Fine <= (y + Fine) \div Fine
      /\ x \div Fine \in Int /\ y \div Fine \in Int
  BY <1>1, Coarser
<1>3. (y + Fine) \div Fine = y \div Fine + 1
  <2> PICK n \in Nat \ {0} : n = Fine
    BY Units
  <2> PICK k \in Int : k = 1
    OBVIOUS
  <2>1. (y + k * n) \div n = y \div n + k
    BY DivAdds, Zenon
  <2>2. k * n = n
    OBVIOUS
  <2> QED BY <2>1, <2>2
<1> QED BY <1>2, <1>3

\* Times are whole numbers.
LEMMA SinceIs ==
  ASSUME NEW n \in Int, NEW c \in Contexts
  PROVE  /\ Since(c) \in Int /\ Sys(n - c.stamp) \in Int
         /\ (Since(c) + Sys(n - c.stamp)) \div Fine \in Int
<1>1. c.sec \in Int /\ c.usec \in Int /\ c.stamp \in Int /\ n - c.stamp \in Int
  BY DEF Contexts
<1>2. c.sec * Micros \in Int
  BY <1>1, Units
<1>3. Since(c) \in Int
  BY <1>1, <1>2 DEF Since
<1>4. Sys(n - c.stamp) \in Int
  BY <1>1, SysIs, Zenon
<1>5. Since(c) + Sys(n - c.stamp) \in Int
  BY <1>3, <1>4
<1>6. (Since(c) + Sys(n - c.stamp)) \div Fine \in Int
  BY <1>5, Units, DivBounds
<1> QED BY <1>3, <1>4, <1>6

\* What the types say of the system's time.
LEMMA ClockParts ==
  ASSUME ClockTypes
  PROVE  /\ counter \in Nat /\ offset \in Nat
         /\ offset >= (Day + 1) * Ticks /\ (Day + 1) * Ticks \in Nat
         /\ set.at \in Int /\ set.at <= counter
         /\ C!SystemTime = Sys(counter + offset) /\ C!SystemTime \in Int
         /\ C!SystemTime >= 0 /\ C!Now = C!SystemTime \div Micros /\ C!Now \in Int
<1>1. counter \in Nat /\ offset \in Offsets /\ set.at \in Int /\ set.at <= counter
  BY DEF ClockTypes
<1>2. offset \in Nat /\ offset >= (Day + 1) * Ticks
  BY <1>1, ServicesAssumption
<1>3. (Day + 1) * Ticks \in Nat
  BY Units
<1>4. counter + offset \in Int /\ counter + offset >= 0
  BY <1>1, <1>2
<1>5. C!SystemTime = Sys(counter + offset)
  BY DEF C!SystemTime, Sys, Scaled
<1>6. C!SystemTime \in Int /\ C!SystemTime >= 0
  BY <1>4, <1>5, SysIs
<1>7. C!Now = C!SystemTime \div Micros
  BY DEF C!Now
<1>8. C!Now \in Int
  BY <1>6, <1>7, Units, DivBounds
<1> QED BY <1>1, <1>2, <1>3, <1>5, <1>6, <1>7, <1>8

\* What is true of a base is not ahead of the time, and is the time when it was
\* not changed since but for the unit lost in adding.
LEMMA BehindTheTime ==
  ASSUME NEW c \in Contexts, NEW b \in Nat, NEW m \in Int, NEW n \in Nat, NEW o \in Nat, NEW s,
         ReadsFrom(c, b, m, n, o, s)
  PROVE  /\ Since(c) + Sys(n - c.stamp) <= Sys(n + o)
         /\ m <= Sys(n + o) \div Fine
         /\ s.at < b => /\ Since(c) + Sys(n - c.stamp) <= Sys(n - (c.stamp - b) + o)
                        /\ Sys(n - (c.stamp - b) + o) <= Since(c) + Sys(n - c.stamp) + 1
<1>1. TookBase(c, b, o, s) /\ b <= c.stamp /\ c.stamp <= n
      /\ m <= (Since(c) + Sys(n - c.stamp)) \div Fine
  BY DEF ReadsFrom
<1> PICK p \in Int, u \in Int, e \in Int : p = c.stamp /\ u = Since(c) /\ e = Sys(n - p)
  BY SinceIs DEF Contexts
<1>2. u <= Sys(b + o) /\ (s.at < b => u = Sys(b + o))
  BY <1>1 DEF TookBase
<1>3. /\ b + o \in Int /\ n - p \in Int /\ n + o \in Int /\ n - (p - b) + o \in Int
      /\ (b + o) + (n - p) = n - (p - b) + o /\ n - (p - b) + o <= n + o
  BY <1>1
<1> PICK x \in Int, y \in Int, z \in Int :
         x = Sys(b + o) /\ y = Sys(n - (p - b) + o) /\ z = Sys(n + o)
  BY <1>3, SysIs
<1>4. x + e <= y /\ y <= x + e + 1
  <2>1. Sys(b + o) + Sys(n - p) <= Sys((b + o) + (n - p))
        /\ Sys((b + o) + (n - p)) <= Sys(b + o) + Sys(n - p) + 1
    BY <1>3, SysIs, Zenon
  <2> QED BY <1>3, <2>1
<1>5. y <= z
  BY <1>3, SysIs, Zenon
<1>6. u + e <= z /\ u + e \in Int
  BY <1>2, <1>4, <1>5
<1>7. m <= z \div Fine
  <2>1. (u + e) \div Fine <= z \div Fine /\ (u + e) \div Fine \in Int /\ z \div Fine \in Int
    BY <1>6, Coarser
  <2> QED BY <1>1, <2>1
<1>8. s.at < b => u + e <= y /\ y <= u + e + 1
  BY <1>2, <1>4
<1> QED BY <1>6, <1>7, <1>8

\* A thread that has not asked yet takes a base.
LEMMA FirstIsRenewed ==
  ASSUME ClockTypes, NEW c, c = C!Fresh
  PROVE  C!Now - c.last_init > Day
<1>1. counter + offset >= (Day + 1) * Ticks /\ counter + offset \in Int
      /\ (Day + 1) * Ticks \in Int /\ C!SystemTime = Sys(counter + offset)
      /\ C!SystemTime \in Int /\ C!Now = C!SystemTime \div Micros /\ C!Now \in Int
  BY ClockParts
<1> PICK d \in Int : d = Day + 1 /\ d > Day
  BY Units
<1>2. Sys(0 + d * Ticks) = Sys(0) + d * Micros /\ Sys(0) = 0
  BY SysIs
<1>3. d * Ticks \in Int /\ d * Micros \in Int /\ 0 + d * Ticks = d * Ticks
  BY Units
<1>4. Sys(d * Ticks) = d * Micros
  BY <1>2, <1>3
<1>5. Sys(d * Ticks) <= C!SystemTime
  BY <1>1, <1>3, SysIs
<1>6. (d * Micros) \div Micros <= C!Now
  BY <1>1, <1>3, <1>4, <1>5, Coarser
<1>7. (d * Micros) \div Micros = d
  BY Units, DivWhole
<1> QED BY <1>1, <1>6, <1>7, Units DEF C!Fresh

\* So does one whose base is not later than a change a day ago.
LEMMA LateIsRenewed ==
  ASSUME ClockTypes, NEW c \in Contexts, NEW b \in Nat, TookBase(c, b, offset, set),
         b <= set.at, counter > set.at + (Day + 1) * Ticks
  PROVE  C!Now - c.last_init > Day
<1> PICK d \in Int : d = Day + 1 /\ d > Day
  BY Units
<1>1. /\ counter \in Int /\ offset \in Int /\ set.at \in Int /\ d * Ticks \in Int
      /\ C!SystemTime = Sys(counter + offset) /\ C!SystemTime \in Int
      /\ C!Now = C!SystemTime \div Micros /\ C!Now \in Int
      /\ c.last_init \in Int
  BY ClockParts DEF Contexts
<1>2. Since(c) \in Int
  BY <1>1, SinceIs
<1>3. Since(c) <= Sys(b + offset) /\ c.last_init <= Since(c) \div Micros
  BY DEF TookBase
<1>4. b + offset + d * Ticks <= counter + offset
  BY <1>1
<1>5. b + offset \in Int /\ b + offset + d * Ticks \in Int /\ counter + offset \in Int
  BY <1>1
<1>6. Sys(b + offset + d * Ticks) <= C!SystemTime
  BY <1>1, <1>4, <1>5, SysIs, Zenon
<1>7. Sys(b + offset + d * Ticks) = Sys(b + offset) + d * Micros /\ Sys(b + offset) \in Int
  BY <1>5, SysIs, Zenon
<1>8. d * Micros \in Int
  BY Units
<1>9. Since(c) + d * Micros <= C!SystemTime /\ Since(c) + d * Micros \in Int
  BY <1>1, <1>2, <1>3, <1>6, <1>7, <1>8
<1>10. (Since(c) + d * Micros) \div Micros <= C!Now
  BY <1>1, <1>9, Coarser
<1>11. (Since(c) + d * Micros) \div Micros = Since(c) \div Micros + d
  BY <1>2, Units, DivAdds, Zenon
<1>12. Since(c) \div Micros \in Int
  BY <1>2, Units, DivBounds
<1> QED BY <1>1, <1>3, <1>10, <1>11, <1>12, Units

\* What a thread may rely on, the others may not disturb: time passes.
LEMMA LaterIsOnTime ==
  ASSUME NEW c \in Contexts, NEW l \in Calls, NEW m \in Int, NEW n \in Nat, NEW k \in Nat,
         n <= k, NEW o \in Nat, NEW s, OnTime(c, l, m, n, o, s)
  PROVE  OnTime(c, l, m, k, o, s)
<1> PICK p \in Int, u \in Int : p = c.stamp /\ u = Since(c)
  BY SinceIs DEF Contexts
<1>1. ReadsFrom(c, l.based, m, n, o, s) => ReadsFrom(c, l.based, m, k, o, s)
  <2> SUFFICES ASSUME ReadsFrom(c, l.based, m, n, o, s) PROVE ReadsFrom(c, l.based, m, k, o, s)
    OBVIOUS
  <2>1. TookBase(c, l.based, o, s) /\ l.based <= p /\ p <= n /\ m <= (u + Sys(n - p)) \div Fine
    BY DEF ReadsFrom
  <2>2. n - p \in Int /\ k - p \in Int /\ n - p <= k - p
    OBVIOUS
  <2> PICK y \in Int, z \in Int : y = Sys(n - p) /\ z = Sys(k - p)
    BY <2>2, SysIs, Zenon
  <2>3. y <= z
    BY <2>2, SysIs, Zenon
  <2>4. u + y \in Int /\ u + z \in Int /\ u + y <= u + z
    BY <2>3
  <2>5. (u + y) \div Fine <= (u + z) \div Fine
        /\ (u + y) \div Fine \in Int /\ (u + z) \div Fine \in Int
    BY <2>4, Coarser
  <2>6. m <= (u + z) \div Fine
    BY <2>1, <2>5
  <2>7. p <= k
    BY <2>1
  <2> QED BY <2>1, <2>6, <2>7 DEF ReadsFrom
<1>2. Renewing(c, m, n, o) => Renewing(c, m, k, o)
  <2>1. n + o \in Int /\ k + o \in Int /\ n + o <= k + o
    OBVIOUS
  <2> PICK y \in Int, z \in Int : y = Sys(n + o) /\ z = Sys(k + o) /\ y <= z
    BY <2>1, SysIs
  <2>2. /\ y \div Fine <= z \div Fine /\ y \div Micros <= z \div Micros
        /\ y \div Fine \in Int /\ z \div Fine \in Int
        /\ y \div Micros \in Int /\ z \div Micros \in Int
    BY Coarser
  <2>3. c.last_init \in Int
    BY DEF Contexts
  <2> QED BY <2>2, <2>3 DEF Renewing
<1> QED BY <1>1, <1>2, Zenon DEF OnTime, Waiting, Telling

\* The system's time is put forward.
LEMMA ForwardIsOnTime ==
  ASSUME NEW c \in Contexts, NEW l \in Calls, NEW m \in Int, NEW n \in Nat, NEW o \in Nat,
         NEW w \in Nat, o <= w, NEW s, NEW r, r.at = n, l.asked <= n, l.based <= n,
         OnTime(c, l, m, n, o, s)
  PROVE  OnTime(c, l, m, n, w, r)
<1> PICK u \in Int : u = Since(c)
  BY SinceIs
<1>0. l.based \in Nat /\ l.asked \in Nat /\ c.last_init \in Int
  BY DEF Calls, Contexts
<1>1. TookBase(c, l.based, o, s) => TookBase(c, l.based, w, r)
  <2>1. l.based + o \in Int /\ l.based + w \in Int /\ l.based + o <= l.based + w
    BY <1>0
  <2>3. Sys(l.based + o) \in Int /\ Sys(l.based + w) \in Int
        /\ Sys(l.based + o) <= Sys(l.based + w)
    BY <2>1, SysIs, Zenon
  <2> PICK y \in Int, z \in Int : y = Sys(l.based + o) /\ z = Sys(l.based + w) /\ y <= z
    BY <2>3
  <2>2. ~(r.at < l.based)
    BY <1>0
  <2> QED BY <2>2 DEF TookBase
<1>2. ReadsFrom(c, l.based, m, n, o, s) => ReadsFrom(c, l.based, m, n, w, r)
  BY <1>1, Zenon DEF ReadsFrom
<1>3. Renewing(c, m, n, o) => Renewing(c, m, n, w)
  <2>1. n + o \in Int /\ n + w \in Int /\ n + o <= n + w
    OBVIOUS
  <2> PICK y \in Int, z \in Int : y = Sys(n + o) /\ z = Sys(n + w) /\ y <= z
    BY <2>1, SysIs
  <2>2. /\ y \div Fine <= z \div Fine /\ y \div Micros <= z \div Micros
        /\ y \div Fine \in Int /\ z \div Fine \in Int
        /\ y \div Micros \in Int /\ z \div Micros \in Int
    BY Coarser
  <2> QED BY <1>0, <2>2 DEF Renewing
<1>4. ~SettledAt(l.asked, r)
  <2> PICK d \in Nat : d = (Day + 1) * Ticks
    BY Units
  <2> QED BY <1>0 DEF SettledAt
<1>5. Waiting(c, l, m, n, o, s) => Waiting(c, l, m, n, w, r)
  BY <1>2, Zenon DEF Waiting
<1>6. Stamping(c, l, m, o, s) => Stamping(c, l, m, w, r)
  BY <1>1, Zenon DEF Stamping
<1>7. Telling(c, l, m, n, o, s) => Telling(c, l, m, n, w, r)
  BY <1>2, <1>4, Zenon DEF Telling
<1> QED BY <1>3, <1>5, <1>6, <1>7, Zenon DEF OnTime

LEMMA ClockBegins ==
  ASSUME C!Init
  PROVE  ClockInv
<1>1. /\ counter = 0 /\ offset = C!Min(Offsets) /\ set = [at |-> -1, back |-> FALSE]
      /\ ctx = [t \in Reader |-> C!Fresh] /\ told = [t \in Reader |-> 0]
      /\ call = [t \in Reader |-> [at |-> "idle", asked |-> 0, based |-> 0, late |-> 0]]
  BY DEF C!Init
<1>2. offset \in Offsets
  <2>1. Offsets \in SUBSET Nat /\ Offsets # {}
    BY ServicesAssumption
  <2>2. \E x \in Offsets : \A y \in Offsets : x <= y
    BY <2>1, LeastExists
  <2>3. C!Min(Offsets) = CHOOSE x \in Offsets : \A y \in Offsets : x <= y
    BY DEF C!Min
  <2> QED BY <1>1, <2>2, <2>3
<1>3. C!Fresh \in Contexts
  BY DEF C!Fresh, Contexts
<1>4. counter \in Nat /\ set \in [at : Int, back : BOOLEAN] /\ set.at <= counter
  BY <1>1
<1>5. ctx \in [Reader -> Contexts] /\ told \in [Reader -> Int] /\ call \in [Reader -> Calls]
  BY <1>1, <1>3 DEF Calls
<1>6. \A t \in Reader : ctx[t] = C!Fresh /\ told[t] = 0 /\ call[t].at = "idle"
                        /\ call[t].asked = 0 /\ call[t].based = 0
  BY <1>1
<1>7. ClockTypes
  BY <1>1, <1>2, <1>4, <1>5, <1>6 DEF ClockTypes
<1>8. \A t \in Reader : OnTime(ctx[t], call[t], told[t], counter, offset, set)
  BY <1>6 DEF OnTime, Waiting
<1> QED BY <1>7, <1>8 DEF ClockInv

LEMMA PassKeeps ==
  ASSUME ClockInv, C!Pass
  PROVE  ClockInv'
<1>1. ClockTypes
  BY DEF ClockInv
<1>2. counter \in Nat /\ offset \in Nat /\ set.at \in Int
  BY <1>1, ClockParts
<1>3. counter' \in Nat /\ counter <= counter' /\ UNCHANGED <<offset, set, ctx, call, told>>
  BY <1>2, ServicesAssumption DEF C!Pass
<1>4. \A t \in Reader : call[t] \in Calls /\ ctx[t] \in Contexts /\ told[t] \in Int
                        /\ call[t].asked <= counter /\ call[t].based <= counter
  BY <1>1 DEF ClockTypes
<1>5. \A t \in Reader : call[t].asked <= counter' /\ call[t].based <= counter'
  BY <1>2, <1>3, <1>4 DEF Calls
<1>6. ClockTypes'
  BY <1>1, <1>2, <1>3, <1>5 DEF ClockTypes
<1>7. ASSUME ~set'.back, NEW t \in Reader
      PROVE  OnTime(ctx'[t], call'[t], told'[t], counter', offset', set')
  <2>1. OnTime(ctx[t], call[t], told[t], counter, offset, set)
    BY <1>3, <1>7 DEF ClockInv
  <2>2. OnTime(ctx[t], call[t], told[t], counter', offset, set)
    BY <1>2, <1>3, <1>4, <2>1, LaterIsOnTime
  <2> QED BY <1>3, <2>2
<1> QED BY <1>6, <1>7 DEF ClockInv

LEMMA SetKeeps ==
  ASSUME ClockInv, NEW o \in Offsets, C!SetTime(o)
  PROVE  ClockInv'
<1>1. ClockTypes
  BY DEF ClockInv
<1>2. counter \in Nat /\ offset \in Nat /\ o \in Nat /\ set.back \in BOOLEAN
  BY <1>1, ClockParts, ServicesAssumption DEF ClockTypes
<1>3. /\ offset' = o /\ set' = [at |-> counter, back |-> set.back \/ o < offset]
      /\ UNCHANGED <<counter, ctx, call, told>>
  BY DEF C!SetTime
<1>4. set' \in [at : Int, back : BOOLEAN] /\ set'.at = counter /\ set'.at <= counter
  BY <1>2, <1>3
<1>5. set'.back <=> (set.back \/ o < offset)
  BY <1>3, Zenon
<1>6. ClockTypes'
  BY <1>1, <1>2, <1>3, <1>4 DEF ClockTypes
<1>7. ASSUME ~set'.back, NEW t \in Reader
      PROVE  OnTime(ctx'[t], call'[t], told'[t], counter', offset', set')
  <2>1. OnTime(ctx[t], call[t], told[t], counter, offset, set)
    BY <1>5, <1>7 DEF ClockInv
  <2>2. offset <= o
    BY <1>2, <1>5, <1>7
  <2>3. call[t] \in Calls /\ ctx[t] \in Contexts /\ told[t] \in Int
        /\ call[t].asked <= counter /\ call[t].based <= counter
    BY <1>1 DEF ClockTypes
  <2>4. OnTime(ctx[t], call[t], told[t], counter, o, set')
    BY <1>2, <1>4, <2>1, <2>2, <2>3, ForwardIsOnTime
  <2> QED BY <1>3, <2>4
<1> QED BY <1>6, <1>7 DEF ClockInv

\* A step of one thread.
LEMMA StepKeeps ==
  ASSUME ClockInv, NEW t \in Reader, NEW c \in Contexts, NEW l \in Calls, NEW m \in Int,
         ctx' = [ctx EXCEPT ![t] = c], call' = [call EXCEPT ![t] = l],
         told' = [told EXCEPT ![t] = m], UNCHANGED <<counter, offset, set>>,
         l.asked <= counter, l.based <= counter,
         ~set.back => OnTime(c, l, m, counter, offset, set)
  PROVE  ClockInv'
<1>1. ClockTypes
  BY DEF ClockInv
<1>2. /\ ctx' \in [Reader -> Contexts] /\ call' \in [Reader -> Calls] /\ told' \in [Reader -> Int]
  BY <1>1 DEF ClockTypes
<1>3. ASSUME NEW x \in Reader
      PROVE  /\ x = t => ctx'[x] = c /\ call'[x] = l /\ told'[x] = m
             /\ x # t => ctx'[x] = ctx[x] /\ call'[x] = call[x] /\ told'[x] = told[x]
  BY <1>1 DEF ClockTypes
<1>4. \A x \in Reader : call'[x].asked <= counter /\ call'[x].based <= counter
  BY <1>1, <1>3 DEF ClockTypes
<1>5. ClockTypes'
  BY <1>1, <1>2, <1>4 DEF ClockTypes
<1>6. ASSUME ~set.back, NEW x \in Reader
      PROVE  OnTime(ctx'[x], call'[x], told'[x], counter, offset, set)
  BY <1>3, <1>6, Zenon DEF ClockInv
<1> QED BY <1>5, <1>6 DEF ClockInv

\* What is known of a thread that takes a step.
LEMMA ThreadParts ==
  ASSUME ClockInv, NEW t \in Reader
  PROVE  /\ ClockTypes
         /\ ctx[t] \in Contexts /\ call[t] \in Calls /\ told[t] \in Int
         /\ call[t].asked \in Nat /\ call[t].based \in Nat
         /\ call[t].asked <= counter /\ call[t].based <= counter
         /\ ctx = [ctx EXCEPT ![t] = ctx[t]] /\ told = [told EXCEPT ![t] = told[t]]
         /\ ~set.back => OnTime(ctx[t], call[t], told[t], counter, offset, set)
<1>1. ClockTypes
  BY DEF ClockInv
<1>2. ctx[t] \in Contexts /\ call[t] \in Calls /\ told[t] \in Int
      /\ call[t].asked <= counter /\ call[t].based <= counter
      /\ ctx = [ctx EXCEPT ![t] = ctx[t]] /\ told = [told EXCEPT ![t] = told[t]]
  BY <1>1 DEF ClockTypes
<1>3. call[t].asked \in Nat /\ call[t].based \in Nat
  BY <1>2 DEF Calls
<1>4. ~set.back => OnTime(ctx[t], call[t], told[t], counter, offset, set)
  BY DEF ClockInv
<1> QED BY <1>1, <1>2, <1>3, <1>4

LEMMA AskKeeps ==
  ASSUME ClockInv, NEW t \in Reader, C!Ask(t)
  PROVE  ClockInv'
<1> PICK c \in Contexts, l \in Calls, m \in Int : c = ctx[t] /\ l = call[t] /\ m = told[t]
  BY ThreadParts
<1>1. /\ ClockTypes /\ l.asked <= counter /\ l.based <= counter /\ l.based \in Nat
      /\ told = [told EXCEPT ![t] = m] /\ ctx = [ctx EXCEPT ![t] = c]
      /\ ~set.back => OnTime(c, l, m, counter, offset, set)
      /\ call \in [Reader -> Calls] /\ ctx \in [Reader -> Contexts]
  BY ThreadParts DEF ClockTypes
<1>2. /\ counter \in Nat /\ offset \in Nat /\ set.at \in Int
      /\ C!SystemTime = Sys(counter + offset) /\ C!SystemTime \in Int
      /\ C!SystemTime >= 0 /\ C!Now = C!SystemTime \div Micros /\ C!Now \in Int
  BY <1>1, ClockParts
<1> PICK x \in Int, now \in Int : x = C!SystemTime /\ now = C!Now
  BY <1>2
<1>3. l.at = "idle" /\ UNCHANGED <<counter, offset, set, told>>
  BY DEF C!Ask
<1>4. ~set.back => Waiting(c, l, m, counter, offset, set)
  BY <1>1, <1>3 DEF OnTime
<1>5. CASE now - c.last_init > Day
  <2> DEFINE d == [c EXCEPT !.last_init = now]
             k == [l EXCEPT !.at = "base", !.asked = counter]
  <2>1. d \in Contexts /\ d.last_init = now
    BY DEF Contexts
  <2>2. k \in Calls /\ k.at = "base" /\ k.asked = counter /\ k.based = l.based
    BY <1>2 DEF Calls
  <2>3. ctx' = [ctx EXCEPT ![t] = d]
    BY <1>1, <1>5 DEF C!Ask
  <2>4. call' = [call EXCEPT ![t] = k]
    BY <1>1, <1>5 DEF C!Ask
  <2> HIDE DEF d, k
  <2>5. ASSUME ~set.back PROVE OnTime(d, k, m, counter, offset, set)
    <3>1. m <= x \div Fine
      <4>1. CASE m = 0
        <5>1. x \div Fine \in Int /\ x \div Fine >= 0
          BY <1>2, Coarser
        <5> QED BY <4>1, <5>1
      <4>2. CASE ReadsFrom(c, l.based, m, counter, offset, set)
        BY <1>1, <1>2, <4>2, BehindTheTime
      <4> QED BY <1>4, <2>5, <4>1, <4>2 DEF Waiting
    <3>2. d.last_init <= x \div Micros
      BY <1>2, <2>1
    <3> QED BY <1>2, <2>2, <3>1, <3>2 DEF OnTime, Renewing
  <2>6. k.asked <= counter /\ k.based <= counter
    BY <1>1, <1>2, <2>2
  <2>7. told' = [told EXCEPT ![t] = m] /\ UNCHANGED <<counter, offset, set>>
    BY <1>1, <1>3
  <2> QED BY <2>1, <2>2, <2>3, <2>4, <2>5, <2>6, <2>7, StepKeeps
<1>6. CASE ~(now - c.last_init > Day)
  <2> DEFINE k == [l EXCEPT !.at = "tell", !.asked = counter]
  <2>2. k \in Calls /\ k.at = "tell" /\ k.asked = counter /\ k.based = l.based /\ k.late = l.late
    BY <1>2 DEF Calls
  <2>3. ctx' = [ctx EXCEPT ![t] = c]
    BY <1>1, <1>6 DEF C!Ask
  <2>4. call' = [call EXCEPT ![t] = k]
    BY <1>1, <1>6 DEF C!Ask
  <2> HIDE DEF k
  <2>5. ASSUME ~set.back PROVE OnTime(c, k, m, counter, offset, set)
    <3>1. c # C!Fresh
      BY <1>1, <1>6, FirstIsRenewed
    <3>2. ReadsFrom(c, l.based, m, counter, offset, set) /\ l.late = c.stamp - l.based
      BY <1>4, <2>5, <3>1 DEF Waiting
    <3>3. ASSUME SettledAt(counter, set) PROVE set.at < l.based
      <4>1. CASE set.at = -1
        BY <1>1, <4>1
      <4>2. CASE counter > set.at + (Day + 1) * Ticks
        <5>1. TookBase(c, l.based, offset, set)
          BY <3>2 DEF ReadsFrom
        <5> QED BY <1>1, <1>2, <1>6, <4>2, <5>1, LateIsRenewed
      <4> QED BY <3>3, <4>1, <4>2 DEF SettledAt
    <3>4. Telling(c, k, m, counter, offset, set)
      BY <2>2, <3>2, <3>3 DEF Telling
    <3> QED BY <2>2, <3>4 DEF OnTime
  <2>6. k.asked <= counter /\ k.based <= counter
    BY <1>1, <1>2, <2>2
  <2>7. told' = [told EXCEPT ![t] = m] /\ UNCHANGED <<counter, offset, set>>
    BY <1>1, <1>3
  <2> QED BY <2>2, <2>3, <2>4, <2>5, <2>6, <2>7, StepKeeps
<1> QED BY <1>5, <1>6

LEMMA BaseKeeps ==
  ASSUME ClockInv, NEW t \in Reader, C!TakeBase(t)
  PROVE  ClockInv'
<1> PICK c \in Contexts, l \in Calls, m \in Int : c = ctx[t] /\ l = call[t] /\ m = told[t]
  BY ThreadParts
<1>1. /\ ClockTypes /\ l.asked <= counter
      /\ told = [told EXCEPT ![t] = m]
      /\ ~set.back => OnTime(c, l, m, counter, offset, set)
      /\ call \in [Reader -> Calls] /\ ctx \in [Reader -> Contexts]
  BY ThreadParts DEF ClockTypes
<1>2. /\ counter \in Nat /\ offset \in Nat
      /\ C!SystemTime = Sys(counter + offset) /\ C!SystemTime \in Int
  BY <1>1, ClockParts
<1> PICK x \in Int : x = C!SystemTime
  BY <1>2
<1>3. l.at = "base" /\ UNCHANGED <<counter, offset, set, told>>
  BY DEF C!TakeBase
<1>4. ~set.back => Renewing(c, m, counter, offset)
  BY <1>1, <1>3 DEF OnTime
<1>5. x \div Micros \in Int /\ x % Micros \in Int /\ x = (x \div Micros) * Micros + (x % Micros)
  BY Units, RestIs, Zenon
<1>14. PICK y \in Int, z \in Int : y = x \div Micros /\ z = x % Micros /\ x = y * Micros + z
  BY <1>5, Zenon
<1> DEFINE d == [c EXCEPT !.sec = y, !.usec = z]
           k == [l EXCEPT !.at = "stamp", !.based = counter]
<1>6. d \in Contexts /\ d.last_init = c.last_init /\ d.sec = y /\ d.usec = z
  BY DEF Contexts
<1>7. k \in Calls /\ k.at = "stamp" /\ k.asked = l.asked /\ k.based = counter
  BY <1>2 DEF Calls
<1>8. ctx' = [ctx EXCEPT ![t] = d]
  BY <1>1, <1>14 DEF C!TakeBase
<1>9. call' = [call EXCEPT ![t] = k]
  BY <1>1 DEF C!TakeBase
<1> HIDE DEF d, k
<1>10. Since(d) = x
  BY <1>6, <1>14 DEF Since
<1>11. ASSUME ~set.back PROVE OnTime(d, k, m, counter, offset, set)
  <2>1. c.last_init <= x \div Micros /\ m <= x \div Fine
    BY <1>2, <1>4, <1>11 DEF Renewing
  <2>2. TookBase(d, counter, offset, set)
    <3>1. Since(d) = Sys(counter + offset) /\ Since(d) <= Sys(counter + offset)
      BY <1>2, <1>10
    <3>2. d.last_init <= Since(d) \div Micros
      <4>1. Since(d) \div Micros = x \div Micros
        BY <1>10, Zenon
      <4>2. c.last_init <= y /\ d.last_init = c.last_init
        BY <1>6, <1>14, <2>1
      <4> QED BY <1>14, <4>1, <4>2
    <3> QED BY <3>1, <3>2 DEF TookBase
  <2>3. Stamping(d, k, m, offset, set)
    BY <1>1, <1>7, <1>10, <2>1, <2>2 DEF Stamping
  <2> QED BY <1>7, <2>3 DEF OnTime
<1>12. k.asked <= counter /\ k.based <= counter
  BY <1>1, <1>2, <1>7
<1>13. told' = [told EXCEPT ![t] = m] /\ UNCHANGED <<counter, offset, set>>
  BY <1>1, <1>3
<1> QED BY <1>6, <1>7, <1>8, <1>9, <1>11, <1>12, <1>13, StepKeeps

LEMMA StampKeeps ==
  ASSUME ClockInv, NEW t \in Reader, C!TakeStamp(t)
  PROVE  ClockInv'
<1> PICK c \in Contexts, l \in Calls, m \in Int : c = ctx[t] /\ l = call[t] /\ m = told[t]
  BY ThreadParts
<1>1. /\ ClockTypes /\ l.asked <= counter /\ l.based <= counter
      /\ l.asked \in Nat /\ l.based \in Nat
      /\ told = [told EXCEPT ![t] = m]
      /\ ~set.back => OnTime(c, l, m, counter, offset, set)
      /\ call \in [Reader -> Calls] /\ ctx \in [Reader -> Contexts]
  BY ThreadParts DEF ClockTypes
<1>2. counter \in Nat /\ offset \in Nat /\ set.at \in Int
  BY <1>1, ClockParts
<1>3. l.at = "stamp" /\ UNCHANGED <<counter, offset, set, told>>
  BY DEF C!TakeStamp
<1>4. ~set.back => Stamping(c, l, m, offset, set)
  BY <1>1, <1>3 DEF OnTime
<1> PICK e \in Int : e = counter - l.based
  BY <1>1, <1>2
<1> DEFINE d == [c EXCEPT !.stamp = counter]
           k == [l EXCEPT !.at = "tell", !.late = e]
<1>5. /\ d \in Contexts /\ d.last_init = c.last_init /\ d.stamp = counter
      /\ d.sec = c.sec /\ d.usec = c.usec
  BY <1>2 DEF Contexts
<1> HIDE DEF d
<1>6. d \in Contexts /\ d.last_init = c.last_init /\ d.stamp = counter /\ Since(d) = Since(c)
  BY <1>5 DEF Since
<1>7. /\ k \in Calls /\ k.at = "tell" /\ k.asked = l.asked /\ k.based = l.based
      /\ k.late = e
  BY <1>1, <1>2 DEF Calls
<1>8. ctx' = [ctx EXCEPT ![t] = d]
  BY <1>1 DEF C!TakeStamp, C!Stamped, d
<1>9. call' = [call EXCEPT ![t] = k]
  BY <1>1 DEF C!TakeStamp
<1> HIDE DEF d, k
<1>11. ASSUME ~set.back PROVE OnTime(d, k, m, counter, offset, set)
  <2>1. TookBase(c, l.based, offset, set) /\ m <= Since(c) \div Fine /\ l.asked <= l.based
    BY <1>4, <1>11 DEF Stamping
  <2>2. TookBase(d, l.based, offset, set)
    BY <1>6, <2>1 DEF TookBase
  <2>3. Sys(counter - d.stamp) = 0
    <3>1. counter - d.stamp = 0
      BY <1>2, <1>6
    <3>2. Sys(0) = 0
      BY SysIs
    <3> QED BY <3>1, <3>2
  <2>4. Since(d) + Sys(counter - d.stamp) = Since(c)
    <3>1. Since(c) \in Int
      BY <1>2, SinceIs
    <3> QED BY <1>6, <2>3, <3>1
  <2>5. ReadsFrom(d, l.based, m, counter, offset, set)
    BY <1>1, <1>2, <1>6, <2>1, <2>2, <2>4 DEF ReadsFrom
  <2>6. SettledAt(l.asked, set) => set.at < l.based
    <3> PICK f \in Nat : f = (Day + 1) * Ticks
      BY Units
    <3> QED BY <1>1, <1>2, <2>1 DEF SettledAt
  <2>7. k.late = d.stamp - k.based
    BY <1>6, <1>7
  <2>8. Telling(d, k, m, counter, offset, set)
    BY <1>7, <2>5, <2>6, <2>7 DEF Telling
  <2> QED BY <1>7, <2>8 DEF OnTime
<1>12. k.asked <= counter /\ k.based <= counter
  BY <1>1, <1>7
<1>13. told' = [told EXCEPT ![t] = m] /\ UNCHANGED <<counter, offset, set>>
  BY <1>1, <1>3
<1> QED BY <1>6, <1>7, <1>8, <1>9, <1>11, <1>12, <1>13, StepKeeps

\* What a thread is told.
LEMMA ToldIs ==
  ASSUME ClockInv, NEW t \in Reader, C!Tell(t)
  PROVE  told' = [told EXCEPT ![t] = (Since(ctx[t]) + Sys(counter - ctx[t].stamp)) \div Fine]
<1>1. ctx[t] \in Contexts /\ counter \in Nat
  BY ThreadParts, ClockParts
<1>2. C!Milliseconds(C!TimeOfDay(ctx[t])) = (Since(ctx[t]) + Sys(counter - ctx[t].stamp)) \div Fine
  BY <1>1, MillisecondsAre
<1>3. told' = [told EXCEPT ![t] = C!Milliseconds(C!TimeOfDay(ctx[t]))]
  BY DEF C!Tell
<1> QED BY <1>2, <1>3, Zenon

LEMMA TellKeeps ==
  ASSUME ClockInv, NEW t \in Reader, C!Tell(t)
  PROVE  ClockInv'
<1> PICK c \in Contexts, l \in Calls, m \in Int : c = ctx[t] /\ l = call[t] /\ m = told[t]
  BY ThreadParts
<1>1. /\ ClockTypes /\ l.asked <= counter /\ l.based <= counter
      /\ ctx = [ctx EXCEPT ![t] = c]
      /\ ~set.back => OnTime(c, l, m, counter, offset, set)
      /\ call \in [Reader -> Calls]
  BY ThreadParts DEF ClockTypes
<1>2. counter \in Nat
  BY <1>1, ClockParts
<1>3. l.at = "tell" /\ UNCHANGED <<counter, offset, set, ctx>>
  BY DEF C!Tell
<1>4. ~set.back => ReadsFrom(c, l.based, m, counter, offset, set) /\ l.late = c.stamp - l.based
  BY <1>1, <1>3 DEF OnTime, Telling
<1> PICK e \in Int : e = (Since(c) + Sys(counter - c.stamp)) \div Fine
  BY <1>2, SinceIs
<1>5. told' = [told EXCEPT ![t] = e]
  BY ToldIs
<1> DEFINE k == [l EXCEPT !.at = "idle"]
<1>7. /\ k \in Calls /\ k.at = "idle" /\ k.asked = l.asked /\ k.based = l.based /\ k.late = l.late
  BY DEF Calls
<1>9. call' = [call EXCEPT ![t] = k]
  BY <1>1 DEF C!Tell
<1> HIDE DEF k
<1>11. ASSUME ~set.back PROVE OnTime(c, k, e, counter, offset, set)
  <2>1. ReadsFrom(c, l.based, e, counter, offset, set)
    BY <1>4, <1>11 DEF ReadsFrom
  <2> QED BY <1>4, <1>7, <1>11, <2>1 DEF OnTime, Waiting
<1>12. k.asked <= counter /\ k.based <= counter
  BY <1>1, <1>7
<1>13. ctx' = [ctx EXCEPT ![t] = c] /\ UNCHANGED <<counter, offset, set>>
  BY <1>1, <1>3
<1> QED BY <1>5, <1>7, <1>9, <1>11, <1>12, <1>13, StepKeeps

LEMMA ClockStays ==
  ASSUME ClockInv, [C!Next]_(C!vars)
  PROVE  ClockInv'
<1>1. CASE C!Pass
  BY <1>1, PassKeeps
<1>2. ASSUME NEW o \in Offsets, C!SetTime(o) PROVE ClockInv'
  BY <1>2, SetKeeps
<1>3. ASSUME NEW t \in Reader, C!Ask(t) \/ C!TakeBase(t) \/ C!TakeStamp(t) \/ C!Tell(t)
      PROVE  ClockInv'
  BY <1>3, AskKeeps, BaseKeeps, StampKeeps, TellKeeps
<1>4. CASE UNCHANGED C!vars
  BY <1>4 DEF C!vars, ClockInv, ClockTypes
<1> QED BY <1>1, <1>2, <1>3, <1>4 DEF C!Next

\* What a thread is told is not less than before, and is the time when it was
\* not changed for long.
LEMMA ToldIsRight ==
  ASSUME ClockInv, NEW t \in Reader, C!Tell(t), ~set.back
  PROVE  /\ told'[t] >= told[t]
         /\ C!Settled(call[t].asked) =>
              told'[t] - (C!TimeAgo(call[t].late) * Millis) \div Micros \in {-1, 0}
<1> PICK c \in Contexts, l \in Calls, m \in Int : c = ctx[t] /\ l = call[t] /\ m = told[t]
  BY ThreadParts
<1>1. ClockTypes /\ OnTime(c, l, m, counter, offset, set) /\ l.based \in Nat
  BY ThreadParts
<1>2. counter \in Nat /\ offset \in Nat
  BY <1>1, ClockParts
<1>3. Telling(c, l, m, counter, offset, set)
  BY <1>1 DEF OnTime, C!Tell
<1>4. ReadsFrom(c, l.based, m, counter, offset, set) /\ l.late = c.stamp - l.based
      /\ (SettledAt(l.asked, set) => set.at < l.based)
  BY <1>3 DEF Telling
<1> PICK y \in Int : y = Since(c) + Sys(counter - c.stamp)
  BY <1>2, SinceIs
<1> PICK e \in Int : e = y \div Fine
  BY Coarser
<1>5. told'[t] = e
  <2>1. told \in [Reader -> Int]
    BY <1>1 DEF ClockTypes
  <2>2. told' = [told EXCEPT ![t] = e]
    BY ToldIs
  <2> QED BY <2>1, <2>2
<1>6. m <= e
  BY <1>4 DEF ReadsFrom
<1>7. ASSUME C!Settled(l.asked)
      PROVE  e - (C!TimeAgo(l.late) * Millis) \div Micros \in {-1, 0}
  <2>1. set.at < l.based
    BY <1>4, <1>7 DEF C!Settled, SettledAt
  <2>2. l.late \in Int /\ counter - l.late + offset \in Int
        /\ counter + offset - l.late = counter - l.late + offset
    BY <1>2 DEF Calls
  <2> PICK x \in Int : x = Sys(counter - l.late + offset)
    BY <2>2, SysIs
  <2>3. C!TimeAgo(l.late) = x
    BY <2>2 DEF C!TimeAgo, Sys, Scaled
  <2>4. y <= x /\ x <= y + 1
    BY <1>1, <1>2, <1>4, <2>1, BehindTheTime
  <2>5. x \in {y, y + 1}
    BY <2>4
  <2>6. e \in {x \div Fine - 1, x \div Fine}
    BY <2>5, OneLost
  <2>7. (x * Millis) \div Micros = x \div Fine
    BY Units, DivCancels
  <2> PICK z \in Int : z = x \div Fine
    BY Coarser
  <2>8. e - z \in {-1, 0}
    BY <2>6
  <2> QED BY <2>3, <2>7, <2>8
<1> QED BY <1>5, <1>6, <1>7

-----------------------------------------------------------------------------
\* SelectPoll.

\* An array with nothing but its first entry, x.
OnlyFirst(n, x) == [k \in 1 .. n + 1 |-> IF k = 1 THEN x ELSE S!Clear]

\* The array as it is while the sets are put into it: nothing but its first
\* entry, e, is ever used, and there is none before the first socket.
OneEntry(st, n, e, m) ==
  /\ st = [array |-> OnlyFirst(n, e), cnt |-> m, ok |-> TRUE]
  /\ m \in {0, 1} /\ (m = 0 => e = S!Clear)
  /\ \E f, o : e = [fd |-> f, events |-> o, revents |-> {}]

\* The first entry when a socket is put into it, and when a set is.
EntryWith(e, f, oper) == [fd |-> f, events |-> e.events \cup {oper}, revents |-> {}]

EntryAfter(e, s, oper) == IF Len(s) = 0 THEN e ELSE EntryWith(e, s[Len(s)], oper)

LEMMA OnlyFirstWith ==
  ASSUME NEW n \in Nat, NEW x, NEW y
  PROVE  /\ [OnlyFirst(n, x) EXCEPT ![1] = y] = OnlyFirst(n, y)
         /\ OnlyFirst(n, x)[1] = x
<1>1. 1 \in 1 .. n + 1
  OBVIOUS
<1>2. [OnlyFirst(n, x) EXCEPT ![1] = y] = OnlyFirst(n, y)
  BY <1>1, Zenon DEF OnlyFirst
<1> QED BY <1>1, <1>2 DEF OnlyFirst

LEMMA PlacedFirst ==
  ASSUME NEW st, NEW n \in Nat, NEW e, NEW m, OneEntry(st, n, e, m), NEW f, NEW oper,
         NEW i \in 1 .. n, m = 0 => i = 1
  PROVE  OneEntry(S!Placed(st, f, i, n, oper), n, EntryWith(e, f, oper), 1)
<1> DEFINE new == EntryWith(e, f, oper)
<1>1. st = [array |-> OnlyFirst(n, e), cnt |-> m, ok |-> TRUE] /\ m \in {0, 1} /\ (m = 0 => e = S!Clear)
  BY DEF OneEntry
<1>2. st.array = OnlyFirst(n, e) /\ st.cnt = m /\ st.ok = TRUE
  BY <1>1
<1>3. PICK g, o : e = [fd |-> g, events |-> o, revents |-> {}]
  BY Zenon DEF OneEntry
<1>4. new = [fd |-> f, events |-> o \cup {oper}, revents |-> {}]
  BY <1>3 DEF EntryWith
<1>5. S!Placed(st, f, i, n, oper) = [array |-> OnlyFirst(n, new), cnt |-> 1, ok |-> TRUE]
  <2>1. CASE m = 1
    <3> DEFINE moved == [fd |-> f, events |-> o, revents |-> {}]
    <3>1. [e EXCEPT !.fd = f] = moved
      BY <1>3
    <3>2. S!Wants(moved, oper) = new
      BY <1>4 DEF S!Wants
    <3> HIDE DEF moved, new
    <3>3. S!Found(st.array, st.cnt, f) = [at |-> 1, array |-> OnlyFirst(n, moved)]
      <4>1. ~(st.cnt = 0)
        BY <1>2, <2>1
      <4>2. S!Found(st.array, st.cnt, f) =
              [at |-> 1, array |-> [st.array EXCEPT ![1] = [st.array[1] EXCEPT !.fd = f]]]
        BY <4>1, Zenon DEF S!Found
      <4>3. st.array[1] = e
        BY <1>2, OnlyFirstWith
      <4>4. [st.array EXCEPT ![1] = moved] = OnlyFirst(n, moved)
        BY <1>2, OnlyFirstWith
      <4> QED BY <3>1, <4>2, <4>3, <4>4
    <3>4. [OnlyFirst(n, moved) EXCEPT ![1] = S!Wants(OnlyFirst(n, moved)[1], oper)] = OnlyFirst(n, new)
      BY <3>2, OnlyFirstWith
    <3> DEFINE found == [at |-> 1, array |-> OnlyFirst(n, moved)]
    <3>5. found.at = 1 /\ found.array = OnlyFirst(n, moved) /\ found.at # 0
      OBVIOUS
    <3>6. S!Found(st.array, st.cnt, f) = found
      BY <3>3
    <3> HIDE DEF found
    <3>7. S!Placed(st, f, i, n, oper) =
            [st EXCEPT !.array = [found.array EXCEPT ![found.at] = S!Wants(found.array[found.at], oper)]]
      BY <1>2, <3>5, <3>6, Zenon DEF S!Placed
    <3>8. S!Placed(st, f, i, n, oper) = [st EXCEPT !.array = OnlyFirst(n, new)]
      BY <3>4, <3>5, <3>7
    <3> QED BY <1>1, <2>1, <3>8, Zenon
  <2>2. CASE m = 0
    <3>1. i = 1 /\ n >= 1 /\ ~(st.cnt >= n)
      BY <1>2, <2>2
    <3>2. o = {}
      BY <1>1, <1>3, <2>2 DEF S!Clear
    <3>3. new = [fd |-> f, events |-> {oper}, revents |-> {}]
      BY <1>4, <3>2
    <3> HIDE DEF new
    <3> DEFINE found == [at |-> 0, array |-> OnlyFirst(n, e)]
    <3>4. found.at = 0 /\ found.array = OnlyFirst(n, e)
      OBVIOUS
    <3>5. S!Found(st.array, st.cnt, f) = found
      BY <1>2, <2>2 DEF S!Found
    <3> HIDE DEF found
    <3>6. S!Placed(st, f, i, n, oper) =
            [st EXCEPT !.array = [found.array EXCEPT ![i] = [fd |-> f, events |-> {oper}, revents |-> {}]],
                       !.cnt = @ + 1]
      BY <1>2, <3>1, <3>4, <3>5, Zenon DEF S!Placed
    <3>7. [found.array EXCEPT ![i] = new] = OnlyFirst(n, new)
      BY <3>1, <3>4, OnlyFirstWith
    <3>8. S!Placed(st, f, i, n, oper) = [st EXCEPT !.array = OnlyFirst(n, new), !.cnt = @ + 1]
      BY <3>3, <3>6, <3>7, Zenon
    <3>9. st = [array |-> OnlyFirst(n, e), cnt |-> 0, ok |-> TRUE]
      BY <1>1, <2>2
    <3>10. S!Placed(st, f, i, n, oper) = [st EXCEPT !.array = OnlyFirst(n, new), !.cnt = st.cnt + 1]
      BY <3>8
    <3>11. st.cnt + 1 = 1
      BY <3>9
    <3> HIDE DEF found
    <3> QED BY <3>9, <3>10, <3>11, Zenon
  <2> QED BY <1>1, <2>1, <2>2
<1> HIDE DEF new
<1>6. \E x, y : new = [fd |-> x, events |-> y, revents |-> {}]
  BY <1>4, Zenon
<1>7. 1 \in {0, 1} /\ (1 = 0 => new = S!Clear)
  OBVIOUS
<1>8. OneEntry(S!Placed(st, f, i, n, oper), n, new, 1)
  BY <1>5, <1>6, <1>7, Zenon DEF OneEntry
<1> QED BY <1>8, Zenon DEF new

\* f puts the sockets of s into the array st, one after the other.
Puts(f, st, s, n, oper, l) ==
  f = [i \in 0 .. l |-> IF i = 0 THEN st ELSE S!Placed(f[i - 1], s[i], i, n, oper)]

LEMMA PutsThere ==
  ASSUME NEW st, NEW s, NEW n, NEW oper, NEW l \in Nat
  PROVE  \E f : Puts(f, st, s, n, oper, l)
<1> DEFINE D == {k \in Nat : \E f : Puts(f, st, s, n, oper, k)}
<1>1. 0 \in D
  <2> DEFINE f == [i \in 0 .. 0 |-> st]
  <2>1. f = [i \in 0 .. 0 |-> IF i = 0 THEN st ELSE S!Placed(f[i - 1], s[i], i, n, oper)]
    OBVIOUS
  <2> HIDE DEF f
  <2>2. Puts(f, st, s, n, oper, 0)
    BY <2>1 DEF Puts
  <2> QED BY <2>2
<1>2. ASSUME NEW k \in D PROVE k + 1 \in D
  <2> PICK f : Puts(f, st, s, n, oper, k)
    OBVIOUS
  <2>0. k \in Nat
    OBVIOUS
  <2>1. f = [i \in 0 .. k |-> IF i = 0 THEN st ELSE S!Placed(f[i - 1], s[i], i, n, oper)]
    BY DEF Puts
  <2> PICK j \in Nat : j = k + 1
    BY <2>0
  <2> DEFINE g == [i \in 0 .. j |-> IF i <= k THEN f[i] ELSE S!Placed(f[k], s[j], j, n, oper)]
  <2>2. ASSUME NEW i \in 0 .. j
        PROVE  g[i] = IF i = 0 THEN st ELSE S!Placed(g[i - 1], s[i], i, n, oper)
    <3>1. CASE i = 0
      <4>1. i \in 0 .. k /\ i <= k
        BY <2>0, <3>1
      <4> QED BY <2>1, <3>1, <4>1
    <3>2. CASE i # 0 /\ i <= k
      <4>1. i \in 0 .. k /\ i - 1 \in 0 .. j /\ i - 1 <= k
        BY <2>0, <3>2
      <4>2. g[i - 1] = f[i - 1] /\ g[i] = f[i]
        BY <3>2, <4>1
      <4>3. f[i] = S!Placed(f[i - 1], s[i], i, n, oper)
        BY <2>1, <3>2, <4>1
      <4> QED BY <3>2, <4>2, <4>3
    <3>3. CASE ~(i <= k)
      <4>1. i = j /\ i - 1 = k /\ k \in 0 .. j /\ i # 0
        BY <2>0, <3>3
      <4>2. g[k] = f[k] /\ g[i] = S!Placed(f[k], s[j], j, n, oper)
        BY <2>0, <3>3, <4>1
      <4> HIDE DEF g
      <4> QED BY <4>1, <4>2
    <3> QED BY <3>1, <3>2, <3>3
  <2>3. g = [i \in 0 .. j |-> g[i]]
    OBVIOUS
  <2> HIDE DEF g
  <2>4. Puts(g, st, s, n, oper, j)
    BY <2>2, <2>3, Zenon DEF Puts
  <2> HIDE DEF D
  <2>5. j \in D
    BY <2>4 DEF D
  <2> QED BY <2>5
<1> HIDE DEF D
<1>3. D \in SUBSET Nat
  BY DEF D
<1>4. l \in D
  BY <1>1, <1>2, <1>3, SetInduction
<1> QED BY <1>4 DEF D

\* Putting a set into the array leaves the last socket of the set.
LEMMA SetFirst ==
  ASSUME NEW n \in Nat, NEW st, NEW e, NEW m, OneEntry(st, n, e, m),
         NEW s \in Seq(Socket), Len(s) <= n, NEW oper
  PROVE  OneEntry(S!SetFdset(st, s, n, oper), n, EntryAfter(e, s, oper), IF Len(s) = 0 THEN m ELSE 1)
<1> DEFINE f == CHOOSE after : after =
                  [i \in 0 .. Len(s) |-> IF i = 0 THEN st ELSE S!Placed(after[i - 1], s[i], i, n, oper)]
           x(k) == IF k = 0 THEN e ELSE EntryWith(e, s[k], oper)
           c(k) == IF k = 0 THEN m ELSE 1
           D == {k \in Nat : k <= Len(s) => OneEntry(f[k], n, x(k), c(k))}
<1>0. Len(s) \in Nat
  OBVIOUS
<1>1. S!SetFdset(st, s, n, oper) = f[Len(s)]
  BY DEF S!SetFdset
<1>2. Puts(f, st, s, n, oper, Len(s))
  <2>1. \E g : g = [i \in 0 .. Len(s) |-> IF i = 0 THEN st ELSE S!Placed(g[i - 1], s[i], i, n, oper)]
    <3> PICK g : Puts(g, st, s, n, oper, Len(s))
      BY <1>0, PutsThere, Zenon
    <3>1. g = [i \in 0 .. Len(s) |-> IF i = 0 THEN st ELSE S!Placed(g[i - 1], s[i], i, n, oper)]
      BY Zenon DEF Puts
    <3> QED BY <3>1
  <2>2. f = [i \in 0 .. Len(s) |-> IF i = 0 THEN st ELSE S!Placed(f[i - 1], s[i], i, n, oper)]
    BY <2>1, Zenon
  <2> HIDE DEF f
  <2> QED BY <2>2, Zenon DEF Puts
<1> HIDE DEF f
<1>3. f[0] = st /\ \A i \in 1 .. Len(s) : f[i] = S!Placed(f[i - 1], s[i], i, n, oper)
  <2>1. f = [i \in 0 .. Len(s) |-> IF i = 0 THEN st ELSE S!Placed(f[i - 1], s[i], i, n, oper)]
    BY <1>2, Zenon DEF Puts
  <2>2. 0 \in 0 .. Len(s) /\ \A i \in 1 .. Len(s) : i \in 0 .. Len(s) /\ i # 0
    BY <1>0
  <2> QED BY <2>1, <2>2
<1>4. 0 \in D
  BY <1>3
<1>5. ASSUME NEW k \in D PROVE k + 1 \in D
  <2>1. k \in Nat /\ (k <= Len(s) => OneEntry(f[k], n, x(k), c(k)))
    OBVIOUS
  <2>2. ASSUME k + 1 <= Len(s) PROVE OneEntry(f[k + 1], n, x(k + 1), c(k + 1))
    <3> PICK l \in 1 .. Len(s) : l = k + 1 /\ l - 1 = k /\ k <= Len(s) /\ l # 0
      BY <1>0, <2>1, <2>2
    <3>1. l \in 1 .. n /\ (c(k) = 0 => l = 1)
      BY <1>0, <2>1
    <3>2. OneEntry(f[k], n, x(k), c(k))
      BY <2>1
    <3>3. f[l] = S!Placed(f[k], s[l], l, n, oper)
      BY <1>3
    <3>4. OneEntry(f[l], n, EntryWith(x(k), s[l], oper), 1)
      <4> HIDE DEF x, c
      <4>1. OneEntry(S!Placed(f[k], s[l], l, n, oper), n, EntryWith(x(k), s[l], oper), 1)
        BY <3>1, <3>2, PlacedFirst, Zenon
      <4> QED BY <3>3, <4>1
    <3>5. EntryWith(x(k), s[l], oper) = x(l) /\ c(l) = 1
      BY <2>1, Zenon DEF EntryWith
    <3> QED BY <3>4, <3>5
  <2>3. k + 1 \in Nat
    BY <2>1
  <2> HIDE DEF x, c
  <2> QED BY <2>2, <2>3
<1>6. OneEntry(f[Len(s)], n, x(Len(s)), c(Len(s)))
  <2> HIDE DEF x, c, D
  <2>1. D \in SUBSET Nat
    BY DEF D
  <2>2. Len(s) \in D
    BY <1>0, <1>4, <1>5, <2>1, SetInduction
  <2> QED BY <1>0, <2>2 DEF D
<1> QED BY <1>1, <1>6 DEF EntryAfter

\* What is in the first entry behind a set.
LEMMA EntryIs ==
  ASSUME NEW e, NEW s, NEW oper
  PROVE  /\ EntryAfter(e, s, oper).fd = IF Len(s) = 0 THEN e.fd ELSE s[Len(s)]
         /\ EntryAfter(e, s, oper).events = e.events \cup (IF Len(s) = 0 THEN {} ELSE {oper})
BY DEF EntryAfter, EntryWith

\* The sockets of a set, none when it is not given.
Given(k) == IF sets[k] = Null THEN <<>> ELSE sets[k]

\* pfds_create with one set more.
WithSet(st, k, n) ==
  IF sets[k] # Null /\ st.ok THEN S!SetFdset(st, sets[k], n, S!Oper[k]) ELSE st

LEMMA WithFirst ==
  ASSUME NEW n \in Nat, NEW st, NEW e, NEW m, OneEntry(st, n, e, m),
         NEW k, Given(k) \in Seq(Socket), Len(Given(k)) <= n
  PROVE  OneEntry(WithSet(st, k, n), n, EntryAfter(e, Given(k), S!Oper[k]),
                  IF Len(Given(k)) = 0 THEN m ELSE 1)
<1>1. CASE sets[k] = Null
  <2>1. Given(k) = <<>> /\ WithSet(st, k, n) = st
    BY <1>1 DEF Given, WithSet
  <2>2. EntryAfter(e, Given(k), S!Oper[k]) = e /\ Len(Given(k)) = 0
    BY <2>1 DEF EntryAfter
  <2> QED BY <2>1, <2>2
<1>2. CASE sets[k] # Null
  <2>1. Given(k) = sets[k]
    BY <1>2 DEF Given
  <2>2. st.ok = TRUE
    BY DEF OneEntry
  <2>3. WithSet(st, k, n) = S!SetFdset(st, Given(k), n, S!Oper[k])
    BY <1>2, <2>1, <2>2 DEF WithSet
  <2> QED BY <2>3, SetFirst
<1> QED BY <1>1, <1>2

LEMMA LargerIs ==
  ASSUME NEW n \in Nat, NEW k, Given(k) \in Seq(Socket)
  PROVE  S!Larger(n, k) \in Nat /\ n <= S!Larger(n, k) /\ Len(Given(k)) <= S!Larger(n, k)
<1>1. Len(Given(k)) \in Nat
  OBVIOUS
<1>2. CASE sets[k] = Null
  <2>1. Given(k) = <<>> /\ S!Larger(n, k) = n
    BY <1>2 DEF Given, S!Larger
  <2> QED BY <2>1
<1>3. CASE sets[k] # Null
  <2>1. Given(k) = sets[k]
    BY <1>3 DEF Given
  <2>2. S!Larger(n, k) = IF Len(Given(k)) > n THEN Len(Given(k)) ELSE n
    BY <1>3, <2>1 DEF S!Larger
  <2>3. \A u, v \in Nat : LET w == IF u > v THEN u ELSE v IN w \in Nat /\ v <= w /\ u <= w
    OBVIOUS
  <2> QED BY <1>1, <2>2, <2>3
<1> QED BY <1>2, <1>3

\* The array that pfds_create makes.
LEMMA CreatesOne ==
  ASSUME \A k \in 1 .. 3 : Given(k) \in Seq(Socket)
  PROVE  \E n \in Nat, m \in {0, 1} :
           OneEntry(S!PfdsCreate, n,
                    EntryAfter(EntryAfter(EntryAfter(S!Clear, Given(1), S!Oper[1]),
                                          Given(2), S!Oper[2]), Given(3), S!Oper[3]), m)
           /\ \A k \in 1 .. 3 : Len(Given(k)) <= n
<1> DEFINE a1 == S!Larger(0, 1)
           a2 == S!Larger(a1, 2)
           n == S!Larger(a2, 3)
           empty == [array |-> [i \in 1 .. n + 1 |-> S!Clear], cnt |-> 0, ok |-> TRUE]
           made == WithSet(WithSet(WithSet(empty, 1, n), 2, n), 3, n)
           e1 == EntryAfter(S!Clear, Given(1), S!Oper[1])
           e2 == EntryAfter(e1, Given(2), S!Oper[2])
           e3 == EntryAfter(e2, Given(3), S!Oper[3])
           m1 == IF Len(Given(1)) = 0 THEN 0 ELSE 1
           m2 == IF Len(Given(2)) = 0 THEN m1 ELSE 1
           m3 == IF Len(Given(3)) = 0 THEN m2 ELSE 1
<1>1. Given(1) \in Seq(Socket) /\ Given(2) \in Seq(Socket) /\ Given(3) \in Seq(Socket)
  OBVIOUS
<1>2. S!PfdsCreate = made
  BY DEF S!PfdsCreate, WithSet
<1>3. a1 \in Nat /\ Len(Given(1)) <= a1
  BY <1>1, LargerIs
<1> HIDE DEF a1
<1>4. a2 \in Nat /\ a1 <= a2 /\ Len(Given(2)) <= a2
  BY <1>1, <1>3, LargerIs
<1> HIDE DEF a2
<1>5. n \in Nat /\ a2 <= n /\ Len(Given(3)) <= n
  BY <1>1, <1>4, LargerIs
<1>6. Len(Given(1)) <= n /\ Len(Given(2)) <= n
  <2>1. Len(Given(1)) \in Nat /\ Len(Given(2)) \in Nat
    BY <1>1
  <2>2. \A u, v, w \in Nat : u <= v /\ v <= w => u <= w
    OBVIOUS
  <2> HIDE DEF n
  <2> QED BY <1>3, <1>4, <1>5, <2>1, <2>2
<1> HIDE DEF n
<1>7. OneEntry(empty, n, S!Clear, 0)
  <2>1. empty = [array |-> OnlyFirst(n, S!Clear), cnt |-> 0, ok |-> TRUE]
    BY DEF OnlyFirst
  <2>2. \E x, y : S!Clear = [fd |-> x, events |-> y, revents |-> {}]
    BY Zenon DEF S!Clear
  <2> QED BY <2>1, <2>2, Zenon DEF OneEntry
<1> HIDE DEF empty
<1>8. OneEntry(WithSet(empty, 1, n), n, e1, m1)
  BY <1>1, <1>5, <1>6, <1>7, WithFirst, Zenon
<1> HIDE DEF e1, m1
<1>9. OneEntry(WithSet(WithSet(empty, 1, n), 2, n), n, e2, m2)
  BY <1>1, <1>5, <1>6, <1>8, WithFirst, Zenon
<1> HIDE DEF e2, m2
<1>10. OneEntry(made, n, e3, m3)
  BY <1>1, <1>5, <1>9, WithFirst, Zenon
<1>11. m3 \in {0, 1}
  BY <1>10 DEF OneEntry
<1> HIDE DEF e3, m3, made
<1>12. \E x \in {0, 1} : OneEntry(S!PfdsCreate, n, e3, x)
  BY <1>2, <1>10, <1>11
<1>13. \A k \in 1 .. 3 : Len(Given(k)) <= n
  BY <1>5, <1>6
<1> QED BY <1>5, <1>12, <1>13, Zenon DEF e3, e2, e1

\* Nothing happened to the sockets of the array, since nobody polled.
LEMMA NothingHappened ==
  ASSUME NEW n \in Nat, NEW st, NEW e, NEW m, OneEntry(st, n, e, m), NEW events
  PROVE  S!Happened(st.array, events) = <<>>
<1>1. st.array = OnlyFirst(n, e) /\ e.revents = {}
  BY DEF OneEntry
<1>2. \A i \in DOMAIN OnlyFirst(n, e) : OnlyFirst(n, e)[i].revents = {}
  BY <1>1 DEF OnlyFirst, S!Clear
<1>3. S!Hit(st.array, events) = {}
  BY <1>1, <1>2 DEF S!Hit
<1>4. S!Cardinality({}) = 0
  BY FS_EmptySet DEF S!Cardinality, Cardinality
<1> QED BY <1>3, <1>4 DEF S!Happened

\* The last of three sequences behind each other.
LEMMA LastOfThree ==
  ASSUME NEW r \in Seq(Socket), NEW s \in Seq(Socket), NEW t \in Seq(Socket), r \o s \o t # <<>>
  PROVE  Last(r \o s \o t) = IF Len(t) # 0 THEN t[Len(t)]
                             ELSE IF Len(s) # 0 THEN s[Len(s)] ELSE r[Len(r)]
<1>1. ASSUME NEW x \in Seq(Socket), NEW y \in Seq(Socket), x \o y # <<>>
      PROVE  Last(x \o y) = IF Len(y) # 0 THEN y[Len(y)] ELSE Last(x)
  <2>1. x \o y \in Seq(Socket) /\ Len(x \o y) = Len(x) + Len(y) /\ Len(x) \in Nat /\ Len(y) \in Nat
    OBVIOUS
  <2>2. Len(x \o y) # 0
    BY <1>1, <2>1
  <2>3. CASE Len(y) # 0
    <3>1. (x \o y)[Len(x) + Len(y)] = y[Len(y)]
      BY <2>1, <2>3
    <3> QED BY <2>1, <2>3, <3>1 DEF Last
  <2>4. CASE Len(y) = 0
    <3>1. Len(x) + Len(y) = Len(x) /\ Len(x) \in 1 .. Len(x)
      BY <2>1, <2>2, <2>4
    <3>2. (x \o y)[Len(x)] = x[Len(x)]
      BY <2>1, <3>1
    <3> QED BY <2>1, <2>4, <3>1, <3>2 DEF Last
  <2> QED BY <2>3, <2>4
<1>2. r \o s \in Seq(Socket)
  OBVIOUS
<1>3. Last(r \o s \o t) = IF Len(t) # 0 THEN t[Len(t)] ELSE Last(r \o s)
  BY <1>1, <1>2, Zenon
<1>4. Len(t) = 0 => r \o s # <<>>
  <2> SUFFICES ASSUME Len(t) = 0, r \o s = <<>> PROVE FALSE
    OBVIOUS
  <2>1. t = <<>>
    OBVIOUS
  <2> QED BY <2>1
<1>5. Len(t) = 0 => Last(r \o s) = IF Len(s) # 0 THEN s[Len(s)] ELSE Last(r)
  BY <1>1, <1>4
<1>6. Last(r) = r[Len(r)]
  BY DEF Last
<1> QED BY <1>3, <1>5, <1>6

\* What the assignment of select.c:37 makes of the array: whatever is asked for,
\* in however many sets, ends up in its first entry, the last socket with the
\* events of all.
FirstEntryOnly ==
  \E n \in Nat : \E e :
    /\ fds = OnlyFirst(n, e)
    /\ S!Asked = <<>> => e = S!Clear
    /\ S!Asked # <<>> => n # 0 /\ e.fd = S!Asked[Len(S!Asked)]
    /\ \A k \in 1 .. 3 : e.events \cap {S!Oper[k]} = IF S!AskedIn(k) = <<>> THEN {} ELSE {S!Oper[k]}

\* The sets are sequences or NULL, what was asked too, and nothing happened.
SelectInv ==
  /\ sets \in [1 .. 3 -> Seq(Socket) \cup {Null}]
  /\ asked \in [1 .. 3 -> Seq(Socket) \cup {Null}]
  /\ ret = 0
  /\ fds = <<>> \/ FirstEntryOnly

\* A call of select.
LEMMA SelectStays ==
  ASSUME SelectInv, S!Select
  PROVE  SelectInv'
<1>1. sets \in [1 .. 3 -> Seq(Socket) \cup {Null}]
  BY DEF SelectInv
<1>2. \A k \in 1 .. 3 : Given(k) \in Seq(Socket)
  BY <1>1 DEF Given
<1>3. Given(1) \in Seq(Socket) /\ Given(2) \in Seq(Socket) /\ Given(3) \in Seq(Socket)
  BY <1>2
<1> DEFINE e1 == EntryAfter(S!Clear, Given(1), S!Oper[1])
           e2 == EntryAfter(e1, Given(2), S!Oper[2])
           e3 == EntryAfter(e2, Given(3), S!Oper[3])
           made == S!PfdsCreate
           events == <<{"POLLIN"}, {"POLLOUT"}, {"POLLERR", "POLLHUP"}>>
           answer == [k \in 1 .. 3 |-> IF sets[k] = Null THEN Null
                                       ELSE S!Happened(made.array, events[k])]
<1>4. PICK n \in Nat, m \in {0, 1} :
        OneEntry(made, n, e3, m) /\ \A k \in 1 .. 3 : Len(Given(k)) <= n
  BY <1>2, CreatesOne
<1>5. made.ok = TRUE /\ made.array = OnlyFirst(n, e3)
  BY <1>4 DEF OneEntry
<1>6. \A k \in 1 .. 3 : answer[k] \in {Null, <<>>}
  <2> SUFFICES ASSUME NEW k \in 1 .. 3 PROVE answer[k] \in {Null, <<>>}
    OBVIOUS
  <2>1. S!Happened(made.array, events[k]) = <<>>
    BY <1>4, NothingHappened
  <2> QED BY <2>1
<1>7. /\ asked' = sets /\ fds' = OnlyFirst(n, e3) /\ sets' = answer
      /\ ret' = S!Ready(answer[1]) + S!Ready(answer[2]) + S!Ready(answer[3])
  BY <1>5 DEF S!Select
<1>8. sets' \in [1 .. 3 -> Seq(Socket) \cup {Null}]
  <2>1. <<>> \in Seq(Socket)
    OBVIOUS
  <2>2. answer = [k \in 1 .. 3 |-> answer[k]]
    OBVIOUS
  <2> HIDE DEF answer
  <2> QED BY <1>6, <1>7, <2>1, <2>2, Zenon
<1>9. ret' = 0
  <2>1. \A x \in {Null, <<>>} : S!Ready(x) = 0
    BY DEF S!Ready
  <2> HIDE DEF answer
  <2>2. S!Ready(answer[1]) = 0 /\ S!Ready(answer[2]) = 0 /\ S!Ready(answer[3]) = 0
    BY <1>6, <2>1
  <2> QED BY <1>7, <2>2
<1> HIDE DEF made, answer, events
<1> DEFINE part(k) == IF Len(Given(k)) = 0 THEN {} ELSE {S!Oper[k]}
<1>11. e3.events = part(1) \cup part(2) \cup part(3)
  <2>1. S!Clear.events = {}
    BY DEF S!Clear
  <2>2. e1.events = S!Clear.events \cup part(1)
    BY EntryIs
  <2> HIDE DEF e1
  <2>3. e2.events = e1.events \cup part(2)
    BY EntryIs
  <2> HIDE DEF e2
  <2>4. e3.events = e2.events \cup part(3)
    BY EntryIs
  <2> HIDE DEF e3, part
  <2> QED BY <2>1, <2>2, <2>3, <2>4
<1>12. e3.fd = IF Len(Given(3)) # 0 THEN Given(3)[Len(Given(3))]
               ELSE IF Len(Given(2)) # 0 THEN Given(2)[Len(Given(2))]
               ELSE IF Len(Given(1)) # 0 THEN Given(1)[Len(Given(1))] ELSE S!Clear.fd
  <2>1. e1.fd = IF Len(Given(1)) = 0 THEN S!Clear.fd ELSE Given(1)[Len(Given(1))]
    BY EntryIs
  <2> HIDE DEF e1
  <2>2. e2.fd = IF Len(Given(2)) = 0 THEN e1.fd ELSE Given(2)[Len(Given(2))]
    BY EntryIs
  <2> HIDE DEF e2
  <2>3. e3.fd = IF Len(Given(3)) = 0 THEN e2.fd ELSE Given(3)[Len(Given(3))]
    BY EntryIs
  <2> HIDE DEF e3
  <2> QED BY <2>1, <2>2, <2>3
<1>16. \A k \in 1 .. 3 : S!AskedIn(k)' = Given(k)
  BY <1>7 DEF S!AskedIn, Given
<1>17. S!Asked' = Given(1) \o Given(2) \o Given(3)
  BY <1>16 DEF S!Asked
<1>10. (Len(Given(1)) = 0 /\ Len(Given(2)) = 0 /\ Len(Given(3)) = 0) <=> S!Asked' = <<>>
  BY <1>3, <1>17
<1>14. S!Asked' = <<>> => e3 = S!Clear
  BY <1>10 DEF EntryAfter
<1> HIDE DEF e3
<1>13. ASSUME NEW k \in 1 .. 3
       PROVE  e3.events \cap {S!Oper[k]} = IF S!AskedIn(k)' = <<>> THEN {} ELSE {S!Oper[k]}
  <2>2. Given(k) = <<>> <=> Len(Given(k)) = 0
    BY <1>2
  <2>3. S!Oper[1] = "POLLIN" /\ S!Oper[2] = "POLLOUT" /\ S!Oper[3] = "POLLERR"
    BY DEF S!Oper
  <2>4. S!Oper[1] # S!Oper[2] /\ S!Oper[1] # S!Oper[3] /\ S!Oper[2] # S!Oper[3]
    BY <2>3
  <2>5. k = 1 \/ k = 2 \/ k = 3
    OBVIOUS
  <2>6. e3.events \cap {S!Oper[k]} = part(k)
    BY <1>11, <2>4, <2>5
  <2> QED BY <1>16, <2>2, <2>6
<1>15. ASSUME S!Asked' # <<>> PROVE n # 0 /\ e3.fd = (S!Asked')[Len(S!Asked')]
  <2>2. Last(S!Asked') = IF Len(Given(3)) # 0 THEN Given(3)[Len(Given(3))]
                         ELSE IF Len(Given(2)) # 0 THEN Given(2)[Len(Given(2))]
                         ELSE Given(1)[Len(Given(1))]
    BY <1>3, <1>15, <1>17, LastOfThree
  <2>3. ~(Len(Given(1)) = 0 /\ Len(Given(2)) = 0 /\ Len(Given(3)) = 0)
    BY <1>10, <1>15
  <2>4. e3.fd = Last(S!Asked')
    BY <1>12, <2>2, <2>3
  <2>5. n # 0
    BY <1>3, <1>4, <2>3
  <2> QED BY <2>4, <2>5 DEF Last
<1>18. FirstEntryOnly'
  <2>1. \A k \in 1 .. 3 :
          e3.events \cap {S!Oper[k]} = IF S!AskedIn(k)' = <<>> THEN {} ELSE {S!Oper[k]}
    BY <1>13
  <2> QED BY <1>7, <1>14, <1>15, <2>1 DEF FirstEntryOnly
<1>19. asked' \in [1 .. 3 -> Seq(Socket) \cup {Null}]
  BY <1>1, <1>7
<1> QED BY <1>8, <1>9, <1>18, <1>19 DEF SelectInv

\* The property follows from it: the entries behind the first are clear.
LEMMA SelectSuffices ==
  ASSUME SelectInv, ServicesAssumption
  PROVE  S!EntriesAreAsked
<1>1. CASE fds = <<>>
  <2>1. DOMAIN fds = {}
    BY <1>1
  <2> QED BY <1>1, <2>1 DEF SelectInv, S!EntriesAreAsked
<1>2. CASE FirstEntryOnly
  <2>n. PICK n \in Nat : \E e :
        /\ fds = OnlyFirst(n, e)
        /\ S!Asked = <<>> => e = S!Clear
        /\ S!Asked # <<>> => n # 0 /\ e.fd = S!Asked[Len(S!Asked)]
        /\ \A k \in 1 .. 3 : e.events \cap {S!Oper[k]} = IF S!AskedIn(k) = <<>> THEN {} ELSE {S!Oper[k]}
    BY <1>2, Zenon DEF FirstEntryOnly
  <2>e. PICK e :
        /\ fds = OnlyFirst(n, e)
        /\ S!Asked = <<>> => e = S!Clear
        /\ S!Asked # <<>> => n # 0 /\ e.fd = S!Asked[Len(S!Asked)]
        /\ \A k \in 1 .. 3 : e.events \cap {S!Oper[k]} = IF S!AskedIn(k) = <<>> THEN {} ELSE {S!Oper[k]}
    BY <2>n
  <2>1. /\ DOMAIN fds = 1 .. n + 1 /\ Len(fds) = n + 1 /\ 1 \in DOMAIN fds /\ fds[1] = e
        /\ \A i \in DOMAIN fds : i # 1 => fds[i] = S!Clear
    BY <2>e DEF OnlyFirst
  <2>2. S!Asked \in Seq(Socket)
    <3>1. \A k \in 1 .. 3 : S!AskedIn(k) \in Seq(Socket)
      BY DEF SelectInv, S!AskedIn
    <3>2. S!AskedIn(1) \in Seq(Socket) /\ S!AskedIn(2) \in Seq(Socket) /\ S!AskedIn(3) \in Seq(Socket)
      BY <3>1
    <3> QED BY <3>2 DEF S!Asked
  <2>3. S!Asked # <<>> => e.fd \in S!Range(S!Asked) /\ e.fd \in Socket /\ e.fd # Null
    <3> SUFFICES ASSUME S!Asked # <<>> PROVE e.fd \in S!Range(S!Asked) /\ e.fd \in Socket /\ e.fd # Null
      OBVIOUS
    <3>1. Len(S!Asked) \in DOMAIN S!Asked /\ S!Asked[Len(S!Asked)] \in Socket
      BY <2>2, <2>e
    <3>2. Null \notin Socket
      BY DEF ServicesAssumption
    <3> QED BY <3>1, <3>2, <2>e DEF S!Range
  <2>4. S!Clear.fd = Null /\ S!Clear.events = {}
    BY DEF S!Clear
  <2>5. ASSUME NEW i \in DOMAIN fds, fds[i] # S!Clear
        PROVE  /\ fds[i].fd \in S!Range(S!Asked) /\ i < Len(fds)
               /\ \A j \in DOMAIN fds : fds[j].fd = fds[i].fd => j = i
    <3>1. i = 1 /\ S!Asked # <<>> /\ n # 0
      BY <2>1, <2>5, <2>e
    <3>2. \A j \in DOMAIN fds : j # 1 => fds[j].fd = Null
      BY <2>1, <2>4
    <3> QED BY <2>1, <2>3, <3>1, <3>2
  <2>6. ASSUME NEW k \in 1 .. 3
        PROVE  (\E i \in DOMAIN fds : S!Oper[k] \in fds[i].events) <=> S!AskedIn(k) # <<>>
    <3>1. (\E i \in DOMAIN fds : S!Oper[k] \in fds[i].events) <=> S!Oper[k] \in e.events
      BY <2>1, <2>4
    <3> QED BY <3>1, <2>e
  <2>7. ret # -1
    BY DEF SelectInv
  <2>8. \A i \in DOMAIN fds : fds[i] # S!Clear =>
          /\ fds[i].fd \in S!Range(S!Asked) /\ i < Len(fds)
          /\ \A j \in DOMAIN fds : fds[j].fd = fds[i].fd => j = i
    BY <2>5
  <2>9. \A k \in 1 .. 3 :
          (\E i \in DOMAIN fds : S!Oper[k] \in fds[i].events) <=> S!AskedIn(k) # <<>>
    BY <2>6
  <2> QED BY <2>7, <2>8, <2>9, Zenon DEF S!EntriesAreAsked
<1> QED BY <1>1, <1>2 DEF SelectInv

\* The caller's part.
LEMMA SetsStay ==
  ASSUME SelectInv, NEW k \in 1 .. 3,
         S!Give(k) \/ \E fd \in Socket : S!FdSet(k, fd)
  PROVE  SelectInv'
<1>1. sets \in [1 .. 3 -> Seq(Socket) \cup {Null}]
  BY DEF SelectInv
<1>2. UNCHANGED <<asked, fds, ret>> /\ sets' \in [1 .. 3 -> Seq(Socket) \cup {Null}]
  <2>1. CASE S!Give(k)
    <3>1. <<>> \in Seq(Socket)
      OBVIOUS
    <3> QED BY <1>1, <2>1, <3>1 DEF S!Give
  <2>2. ASSUME NEW fd \in Socket, S!FdSet(k, fd)
        PROVE  UNCHANGED <<asked, fds, ret>> /\ sets' \in [1 .. 3 -> Seq(Socket) \cup {Null}]
    <3>1. sets[k] \in Seq(Socket)
      BY <1>1, <2>2 DEF S!FdSet
    <3>2. Append(sets[k], fd) \in Seq(Socket)
      BY <3>1
    <3> QED BY <1>1, <2>2, <3>2 DEF S!FdSet
  <2> QED BY <2>1, <2>2
<1>3. FirstEntryOnly => FirstEntryOnly'
  <2>1. fds' = fds /\ asked' = asked
    BY <1>2
  <2>2. S!Asked' = S!Asked /\ \A i \in 1 .. 3 : S!AskedIn(i)' = S!AskedIn(i)
    BY <2>1 DEF S!Asked, S!AskedIn
  <2> QED BY <2>1, <2>2 DEF FirstEntryOnly
<1> QED BY <1>2, <1>3 DEF SelectInv

-----------------------------------------------------------------------------
\* Addresses.

\* What a name may be made of.
NameChars == T!Letter \cup {".", "-"}

\* The label that place i belongs to begins behind d.
LabelBehind(s, i, d) ==
  d \in 0 .. i /\ (d = 0 \/ s[d] = ".") /\ \A k \in d + 1 .. i : s[k] # "."

LastDot(s, i) == CHOOSE d \in 0 .. i : LabelBehind(s, i, d)

LEMMA LabelUnique ==
  ASSUME NEW s, NEW i \in Nat, NEW d \in Nat, NEW e \in Nat,
         LabelBehind(s, i, d), LabelBehind(s, i, e)
  PROVE  ~(d < e)
<1> SUFFICES ASSUME d < e PROVE FALSE
  OBVIOUS
<1>1. e \in d + 1 .. i /\ e # 0
  BY DEF LabelBehind
<1>2. s[e] = "." /\ s[e] # "."
  BY <1>1 DEF LabelBehind
<1> QED BY <1>2

LEMMA LastDotIs ==
  ASSUME NEW s, NEW i \in Nat
  PROVE  /\ LastDot(s, i) \in Nat /\ LabelBehind(s, i, LastDot(s, i))
         /\ \A d : LabelBehind(s, i, d) => LastDot(s, i) = d
<1> DEFINE D == {k \in Nat : \E d \in 0 .. k : LabelBehind(s, k, d)}
<1>1. 0 \in D
  <2>1. LabelBehind(s, 0, 0)
    BY DEF LabelBehind
  <2> QED BY <2>1
<1>2. ASSUME NEW k \in D PROVE k + 1 \in D
  <2>1. PICK d \in 0 .. k : LabelBehind(s, k, d)
    OBVIOUS
  <2> PICK l \in Nat : l = k + 1
    OBVIOUS
  <2>2. CASE s[l] = "."
    <3>1. LabelBehind(s, l, l)
      BY <2>2 DEF LabelBehind
    <3> QED BY <3>1
  <2>3. CASE s[l] # "."
    <3>1. \A j \in d + 1 .. l : j \in d + 1 .. k \/ j = l
      OBVIOUS
    <3>2. LabelBehind(s, l, d) /\ d \in 0 .. l
      BY <2>1, <2>3, <3>1 DEF LabelBehind
    <3> QED BY <3>2
  <2> QED BY <2>2, <2>3
<1> HIDE DEF D
<1>3. D \in SUBSET Nat
  BY DEF D
<1>4. i \in D
  BY <1>1, <1>2, <1>3, SetInduction
<1>5. \E d \in 0 .. i : LabelBehind(s, i, d)
  BY <1>4 DEF D
<1>6. LastDot(s, i) \in 0 .. i /\ LabelBehind(s, i, LastDot(s, i))
  BY <1>5, Zenon DEF LastDot
<1>7. LastDot(s, i) \in Nat
  BY <1>6
<1>8. ASSUME NEW d, LabelBehind(s, i, d) PROVE LastDot(s, i) = d
  <2>1. d \in Nat
    BY <1>8 DEF LabelBehind
  <2>2. ~(d < LastDot(s, i)) /\ ~(LastDot(s, i) < d)
    BY <1>6, <1>7, <1>8, <2>1, LabelUnique
  <2> QED BY <1>7, <2>1, <2>2
<1> QED BY <1>6, <1>7, <1>8

LEMMA LastDotSteps ==
  ASSUME NEW s, NEW i \in Nat
  PROVE  /\ LastDot(s, 0) = 0
         /\ LastDot(s, i + 1) = IF s[i + 1] = "." THEN i + 1 ELSE LastDot(s, i)
<1>1. LabelBehind(s, 0, 0)
  BY DEF LabelBehind
<1>2. LastDot(s, 0) = 0
  BY <1>1, LastDotIs
<1> PICK l \in Nat : l = i + 1
  OBVIOUS
<1>3. CASE s[l] = "."
  <2>1. LabelBehind(s, l, l)
    BY <1>3 DEF LabelBehind
  <2>2. LastDot(s, l) = l
    BY <2>1, LastDotIs
  <2> QED BY <1>2, <1>3, <2>2
<1>4. CASE s[l] # "."
  <2> PICK d : d = LastDot(s, i)
    OBVIOUS
  <2>1. LabelBehind(s, i, d) /\ d \in Nat
    BY LastDotIs
  <2>2. \A j \in d + 1 .. l : j \in d + 1 .. i \/ j = l
    BY <2>1
  <2>3. LabelBehind(s, l, d)
    BY <1>4, <2>1, <2>2 DEF LabelBehind
  <2>4. LastDot(s, l) = d
    BY <2>3, LastDotIs
  <2> QED BY <1>2, <1>4, <2>4
<1> QED BY <1>3, <1>4

\* f reads the first l characters of s as valid_hostname does.
ReadsName(f, s, l) ==
  f = [i \in 0 .. l |-> IF i = 0 THEN [ok |-> TRUE, label |-> 0, named |-> FALSE]
                        ELSE T!NameChar(s, f[i - 1], i)]

LEMMA NameReadsThere ==
  ASSUME NEW s, NEW l \in Nat
  PROVE  \E f : ReadsName(f, s, l)
<1> DEFINE st == [ok |-> TRUE, label |-> 0, named |-> FALSE]
           D == {k \in Nat : \E f : ReadsName(f, s, k)}
<1>1. 0 \in D
  <2> DEFINE f == [i \in 0 .. 0 |-> st]
  <2>1. f = [i \in 0 .. 0 |-> IF i = 0 THEN st ELSE T!NameChar(s, f[i - 1], i)]
    OBVIOUS
  <2> HIDE DEF f
  <2>2. ReadsName(f, s, 0)
    BY <2>1 DEF ReadsName
  <2> QED BY <2>2
<1>2. ASSUME NEW k \in D PROVE k + 1 \in D
  <2> PICK f : ReadsName(f, s, k)
    OBVIOUS
  <2>0. k \in Nat
    OBVIOUS
  <2> HIDE DEF st
  <2>1. f = [i \in 0 .. k |-> IF i = 0 THEN st ELSE T!NameChar(s, f[i - 1], i)]
    BY Zenon DEF ReadsName, st
  <2> PICK j \in Nat : j = k + 1
    BY <2>0
  <2> DEFINE g == [i \in 0 .. j |-> IF i <= k THEN f[i] ELSE T!NameChar(s, f[k], j)]
  <2>2. ASSUME NEW i \in 0 .. j
        PROVE  g[i] = IF i = 0 THEN st ELSE T!NameChar(s, g[i - 1], i)
    <3>1. CASE i = 0
      <4>1. i \in 0 .. k /\ i <= k
        BY <2>0, <3>1
      <4> QED BY <2>1, <3>1, <4>1
    <3>2. CASE i # 0 /\ i <= k
      <4>1. i \in 0 .. k /\ i - 1 \in 0 .. j /\ i - 1 <= k
        BY <2>0, <3>2
      <4>2. g[i - 1] = f[i - 1] /\ g[i] = f[i]
        BY <3>2, <4>1
      <4>3. f[i] = T!NameChar(s, f[i - 1], i)
        BY <2>1, <3>2, <4>1, Zenon
      <4> QED BY <3>2, <4>2, <4>3
    <3>3. CASE ~(i <= k)
      <4>1. i = j /\ i - 1 = k /\ k \in 0 .. j /\ i # 0
        BY <2>0, <3>3
      <4>2. g[k] = f[k] /\ g[i] = T!NameChar(s, f[k], j)
        BY <2>0, <3>3, <4>1
      <4> HIDE DEF g
      <4> QED BY <4>1, <4>2
    <3> QED BY <3>1, <3>2, <3>3
  <2>3. g = [i \in 0 .. j |-> g[i]]
    OBVIOUS
  <2> HIDE DEF g
  <2>4. ReadsName(g, s, j)
    BY <2>2, <2>3, Zenon DEF ReadsName, st
  <2> HIDE DEF D
  <2>5. j \in D
    BY <2>4 DEF D
  <2> QED BY <2>5
<1> HIDE DEF D
<1>3. D \in SUBSET Nat
  BY DEF D
<1>4. l \in D
  BY <1>1, <1>2, <1>3, SetInduction
<1> QED BY <1>4 DEF D

\* What the loop finds at the end of s.
LEMMA NameLoop ==
  ASSUME NEW s, Len(s) \in Nat
  PROVE  \E f : /\ T!ValidHostname(s) <=>
                     s # <<>> /\ f[Len(s)].ok /\ f[Len(s)].named /\ Len(s) <= NameLen
                /\ f[0] = [ok |-> TRUE, label |-> 0, named |-> FALSE]
                /\ \A i \in 1 .. Len(s) : f[i] = T!NameChar(s, f[i - 1], i)
<1> DEFINE st == [ok |-> TRUE, label |-> 0, named |-> FALSE]
           f == CHOOSE after : after =
                  [i \in 0 .. Len(s) |-> IF i = 0 THEN st ELSE T!NameChar(s, after[i - 1], i)]
<1>1. T!ValidHostname(s) <=>
        s # <<>> /\ f[Len(s)].ok /\ f[Len(s)].named /\ Len(s) <= NameLen
  BY DEF T!ValidHostname
<1>2. f = [i \in 0 .. Len(s) |-> IF i = 0 THEN st ELSE T!NameChar(s, f[i - 1], i)]
  <2>1. \E g : g = [i \in 0 .. Len(s) |-> IF i = 0 THEN st ELSE T!NameChar(s, g[i - 1], i)]
    <3> PICK g : ReadsName(g, s, Len(s))
      BY NameReadsThere, Zenon
    <3>1. g = [i \in 0 .. Len(s) |-> IF i = 0 THEN st ELSE T!NameChar(s, g[i - 1], i)]
      BY Zenon DEF ReadsName
    <3> QED BY <3>1
  <2> QED BY <2>1, Zenon
<1> HIDE DEF f
<1>3. 0 \in 0 .. Len(s) /\ \A i \in 1 .. Len(s) : i \in 0 .. Len(s) /\ i # 0
  OBVIOUS
<1>4. f[0] = st /\ \A i \in 1 .. Len(s) : f[i] = T!NameChar(s, f[i - 1], i)
  BY <1>2, <1>3, Zenon
<1> QED BY <1>1, <1>4


\* The kinds of characters are apart.
LEMMA KindsApart ==
  /\ "." \notin T!Letter /\ "-" \notin T!Letter /\ "" \notin NameChars
  /\ T!Digit \subseteq T!Letter
  /\ \A c \in NameChars : c \in T!Letter \/ c = "." \/ c = "-"
<1>1. "." \notin T!Digit /\ "-" \notin T!Digit /\ "" \notin T!Digit
  BY DEF T!Digit
<1>2. "." \notin T!Hex /\ "-" \notin T!Hex /\ "" \notin T!Hex
  BY <1>1, Zenon DEF T!Hex
<1>3. "." \notin T!Letter /\ "-" \notin T!Letter /\ "" \notin T!Letter
  BY <1>2, Zenon DEF T!Letter
<1>4. T!Digit \subseteq T!Letter
  BY Zenon DEF T!Letter, T!Hex
<1> QED BY <1>3, <1>4, Zenon DEF NameChars

NameStates == [ok : BOOLEAN, label : Int, named : BOOLEAN]

\* The state behind a letter, and any state.
LEMMA BehindLetter ==
  ASSUME NEW st \in NameStates, NEW c, NEW u,
         u = [ok |-> st.ok /\ st.label < LabelLen, label |-> st.label + 1,
              named |-> st.named \/ c \notin T!Digit]
  PROVE  /\ u \in NameStates
         /\ u.ok <=> st.ok /\ st.label < LabelLen
         /\ u.label = st.label + 1
         /\ u.named <=> st.named \/ c \notin T!Digit
<1>1. u.ok <=> st.ok /\ st.label < LabelLen
  BY Zenon
<1>2. u.named <=> st.named \/ c \notin T!Digit
  BY Zenon
<1>3. u.label = st.label + 1
  OBVIOUS
<1>4. /\ u.ok \in BOOLEAN /\ u.named \in BOOLEAN
      /\ u = [ok |-> u.ok, label |-> u.label, named |-> u.named]
  OBVIOUS
<1>5. u.label \in Int
  BY <1>3 DEF NameStates
<1>6. u \in NameStates
  BY <1>4, <1>5 DEF NameStates
<1> QED BY <1>1, <1>2, <1>3, <1>6, Zenon

LEMMA NameStateIs ==
  ASSUME NEW x \in BOOLEAN, NEW y \in Int, NEW z \in BOOLEAN,
         NEW u, u = [ok |-> x, label |-> y, named |-> z]
  PROVE  u \in NameStates /\ u.ok = x /\ u.label = y /\ u.named = z
<1>1. u \in NameStates
  BY DEF NameStates
<1>2. u.ok = x /\ u.label = y /\ u.named = z
  OBVIOUS
<1> QED BY <1>1, <1>2

\* What one character, with b behind it, does to the state of the loop.
CharStep(s, st, i, u, b) ==
  /\ u \in NameStates
  /\ u.ok => st.ok /\ s[i] \in NameChars
  /\ s[i] \in T!Letter =>
       /\ u.ok <=> st.ok /\ st.label < LabelLen
       /\ u.label = st.label + 1
       /\ u.named <=> st.named \/ s[i] \notin T!Digit
  /\ s[i] = "." =>
       /\ u.ok <=> st.ok /\ st.label # 0 /\ b # ""
       /\ u.label = 0 /\ (u.named <=> st.named)
  /\ s[i] = "-" =>
       /\ u.ok <=> st.ok /\ st.label # 0 /\ b \notin {"", "."}
       /\ u.label = st.label + 1 /\ (u.named <=> st.named)

LEMMA CharSteps ==
  ASSUME NEW M, NEW s \in Seq(M), NEW st \in NameStates, NEW i \in 1 .. Len(s),
         NEW u, u = T!NameChar(s, st, i)
  PROVE  CharStep(s, st, i, u, T!At(s, i + 1))
<1> PICK c, behind : c = s[i] /\ behind = T!At(s, i + 1)
  OBVIOUS
<1> SUFFICES CharStep(s, st, i, u, behind)
  OBVIOUS
<1>0. st.ok \in BOOLEAN /\ st.label \in Int /\ st.named \in BOOLEAN
      /\ st = [ok |-> st.ok, label |-> st.label, named |-> st.named]
  BY DEF NameStates
<1>1. CASE c \in T!Letter
  <2>1. u = [ok |-> st.ok /\ st.label < LabelLen, label |-> st.label + 1,
             named |-> st.named \/ c \notin T!Digit]
    BY <1>1, KindsApart, Zenon DEF T!NameChar
  <2>2. /\ u \in NameStates
        /\ u.ok <=> st.ok /\ st.label < LabelLen
        /\ u.label = st.label + 1
        /\ u.named <=> st.named \/ c \notin T!Digit
    BY <2>1, BehindLetter, Zenon
  <2>3. c \in NameChars /\ c # "." /\ c # "-"
    BY <1>1, KindsApart, Zenon DEF NameChars
  <2> QED BY <1>1, <2>2, <2>3, Zenon DEF CharStep
<1>2. CASE c = "."
  <2>1. c \notin T!Letter /\ c \in NameChars /\ c # "-"
    BY <1>2, KindsApart, Zenon DEF NameChars
  <2>2. u = [st EXCEPT !.ok = @ /\ st.label # 0 /\ behind # "", !.label = 0]
    BY <1>2, <2>1 DEF T!NameChar
  <2>3. u = [ok |-> st.ok /\ st.label # 0 /\ behind # "", label |-> 0, named |-> st.named]
    BY <1>0, <2>2, Zenon
  <2>4. PICK x \in BOOLEAN : /\ x <=> st.ok /\ st.label # 0 /\ behind # ""
                             /\ u = [ok |-> x, label |-> 0, named |-> st.named]
    <3>1. CASE st.ok /\ st.label # 0 /\ behind # ""
      <4>1. u = [ok |-> TRUE, label |-> 0, named |-> st.named]
        BY <2>3, <3>1, Zenon
      <4> QED BY <3>1, <4>1, Zenon
    <3>2. CASE ~(st.ok /\ st.label # 0 /\ behind # "")
      <4>1. u = [ok |-> FALSE, label |-> 0, named |-> st.named]
        BY <2>3, <3>2, Zenon
      <4> QED BY <3>2, <4>1, Zenon
    <3> QED BY <3>1, <3>2, Zenon
  <2>5. 0 \in Int
    BY <1>0
  <2>6. u \in NameStates /\ u.ok = x /\ u.label = 0 /\ u.named = st.named
    <3> PICK y \in Int, z \in BOOLEAN : y = 0 /\ z = st.named
      BY <1>0, <2>5, Zenon
    <3>1. u = [ok |-> x, label |-> y, named |-> z]
      BY <2>4, Zenon
    <3>2. u \in NameStates /\ u.ok = x /\ u.label = y /\ u.named = z
      BY <3>1, NameStateIs
    <3> QED BY <3>2
  <2>7. /\ u.ok <=> st.ok /\ st.label # 0 /\ behind # ""
        /\ u.named <=> st.named
    BY <2>4, <2>6, Zenon
  <2> QED BY <1>2, <2>1, <2>6, <2>7, Zenon DEF CharStep
<1>3. CASE c = "-"
  <2>1. c \notin T!Letter /\ c \in NameChars /\ c # "."
    BY <1>3, KindsApart, Zenon DEF NameChars
  <2>2. u = [st EXCEPT !.ok = @ /\ T!HyphenFits(st, behind), !.label = @ + 1]
    BY <1>3, <2>1 DEF T!NameChar
  <2>3. u = [ok |-> st.ok /\ T!HyphenFits(st, behind), label |-> st.label + 1,
             named |-> st.named]
    BY <1>0, <2>2, Zenon
  <2>4. PICK x \in BOOLEAN : /\ x <=> st.ok /\ T!HyphenFits(st, behind)
                             /\ u = [ok |-> x, label |-> st.label + 1, named |-> st.named]
    <3>1. CASE st.ok /\ T!HyphenFits(st, behind)
      <4>1. u = [ok |-> TRUE, label |-> st.label + 1, named |-> st.named]
        BY <2>3, <3>1, Zenon
      <4> QED BY <3>1, <4>1, Zenon
    <3>2. CASE ~(st.ok /\ T!HyphenFits(st, behind))
      <4>1. u = [ok |-> FALSE, label |-> st.label + 1, named |-> st.named]
        BY <2>3, <3>2, Zenon
      <4> QED BY <3>2, <4>1, Zenon
    <3> QED BY <3>1, <3>2, Zenon
  <2>5. st.label + 1 \in Int
    BY <1>0
  <2>6. u \in NameStates /\ u.ok = x /\ u.label = st.label + 1 /\ u.named = st.named
    <3> PICK y \in Int, z \in BOOLEAN : y = st.label + 1 /\ z = st.named
      BY <1>0, <2>5, Zenon
    <3>1. u = [ok |-> x, label |-> y, named |-> z]
      BY <2>4, Zenon
    <3>2. u \in NameStates /\ u.ok = x /\ u.label = y /\ u.named = z
      BY <3>1, NameStateIs
    <3> QED BY <3>2
  <2>7. /\ u.ok <=> st.ok /\ st.label # 0 /\ behind \notin {"", "."}
        /\ u.named <=> st.named
    BY <2>4, <2>6, Zenon DEF T!HyphenFits
  <2> QED BY <1>3, <2>1, <2>6, <2>7, Zenon DEF CharStep
<1>4. CASE c \notin T!Letter /\ c # "." /\ c # "-"
  <2>1. u = [st EXCEPT !.ok = FALSE]
    BY <1>4 DEF T!NameChar
  <2>2. u \in NameStates /\ u.ok = FALSE
    BY <1>0, <2>1, Zenon DEF NameStates
  <2> QED BY <1>4, <2>2, Zenon DEF CharStep
<1> QED BY <1>1, <1>2, <1>3, <1>4

LEMMA LabelLenIs == LabelLen \in Nat
  BY ServicesAssumption

\* The character at place j is where it may be in a name.
Good(s, j) ==
  /\ s[j] \in T!Letter => j - 1 - LastDot(s, j - 1) < LabelLen
  /\ s[j] = "." => j - 1 # LastDot(s, j - 1) /\ j # Len(s)
  /\ s[j] = "-" => j - 1 # LastDot(s, j - 1) /\ j # Len(s) /\ s[j + 1] # "."

\* The state of the loop behind i characters.
NameAt(f, s, i) ==
  /\ f[i] \in NameStates
  /\ f[i].ok => \A j \in 1 .. i : s[j] \in NameChars
  /\ (\A j \in 1 .. i : s[j] \in NameChars) =>
       /\ f[i].label = i - LastDot(s, i)
       /\ f[i].named <=> \E j \in 1 .. i : s[j] \in T!Letter \ T!Digit

\* Behind them, the loop is content with the first i characters.
Content(f, s, i) == f[i].ok <=> \A j \in 1 .. i : Good(s, j)

LEMMA NameMoves ==
  ASSUME NEW M, NEW s \in Seq(M), NEW f, NEW k \in Nat,
         NEW i \in 1 .. Len(s), i = k + 1, f[i] = T!NameChar(s, f[k], i), NameAt(f, s, k)
  PROVE  /\ NameAt(f, s, i)
         /\ (\A j \in 1 .. Len(s) : s[j] \in NameChars) /\ Content(f, s, k) => Content(f, s, i)
<1> PICK st, u : st = f[k] /\ u = f[i]
  OBVIOUS
<1>1. st \in NameStates
  BY DEF NameAt
<1>2. st.ok \in BOOLEAN /\ st.label \in Int /\ st.named \in BOOLEAN
  BY <1>1 DEF NameStates
<1> DEFINE b == T!At(s, i + 1)
<1>3. CharStep(s, st, i, u, b)
  <2>1. u = T!NameChar(s, st, i)
    OBVIOUS
  <2> QED BY <1>1, <2>1, CharSteps
<1>4. b = IF i = Len(s) THEN "" ELSE s[i + 1]
  <2>1. DOMAIN s = 1 .. Len(s) /\ (i + 1 \in 1 .. Len(s) <=> i # Len(s))
    OBVIOUS
  <2>2. b = IF i + 1 \in DOMAIN s THEN s[i + 1] ELSE ""
    BY DEF T!At
  <2> HIDE DEF b
  <2> QED BY <2>1, <2>2, Zenon
<1>5. ASSUME \A j \in 1 .. Len(s) : s[j] \in NameChars
      PROVE  (b = "" <=> i = Len(s)) /\ (i # Len(s) => b = s[i + 1])
  <2>1. i # Len(s) => i + 1 \in 1 .. Len(s)
    OBVIOUS
  <2> QED BY <1>4, <1>5, <2>1, KindsApart, Zenon
<1> HIDE DEF b
<1>6. \A j : j \in 1 .. i <=> j \in 1 .. k \/ j = i
  OBVIOUS
<1>7. u.ok => \A j \in 1 .. i : s[j] \in NameChars
  <2>1. st.ok => \A j \in 1 .. k : s[j] \in NameChars
    BY DEF NameAt
  <2> QED BY <1>3, <1>6, <2>1, Zenon DEF CharStep
<1> SUFFICES /\ (\A j \in 1 .. i : s[j] \in NameChars) =>
                  /\ u.label = i - LastDot(s, i)
                  /\ u.named <=> \E j \in 1 .. i : s[j] \in T!Letter \ T!Digit
             /\ (\A j \in 1 .. Len(s) : s[j] \in NameChars) /\ Content(f, s, k) => Content(f, s, i)
  BY <1>3, <1>7, Zenon DEF NameAt, CharStep
<1> SUFFICES ASSUME \A j \in 1 .. i : s[j] \in NameChars
             PROVE  /\ u.label = i - LastDot(s, i)
                    /\ u.named <=> \E j \in 1 .. i : s[j] \in T!Letter \ T!Digit
                    /\ (\A j \in 1 .. Len(s) : s[j] \in NameChars) /\ Content(f, s, k)
                         => Content(f, s, i)
  <2>1. (\A j \in 1 .. Len(s) : s[j] \in NameChars) => \A j \in 1 .. i : s[j] \in NameChars
    OBVIOUS
  <2> QED BY <2>1, Zenon
<1>8. s[i] \in NameChars /\ \A j \in 1 .. k : s[j] \in NameChars
  BY <1>6, Zenon
<1>9. s[i] \in T!Letter \/ s[i] = "." \/ s[i] = "-"
  BY <1>8, KindsApart, Zenon
<1>10. st.label = k - LastDot(s, k)
       /\ (st.named <=> \E j \in 1 .. k : s[j] \in T!Letter \ T!Digit)
  BY <1>8, Zenon DEF NameAt
<1>11. LastDot(s, k) \in Nat /\ LastDot(s, k) \in 0 .. k
  BY LastDotIs DEF LabelBehind
<1>12. LastDot(s, i) = IF s[i] = "." THEN i ELSE LastDot(s, k)
  BY LastDotSteps, Zenon
<1>13. u.label = i - LastDot(s, i)
  <2>1. CASE s[i] = "."
    <3>1. u.label = 0
      BY <1>3, <2>1, Zenon DEF CharStep
    <3> QED BY <1>12, <2>1, <3>1
  <2>2. CASE s[i] # "."
    <3>1. u.label = st.label + 1
      BY <1>3, <1>9, <2>2, Zenon DEF CharStep
    <3> QED BY <1>10, <1>11, <1>12, <2>2, <3>1
  <2> QED BY <2>1, <2>2
<1>14. u.named <=> \E j \in 1 .. i : s[j] \in T!Letter \ T!Digit
  <2>1. (\E j \in 1 .. i : s[j] \in T!Letter \ T!Digit)
          <=> (\E j \in 1 .. k : s[j] \in T!Letter \ T!Digit) \/ s[i] \in T!Letter \ T!Digit
    BY <1>6, Zenon
  <2>2. u.named <=> st.named \/ s[i] \in T!Letter \ T!Digit
    <3>1. CASE s[i] \in T!Letter
      BY <1>3, <3>1, Zenon DEF CharStep
    <3>2. CASE s[i] \notin T!Letter
      BY <1>3, <1>9, <3>2, Zenon DEF CharStep
    <3> QED BY <3>1, <3>2, Zenon
  <2> QED BY <1>10, <2>1, <2>2, Zenon
<1>15. ASSUME \A j \in 1 .. Len(s) : s[j] \in NameChars
       PROVE  Content(f, s, k) => Content(f, s, i)
  <2>1. u.ok <=> st.ok /\ Good(s, i)
    <3>1. i - 1 = k
      OBVIOUS
    <3>2. Good(s, i) <=>
                /\ s[i] \in T!Letter => k - LastDot(s, k) < LabelLen
                /\ s[i] = "." => k # LastDot(s, k) /\ i # Len(s)
                /\ s[i] = "-" => k # LastDot(s, k) /\ i # Len(s) /\ s[i + 1] # "."
      BY <3>1, Zenon DEF Good
    <3>3. st.label # 0 <=> k # LastDot(s, k)
      BY <1>10, <1>11
    <3>4. st.label < LabelLen <=> k - LastDot(s, k) < LabelLen
      BY <1>10
    <3>5. CASE s[i] \in T!Letter
      <4>1. s[i] # "." /\ s[i] # "-"
        BY <3>5, KindsApart, Zenon
      <4> QED BY <1>3, <3>2, <3>4, <3>5, <4>1, Zenon DEF CharStep
    <3>6. CASE s[i] = "."
      <4>1. s[i] \notin T!Letter /\ s[i] # "-"
        BY <3>6, KindsApart, Zenon
      <4> QED BY <1>3, <1>5, <1>15, <3>2, <3>3, <3>6, <4>1, Zenon DEF CharStep
    <3>7. CASE s[i] = "-"
      <4>1. s[i] \notin T!Letter /\ s[i] # "."
        BY <3>7, KindsApart, Zenon
      <4>2. b \notin {"", "."} <=> i # Len(s) /\ s[i + 1] # "."
        BY <1>5, <1>15, Zenon
      <4> QED BY <1>3, <3>2, <3>3, <3>7, <4>1, <4>2, Zenon DEF CharStep
    <3> QED BY <1>9, <3>5, <3>6, <3>7, Zenon
  <2>2. (\A j \in 1 .. i : Good(s, j)) <=> (\A j \in 1 .. k : Good(s, j)) /\ Good(s, i)
    BY <1>6, Zenon
  <2> QED BY <2>1, <2>2, Zenon DEF Content
<1> QED BY <1>13, <1>14, <1>15, Zenon

\* A text is a name when the loop is content to its end.
LEMMA LoopAccepts ==
  ASSUME NEW M, NEW s \in Seq(M)
  PROVE  T!ValidHostname(s) <=>
           /\ s # <<>> /\ Len(s) <= NameLen
           /\ \A j \in 1 .. Len(s) : s[j] \in NameChars
           /\ \E j \in 1 .. Len(s) : s[j] \in T!Letter \ T!Digit
           /\ \A j \in 1 .. Len(s) : Good(s, j)
<1> PICK n \in Nat : n = Len(s)
  OBVIOUS
<1> PICK f : /\ T!ValidHostname(s) <=> s # <<>> /\ f[n].ok /\ f[n].named /\ n <= NameLen
             /\ f[0] = [ok |-> TRUE, label |-> 0, named |-> FALSE]
             /\ \A i \in 1 .. n : f[i] = T!NameChar(s, f[i - 1], i)
  <2>1. Len(s) \in Nat
    OBVIOUS
  <2>2. PICK f : /\ T!ValidHostname(s) <=>
                      s # <<>> /\ f[Len(s)].ok /\ f[Len(s)].named /\ Len(s) <= NameLen
                 /\ f[0] = [ok |-> TRUE, label |-> 0, named |-> FALSE]
                 /\ \A i \in 1 .. Len(s) : f[i] = T!NameChar(s, f[i - 1], i)
    BY <2>1, NameLoop, Zenon
  <2>3. T!ValidHostname(s) <=> s # <<>> /\ f[n].ok /\ f[n].named /\ n <= NameLen
    BY <2>2
  <2>4. \A i \in 1 .. n : f[i] = T!NameChar(s, f[i - 1], i)
    BY <2>2
  <2> QED BY <2>2, <2>3, <2>4, Zenon
<1> DEFINE all == \A j \in 1 .. n : s[j] \in NameChars
           D == {i \in Nat : i <= n => NameAt(f, s, i) /\ (all => Content(f, s, i))}
<1>1. 0 \in D
  <2>1. 1 .. 0 = {} /\ LastDot(s, 0) = 0
    BY LastDotSteps
  <2>2. f[0] \in NameStates /\ f[0].ok = TRUE /\ f[0].label = 0 /\ f[0].named = FALSE
    BY DEF NameStates
  <2>3. NameAt(f, s, 0)
    BY <2>1, <2>2 DEF NameAt
  <2>4. Content(f, s, 0)
    BY <2>1, <2>2 DEF Content
  <2> QED BY <2>3, <2>4
<1>2. ASSUME NEW k \in D PROVE k + 1 \in D
  <2> PICK i : i = k + 1
    OBVIOUS
  <2>1. k \in Nat /\ i \in Nat
    OBVIOUS
  <2> SUFFICES ASSUME i <= n PROVE NameAt(f, s, i) /\ (all => Content(f, s, i))
    BY <2>1
  <2>2. k <= n /\ i \in 1 .. n /\ i - 1 = k
    BY <2>1
  <2>3. NameAt(f, s, k) /\ (all => Content(f, s, k))
    BY <2>2
  <2> HIDE DEF D, all
  <2>4. f[i] = T!NameChar(s, f[k], i)
    BY <2>2
  <2>5. NameAt(f, s, i) /\ (all /\ Content(f, s, k) => Content(f, s, i))
    <3>1. i \in 1 .. Len(s) /\ i = k + 1
      BY <2>2
    <3>2. all <=> \A j \in 1 .. Len(s) : s[j] \in NameChars
      BY DEF all
    <3> QED BY <2>1, <2>3, <2>4, <3>1, <3>2, NameMoves, Zenon
  <2> QED BY <2>3, <2>5
<1> HIDE DEF D, all
<1>3. D \in SUBSET Nat
  BY DEF D
<1>4. n \in D
  BY <1>1, <1>2, <1>3, SetInduction
<1>5. NameAt(f, s, n) /\ (all => Content(f, s, n))
  <2>1. n <= n
    OBVIOUS
  <2> QED BY <1>4, <2>1 DEF D
<1>6. /\ f[n].ok => all
      /\ all => (f[n].named <=> \E j \in 1 .. n : s[j] \in T!Letter \ T!Digit)
      /\ all => (f[n].ok <=> \A j \in 1 .. n : Good(s, j))
  BY <1>5, Zenon DEF NameAt, Content, all
<1> QED BY <1>6, Zenon DEF all

\* The label of s between d and e, both left out.
LabelFine(s, d, e) == e - 1 - d \in 1 .. LabelLen /\ s[d + 1] # "-" /\ s[e - 1] # "-"

\* A place where a label of s ends, and the label that ends there.
LabelEnds(s, e) == e = Len(s) + 1 \/ s[e] = "."
EndsFine(s, e) == LabelEnds(s, e) => LabelFine(s, LastDot(s, e - 1), e)

\* Where every character is good, every label is.
LEMMA GoodIsFine ==
  ASSUME NEW M, NEW s \in Seq(M), s # <<>>,
         \A j \in 1 .. Len(s) : s[j] \in NameChars /\ Good(s, j),
         NEW e \in 1 .. Len(s) + 1
  PROVE  EndsFine(s, e)
<1> SUFFICES ASSUME LabelEnds(s, e) PROVE LabelFine(s, LastDot(s, e - 1), e)
  BY DEF EndsFine
<1> PICK n \in Nat : n = Len(s) /\ n # 0
  OBVIOUS
<1> PICK p \in Nat : p = e - 1
  OBVIOUS
<1> PICK d : d = LastDot(s, p)
  OBVIOUS
<1>1. d \in 0 .. p /\ (d = 0 \/ s[d] = ".") /\ \A k \in d + 1 .. p : s[k] # "."
  BY LastDotIs DEF LabelBehind
<1>2. p # d
  <2>1. CASE e = n + 1
    <3> SUFFICES ASSUME p = d PROVE FALSE
      OBVIOUS
    <3>1. n \in 1 .. Len(s) /\ s[n] = "." /\ n = Len(s)
      BY <1>1, <2>1
    <3> QED BY <3>1 DEF Good
  <2>2. CASE e # n + 1
    <3>1. e \in 1 .. Len(s) /\ s[e] = "."
      BY <2>2 DEF LabelEnds
    <3> QED BY <3>1 DEF Good
  <2> QED BY <2>1, <2>2
<1>3. d + 1 \in 1 .. n /\ p \in d + 1 .. p /\ p \in 1 .. n
  BY <1>1, <1>2
<1>4. s[d + 1] # "-"
  <2> PICK l \in 1 .. n : l = d + 1
    BY <1>3
  <2>1. LabelBehind(s, d, d) /\ d \in Nat
    BY <1>1 DEF LabelBehind
  <2>2. LastDot(s, d) = d
    BY <2>1, LastDotIs
  <2>3. l - 1 = d
    BY <1>1
  <2>4. ~(l - 1 # LastDot(s, l - 1))
    BY <2>2, <2>3
  <2>5. Good(s, l)
    OBVIOUS
  <2> QED BY <2>4, <2>5 DEF Good
<1>5. s[p] # "-"
  <2>1. Good(s, p)
    BY <1>3
  <2>2. p = Len(s) \/ s[p + 1] = "."
    BY DEF LabelEnds
  <2> QED BY <2>1, <2>2 DEF Good
<1>6. p - d <= LabelLen
  <2> PICK m \in Nat : m = p - 1
    BY <1>3
  <2>1. s[p] \in T!Letter
    <3>1. s[p] \in NameChars /\ s[p] # "." /\ s[p] # "-"
      BY <1>1, <1>3, <1>5
    <3> QED BY <3>1, KindsApart, Zenon
  <2>2. m - LastDot(s, m) < LabelLen
    <3>1. Good(s, p)
      BY <1>3
    <3> QED BY <2>1, <3>1 DEF Good
  <2>3. LabelBehind(s, m, d)
    <3>1. d \in 0 .. m /\ \A k \in d + 1 .. m : k \in d + 1 .. p
      BY <1>1, <1>2
    <3> QED BY <1>1, <3>1 DEF LabelBehind
  <2>4. LastDot(s, m) = d
    BY <2>3, LastDotIs
  <2> QED BY <1>1, <2>2, <2>4, LabelLenIs
<1>7. p - d \in 1 .. LabelLen
  BY <1>1, <1>2, <1>6, LabelLenIs
<1> QED BY <1>4, <1>5, <1>7 DEF LabelFine

\* Where every label is good, every character is.
LEMMA FineIsGood ==
  ASSUME NEW M, NEW s \in Seq(M), \A e \in 1 .. Len(s) + 1 : EndsFine(s, e),
         NEW j \in 1 .. Len(s)
  PROVE  Good(s, j)
<1> PICK n \in Nat : n = Len(s)
  OBVIOUS
<1> DEFINE E == {k \in j .. n + 1 : LabelEnds(s, k)}
<1>1. n + 1 \in E
  BY DEF LabelEnds
<1>2. PICK e \in E : \A k \in E : e <= k
  <2>1. E \in SUBSET Nat /\ E # {}
    BY <1>1
  <2> HIDE DEF E
  <2> QED BY <2>1, LeastExists, Zenon
<1>3. e \in j .. n + 1 /\ LabelEnds(s, e) /\ \A k \in j .. n + 1 : k < e => ~LabelEnds(s, k)
  BY <1>2
<1> HIDE DEF E
<1> PICK p \in Nat : p = j - 1
  OBVIOUS
<1> PICK m \in Nat : m = e - 1
  BY <1>3
<1> PICK d : d = LastDot(s, p)
  OBVIOUS
<1>4. d \in 0 .. p /\ (d = 0 \/ s[d] = ".") /\ \A k \in d + 1 .. p : s[k] # "."
  BY LastDotIs DEF LabelBehind
<1>5. LastDot(s, m) = d
  <2>1. ASSUME NEW k \in d + 1 .. m PROVE s[k] # "."
    <3>1. CASE k <= p
      <4>1. k \in d + 1 .. p
        BY <1>4, <2>1, <3>1
      <4> QED BY <1>4, <4>1
    <3>2. CASE ~(k <= p)
      <4>1. k \in j .. n + 1 /\ k < e
        BY <1>3, <1>4, <2>1, <3>2
      <4> QED BY <1>3, <4>1 DEF LabelEnds
    <3> QED BY <3>1, <3>2
  <2>2. d \in 0 .. m
    BY <1>3, <1>4
  <2>3. LabelBehind(s, m, d)
    BY <1>4, <2>1, <2>2 DEF LabelBehind
  <2> QED BY <2>3, LastDotIs
<1>6. LabelFine(s, d, e)
  <2>1. e \in 1 .. Len(s) + 1 /\ e - 1 = m
    BY <1>3
  <2>2. EndsFine(s, e)
    BY <2>1
  <2> QED BY <1>3, <1>5, <2>1, <2>2 DEF EndsFine
<1>7. m - d \in 1 .. LabelLen /\ s[d + 1] # "-" /\ s[m] # "-"
  BY <1>6 DEF LabelFine
<1>8. ASSUME s[j] # "." PROVE j <= m
  <2>1. e # j
    BY <1>3, <1>8 DEF LabelEnds
  <2> QED BY <1>3, <2>1
<1>9. s[j] \in T!Letter => p - d < LabelLen
  <2> SUFFICES ASSUME s[j] \in T!Letter PROVE p - d < LabelLen
    OBVIOUS
  <2>1. j <= m
    BY <1>8, KindsApart, Zenon
  <2> QED BY <1>4, <1>7, <2>1, LabelLenIs
<1>10. s[j] = "." => p # d /\ j # n
  <2> SUFFICES ASSUME s[j] = "." PROVE p # d /\ j # n
    OBVIOUS
  <2>1. j \in 1 .. Len(s) + 1 /\ LabelEnds(s, j)
    BY DEF LabelEnds
  <2>2. LabelFine(s, d, j)
    BY <2>1 DEF EndsFine
  <2>3. p # d
    BY <1>4, <2>2 DEF LabelFine
  <2>4. j # n
    <3> SUFFICES ASSUME j = n PROVE FALSE
      OBVIOUS
    <3>1. n + 1 \in 1 .. Len(s) + 1 /\ LabelEnds(s, n + 1) /\ n + 1 - 1 = n
      BY DEF LabelEnds
    <3>2. LabelBehind(s, n, n)
      BY DEF LabelBehind
    <3>3. LastDot(s, n) = n
      BY <3>2, LastDotIs
    <3>4. LabelFine(s, n, n + 1)
      BY <3>1, <3>3 DEF EndsFine
    <3> QED BY <3>4 DEF LabelFine
  <2> QED BY <2>3, <2>4
<1>11. s[j] = "-" => p # d /\ j # n /\ s[j + 1] # "."
  <2> SUFFICES ASSUME s[j] = "-" PROVE p # d /\ j # n /\ s[j + 1] # "."
    OBVIOUS
  <2>1. j # m /\ p # d
    BY <1>4, <1>7
  <2>2. j <= m
    BY <1>8
  <2>3. j + 1 \in j .. n + 1 /\ j + 1 < e
    BY <1>3, <2>1, <2>2
  <2>4. ~LabelEnds(s, j + 1)
    BY <1>3, <2>3
  <2> QED BY <2>1, <2>4 DEF LabelEnds
<1> QED BY <1>9, <1>10, <1>11 DEF Good

-----------------------------------------------------------------------------
\* The parts of a text.

\* t is what s holds between d and e.
IsPart(t, s, d, e) ==
  Len(t) = e - 1 - d /\ \A k \in 1 .. e - 1 - d : t[k] = s[d + k]

\* The parts P of the first i characters of s: the last begins behind the last
\* dot, the others end at one each, and at each dot ends one.
PartsAt(M, P, s, i) ==
  /\ P \in Seq(Seq(M)) /\ Len(P) # 0
  /\ IsPart(P[Len(P)], s, LastDot(s, i), i + 1)
  /\ \A k \in 1 .. Len(P) - 1 :
       \E j \in 1 .. i : s[j] = "." /\ IsPart(P[k], s, LastDot(s, j - 1), j)
  /\ \A j \in 1 .. i : s[j] = "." =>
       \E k \in 1 .. Len(P) - 1 : IsPart(P[k], s, LastDot(s, j - 1), j)

LEMMA PartsBegin ==
  ASSUME NEW M, NEW s
  PROVE  PartsAt(M, << <<>> >>, s, 0)
<1> PICK P : P = << <<>> >>
  BY Zenon
<1>1. P \in Seq(Seq(M)) /\ Len(P) = 1 /\ P[1] = <<>>
  <2>1. <<>> \in Seq(M) /\ \A x \in Seq(M) : <<x>> \in Seq(Seq(M)) /\ Len(<<x>>) = 1 /\ <<x>>[1] = x
    OBVIOUS
  <2> QED BY <2>1
<1>2. LastDot(s, 0) = 0
  BY LastDotSteps
<1>3. IsPart(P[1], s, 0, 1)
  BY <1>1 DEF IsPart
<1>4. 1 .. 0 = {} /\ 0 + 1 = 1 /\ 1 - 1 = 0
  OBVIOUS
<1> QED BY <1>1, <1>2, <1>3, <1>4 DEF PartsAt

\* A list with one member more.
LEMMA OneMore ==
  ASSUME NEW M, NEW P \in Seq(M), NEW x \in M
  PROVE  /\ Append(P, x) \in Seq(M) /\ Len(Append(P, x)) = Len(P) + 1
         /\ Append(P, x)[Len(P) + 1] = x
         /\ \A l \in 1 .. Len(P) : Append(P, x)[l] = P[l]
OBVIOUS

\* Q is P with x in the place of its last member.
LastChanged(W, P, x, Q) ==
  /\ Q \in Seq(W) /\ Len(Q) = Len(P) /\ Q[Len(P)] = x
  /\ \A l \in 1 .. Len(P) - 1 : Q[l] = P[l]

LEMMA OneChanged ==
  ASSUME NEW W, NEW P \in Seq(W), NEW x \in W, Len(P) # 0
  PROVE  LastChanged(W, P, x, [P EXCEPT ![Len(P)] = x])
BY DEF LastChanged

LEMMA PartsMove ==
  ASSUME NEW M, NEW s \in Seq(M), NEW k \in Nat, NEW i \in 1 .. Len(s), i = k + 1,
         NEW P, PartsAt(M, P, s, k), NEW Q, Q = T!PartsWith(P, s[i], ".")
  PROVE  PartsAt(M, Q, s, i)
<1> PICK n \in Nat : n = Len(P)
  BY DEF PartsAt
<1>1. P \in Seq(Seq(M)) /\ n # 0 /\ n \in 1 .. n /\ P[n] \in Seq(M) /\ s[i] \in M
  BY DEF PartsAt
<1> PICK d : d = LastDot(s, k)
  OBVIOUS
<1>2. d \in Nat /\ d \in 0 .. k
  BY LastDotIs DEF LabelBehind
<1>3. IsPart(P[n], s, d, i)
  BY DEF PartsAt
<1>4. /\ \A l \in 1 .. n - 1 :
           \E j \in 1 .. k : s[j] = "." /\ IsPart(P[l], s, LastDot(s, j - 1), j)
      /\ \A j \in 1 .. k : s[j] = "." =>
           \E l \in 1 .. n - 1 : IsPart(P[l], s, LastDot(s, j - 1), j)
  BY Zenon DEF PartsAt
<1>5. LastDot(s, i) = IF s[i] = "." THEN i ELSE d
  BY LastDotSteps, Zenon
<1>6. (\A j : j \in 1 .. i <=> j \in 1 .. k \/ j = i) /\ i - 1 = k
  OBVIOUS
<1>7. CASE s[i] = "."
  <2>1. Q = Append(P, <<>>)
    BY <1>7 DEF T!PartsWith
  <2>2. Q \in Seq(Seq(M)) /\ Len(Q) = n + 1 /\ Q[n + 1] = <<>>
        /\ \A l \in 1 .. n : Q[l] = P[l]
    <3> PICK W, x : W = Seq(M) /\ x = <<>>
      OBVIOUS
    <3>1. x \in W /\ P \in Seq(W) /\ Q = Append(P, x)
      BY <1>1, <2>1
    <3>2. /\ Append(P, x) \in Seq(W) /\ Len(Append(P, x)) = Len(P) + 1
          /\ Append(P, x)[Len(P) + 1] = x
          /\ \A l \in 1 .. Len(P) : Append(P, x)[l] = P[l]
      BY <3>1, OneMore
    <3> QED BY <3>1, <3>2, Zenon
  <2>3. IsPart(Q[n + 1], s, i, i + 1)
    BY <2>2 DEF IsPart
  <2>4. ASSUME NEW l \in 1 .. n
        PROVE  \E j \in 1 .. i : s[j] = "." /\ IsPart(Q[l], s, LastDot(s, j - 1), j)
    <3>1. CASE l = n
      <4>1. i \in 1 .. i /\ IsPart(Q[l], s, LastDot(s, i - 1), i)
        BY <1>3, <1>6, <2>2, <3>1
      <4> QED BY <1>7, <4>1
    <3>2. CASE l # n
      <4>1. l \in 1 .. n - 1 /\ Q[l] = P[l]
        BY <2>2, <3>2
      <4> QED BY <1>4, <1>6, <4>1, Zenon
    <3> QED BY <3>1, <3>2
  <2>5. ASSUME NEW j \in 1 .. i, s[j] = "."
        PROVE  \E l \in 1 .. n : IsPart(Q[l], s, LastDot(s, j - 1), j)
    <3>1. CASE j = i
      <4>1. IsPart(Q[n], s, LastDot(s, j - 1), j)
        BY <1>1, <1>3, <1>6, <2>2, <3>1, Zenon
      <4> QED BY <1>1, <4>1
    <3>2. CASE j # i
      <4>1. PICK l \in 1 .. n - 1 : IsPart(P[l], s, LastDot(s, j - 1), j)
        BY <1>4, <1>6, <2>5, <3>2, Zenon
      <4>2. l \in 1 .. n /\ Q[l] = P[l]
        <5>1. l \in 1 .. n
          OBVIOUS
        <5> QED BY <2>2, <5>1, Zenon
      <4> QED BY <4>1, <4>2
    <3> QED BY <3>1, <3>2
  <2>6. Len(Q) # 0 /\ Len(Q) - 1 = n /\ Len(Q) = n + 1 /\ LastDot(s, i) = i /\ Q \in Seq(Seq(M))
    BY <1>5, <1>7, <2>2
  <2>7. IsPart(Q[Len(Q)], s, LastDot(s, i), i + 1)
    BY <2>3, <2>6, Zenon
  <2>8. \A l \in 1 .. Len(Q) - 1 :
          \E j \in 1 .. i : s[j] = "." /\ IsPart(Q[l], s, LastDot(s, j - 1), j)
    BY <2>4, <2>6, Zenon
  <2>9. \A j \in 1 .. i : s[j] = "." =>
          \E l \in 1 .. Len(Q) - 1 : IsPart(Q[l], s, LastDot(s, j - 1), j)
    BY <2>5, <2>6, Zenon
  <2> QED BY <2>6, <2>7, <2>8, <2>9, Zenon DEF PartsAt
<1>8. CASE s[i] # "."
  <2>1. Q = [P EXCEPT ![n] = Append(P[n], s[i])]
    BY <1>8 DEF T!PartsWith
  <2>2. Append(P[n], s[i]) \in Seq(M) /\ Len(Append(P[n], s[i])) = Len(P[n]) + 1
        /\ Append(P[n], s[i])[Len(P[n]) + 1] = s[i]
        /\ \A l \in 1 .. Len(P[n]) : Append(P[n], s[i])[l] = P[n][l]
    BY <1>1
  <2>3. Q \in Seq(Seq(M)) /\ Len(Q) = n /\ Q[n] = Append(P[n], s[i])
        /\ \A l \in 1 .. n - 1 : Q[l] = P[l]
    <3>1. \A W : \A p \in Seq(W) : \A x \in W :
            Len(p) # 0 => LastChanged(W, p, x, [p EXCEPT ![Len(p)] = x])
      BY OneChanged
    <3> PICK x \in Seq(M) : x = Append(P[n], s[i])
      BY <2>2, Zenon
    <3>2. LastChanged(Seq(M), P, x, [P EXCEPT ![n] = x])
      BY <1>1, <3>1, Zenon
    <3>3. Q = [P EXCEPT ![n] = x]
      BY <2>1, Zenon
    <3>4. LastChanged(Seq(M), P, x, Q)
      BY <3>2, <3>3, Zenon
    <3> QED BY <3>4, Zenon DEF LastChanged
  <2>4. IsPart(Q[n], s, d, i + 1)
    <3>1. Len(P[n]) = k - d /\ \A l \in 1 .. k - d : P[n][l] = s[d + l]
      BY <1>3, <1>6 DEF IsPart
    <3>2. Len(Q[n]) = i - d
      BY <1>2, <2>2, <2>3, <3>1
    <3>3. ASSUME NEW l \in 1 .. i - d PROVE Q[n][l] = s[d + l]
      <4>1. CASE l = i - d
        <5>1. l = Len(P[n]) + 1 /\ d + l = i
          BY <1>2, <3>1, <4>1
        <5> QED BY <2>2, <2>3, <5>1
      <4>2. CASE l # i - d
        <5>1. l \in 1 .. k - d
          BY <1>2, <4>2
        <5>2. l \in 1 .. Len(P[n])
          BY <3>1, <5>1
        <5> QED BY <2>2, <2>3, <3>1, <5>1, <5>2, Zenon
      <4> QED BY <4>1, <4>2
    <3>4. i + 1 - 1 - d = i - d
      BY <1>2
    <3> QED BY <3>2, <3>3, <3>4 DEF IsPart
  <2>5. ASSUME NEW l \in 1 .. n - 1
        PROVE  \E j \in 1 .. i : s[j] = "." /\ IsPart(Q[l], s, LastDot(s, j - 1), j)
    <3>1. Q[l] = P[l]
      BY <2>3, Zenon
    <3> QED BY <1>4, <1>6, <3>1, Zenon
  <2>6. ASSUME NEW j \in 1 .. i, s[j] = "."
        PROVE  \E l \in 1 .. n - 1 : IsPart(Q[l], s, LastDot(s, j - 1), j)
    <3>1. j \in 1 .. k
      BY <1>6, <1>8, <2>6
    <3>2. PICK l \in 1 .. n - 1 : IsPart(P[l], s, LastDot(s, j - 1), j)
      BY <1>4, <2>6, <3>1, Zenon
    <3>3. Q[l] = P[l]
      BY <2>3
    <3> QED BY <3>2, <3>3
  <2> QED BY <1>1, <1>5, <1>8, <2>3, <2>4, <2>5, <2>6, Zenon DEF PartsAt
<1> QED BY <1>7, <1>8

\* P splits the first l characters of s as Split does.
Splits(P, s, l) ==
  P = [i \in 0 .. l |-> IF i = 0 THEN << <<>> >> ELSE T!PartsWith(P[i - 1], s[i], ".")]

LEMMA SplitsThere ==
  ASSUME NEW s, NEW l \in Nat
  PROVE  \E f : Splits(f, s, l)
<1> DEFINE st == << <<>> >>
           D == {k \in Nat : \E f : Splits(f, s, k)}
<1>1. 0 \in D
  <2> DEFINE f == [i \in 0 .. 0 |-> st]
  <2>1. f = [i \in 0 .. 0 |-> IF i = 0 THEN st ELSE T!PartsWith(f[i - 1], s[i], ".")]
    OBVIOUS
  <2> HIDE DEF f
  <2>2. Splits(f, s, 0)
    BY <2>1 DEF Splits
  <2> QED BY <2>2
<1>2. ASSUME NEW k \in D PROVE k + 1 \in D
  <2> PICK f : Splits(f, s, k)
    OBVIOUS
  <2>0. k \in Nat
    OBVIOUS
  <2> HIDE DEF st
  <2>1. f = [i \in 0 .. k |-> IF i = 0 THEN st ELSE T!PartsWith(f[i - 1], s[i], ".")]
    BY DEF Splits, st
  <2> PICK j \in Nat : j = k + 1
    BY <2>0
  <2> DEFINE g == [i \in 0 .. j |-> IF i <= k THEN f[i] ELSE T!PartsWith(f[k], s[j], ".")]
  <2>2. ASSUME NEW i \in 0 .. j
        PROVE  g[i] = IF i = 0 THEN st ELSE T!PartsWith(g[i - 1], s[i], ".")
    <3>1. CASE i = 0
      <4>1. i \in 0 .. k /\ i <= k
        BY <2>0, <3>1
      <4> QED BY <2>1, <3>1, <4>1
    <3>2. CASE i # 0 /\ i <= k
      <4>1. i \in 0 .. k /\ i - 1 \in 0 .. j /\ i - 1 <= k
        BY <2>0, <3>2
      <4>2. g[i - 1] = f[i - 1] /\ g[i] = f[i]
        BY <3>2, <4>1
      <4>3. f[i] = T!PartsWith(f[i - 1], s[i], ".")
        BY <2>1, <3>2, <4>1
      <4> QED BY <3>2, <4>2, <4>3
    <3>3. CASE ~(i <= k)
      <4>1. i = j /\ i - 1 = k /\ k \in 0 .. j /\ i # 0
        BY <2>0, <3>3
      <4>2. g[k] = f[k] /\ g[i] = T!PartsWith(f[k], s[j], ".")
        BY <2>0, <3>3, <4>1
      <4> HIDE DEF g
      <4> QED BY <4>1, <4>2
    <3> QED BY <3>1, <3>2, <3>3
  <2>3. g = [i \in 0 .. j |-> g[i]]
    OBVIOUS
  <2> HIDE DEF g
  <2>4. Splits(g, s, j)
    BY <2>2, <2>3, Zenon DEF Splits, st
  <2> HIDE DEF D
  <2>5. j \in D
    BY <2>4 DEF D
  <2> QED BY <2>5
<1> HIDE DEF D
<1>3. D \in SUBSET Nat
  BY DEF D
<1>4. l \in D
  BY <1>1, <1>2, <1>3, SetInduction
<1> QED BY <1>4 DEF D

\* What Split makes of a text.
LEMMA SplitParts ==
  ASSUME NEW M, NEW s \in Seq(M)
  PROVE  PartsAt(M, T!Split(s, "."), s, Len(s))
<1> DEFINE st == << <<>> >>
           n == Len(s)
           f == CHOOSE parts : parts =
                  [i \in 0 .. n |-> IF i = 0 THEN st ELSE T!PartsWith(parts[i - 1], s[i], ".")]
<1>1. T!Split(s, ".") = f[n]
  BY DEF T!Split
<1>2. n \in Nat
  OBVIOUS
<1> HIDE DEF n
<1>3. f = [i \in 0 .. n |-> IF i = 0 THEN st ELSE T!PartsWith(f[i - 1], s[i], ".")]
  <2>1. \E g : g = [i \in 0 .. n |-> IF i = 0 THEN st ELSE T!PartsWith(g[i - 1], s[i], ".")]
    <3> PICK g : Splits(g, s, n)
      BY <1>2, SplitsThere, Zenon
    <3>1. g = [i \in 0 .. n |-> IF i = 0 THEN st ELSE T!PartsWith(g[i - 1], s[i], ".")]
      BY Zenon DEF Splits
    <3> QED BY <3>1, Zenon
  <2> QED BY <2>1, Zenon
<1> HIDE DEF f, st
<1>4. 0 \in 0 .. n /\ \A i \in 1 .. n : i \in 0 .. n /\ i # 0
  BY <1>2
<1>5. f[0] = st /\ \A i \in 1 .. n : f[i] = T!PartsWith(f[i - 1], s[i], ".")
  BY <1>3, <1>4, Zenon
<1> DEFINE D == {i \in Nat : i <= n => PartsAt(M, f[i], s, i)}
<1>6. 0 \in D
  BY <1>5, PartsBegin DEF st
<1>7. ASSUME NEW k \in D PROVE k + 1 \in D
  <2> PICK i : i = k + 1
    OBVIOUS
  <2>1. k \in Nat /\ i \in Nat
    OBVIOUS
  <2> SUFFICES ASSUME i <= n PROVE PartsAt(M, f[i], s, i)
    BY <2>1
  <2>2. k <= n /\ i \in 1 .. n /\ i - 1 = k
    BY <1>2, <2>1
  <2>3. PartsAt(M, f[k], s, k) /\ f[i] = T!PartsWith(f[k], s[i], ".")
    BY <1>5, <2>2
  <2>4. i \in 1 .. Len(s)
    BY <2>2 DEF n
  <2> QED BY <2>1, <2>3, <2>4, PartsMove, Zenon
<1> HIDE DEF D
<1>8. D \in SUBSET Nat
  BY DEF D
<1>9. n \in D
  BY <1>2, <1>6, <1>7, <1>8, SetInduction
<1>10. PartsAt(M, f[n], s, n)
  BY <1>2, <1>9 DEF D
<1> QED BY <1>1, <1>10 DEF n

\* A label is good when the part that holds it is.
PartFine(t) == Len(t) \in 1 .. LabelLen /\ t[1] # "-" /\ t[Len(t)] # "-"

LEMMA PartIsLabel ==
  ASSUME NEW t, NEW s, NEW d \in Nat, NEW e \in Nat, IsPart(t, s, d, e)
  PROVE  PartFine(t) <=> LabelFine(s, d, e)
<1> PICK z \in Int : z = e - 1 - d
  OBVIOUS
<1>1. Len(t) = z /\ \A k \in 1 .. z : t[k] = s[d + k]
  BY DEF IsPart
<1>2. CASE z \in 1 .. LabelLen
  <2>1. 1 \in 1 .. z /\ z \in 1 .. z /\ d + z = e - 1
    BY <1>2, LabelLenIs
  <2>2. t[1] = s[d + 1] /\ t[z] = s[e - 1]
    BY <1>1, <2>1
  <2> QED BY <1>1, <2>2 DEF PartFine, LabelFine
<1>3. CASE z \notin 1 .. LabelLen
  BY <1>1, <1>3 DEF PartFine, LabelFine
<1> QED BY <1>2, <1>3

LEMMA PartsAreLabels ==
  ASSUME NEW M, NEW s \in Seq(M)
  PROVE  (\A i \in DOMAIN T!Split(s, ".") : PartFine(T!Split(s, ".")[i]))
           <=> \A e \in 1 .. Len(s) + 1 : EndsFine(s, e)
<1> PICK P, n : P = T!Split(s, ".") /\ n = Len(s)
  OBVIOUS
<1> PICK z : z = Len(P)
  OBVIOUS
<1>1. PartsAt(M, P, s, n)
  BY SplitParts
<1>2. n \in Nat /\ z \in Nat /\ z # 0 /\ DOMAIN P = 1 .. z
  BY <1>1 DEF PartsAt
<1>3. IsPart(P[z], s, LastDot(s, n), n + 1)
  BY <1>1 DEF PartsAt
<1>4. PartFine(P[z]) <=> LabelFine(s, LastDot(s, n), n + 1)
  BY <1>2, <1>3, LastDotIs, PartIsLabel
<1>5. EndsFine(s, n + 1) <=> LabelFine(s, LastDot(s, n), n + 1)
  BY <1>2 DEF EndsFine, LabelEnds
<1>6. ASSUME NEW j \in 1 .. n, s[j] = ".", NEW t, IsPart(t, s, LastDot(s, j - 1), j)
      PROVE  PartFine(t) <=> EndsFine(s, j)
  <2>1. j - 1 \in Nat /\ j \in Nat
    BY <1>2
  <2>2. PartFine(t) <=> LabelFine(s, LastDot(s, j - 1), j)
    BY <1>6, <2>1, LastDotIs, PartIsLabel
  <2> QED BY <1>6, <2>2 DEF EndsFine, LabelEnds
<1>7. ASSUME \A i \in 1 .. z : PartFine(P[i]), NEW e \in 1 .. n + 1 PROVE EndsFine(s, e)
  <2>1. CASE e = n + 1
    <3>1. z \in 1 .. z
      BY <1>2
    <3> QED BY <1>4, <1>5, <1>7, <2>1, <3>1
  <2>2. CASE e # n + 1 /\ s[e] = "."
    <3>1. e \in 1 .. n
      BY <1>2, <2>2
    <3>2. PICK k \in 1 .. z - 1 : IsPart(P[k], s, LastDot(s, e - 1), e)
      BY <1>1, <2>2, <3>1 DEF PartsAt
    <3>3. k \in 1 .. z
      BY <1>2
    <3> QED BY <1>6, <1>7, <2>2, <3>1, <3>2, <3>3, Zenon
  <2>3. CASE e # n + 1 /\ s[e] # "."
    BY <2>3 DEF EndsFine, LabelEnds
  <2> QED BY <2>1, <2>2, <2>3
<1>8. ASSUME \A e \in 1 .. n + 1 : EndsFine(s, e), NEW i \in 1 .. z PROVE PartFine(P[i])
  <2>1. CASE i = z
    <3>1. n + 1 \in 1 .. n + 1
      BY <1>2
    <3> QED BY <1>4, <1>5, <1>8, <2>1, <3>1
  <2>2. CASE i # z
    <3>1. i \in 1 .. z - 1
      BY <1>2, <2>2
    <3>2. PICK j \in 1 .. n : s[j] = "." /\ IsPart(P[i], s, LastDot(s, j - 1), j)
      BY <1>1, <3>1 DEF PartsAt
    <3>3. j \in 1 .. n + 1
      BY <1>2
    <3> QED BY <1>6, <1>8, <3>2, <3>3, Zenon
  <2> QED BY <2>1, <2>2
<1> QED BY <1>2, <1>7, <1>8

-----------------------------------------------------------------------------
\* What valid_hostname answers about any text is what a host name is.
LEMMA NameIsKnown ==
  ASSUME NEW M, NEW s \in Seq(M)
  PROVE  T!ValidHostname(s) <=> T!IsName(s)
<1> PICK n \in Nat : n = Len(s)
  OBVIOUS
<1> DEFINE labels == \A i \in DOMAIN T!Split(s, ".") : PartFine(T!Split(s, ".")[i])
           all == \A j \in 1 .. n : s[j] \in NameChars
           named == \E j \in 1 .. n : s[j] \in T!Letter \ T!Digit
           ends == \A e \in 1 .. n + 1 : EndsFine(s, e)
           good == \A j \in 1 .. n : Good(s, j)
<1>1. T!Range(s) = {s[j] : j \in 1 .. n}
  BY DEF T!Range
<1>2. T!Range(s) \subseteq T!Letter \cup {".", "-"} <=> all
  BY <1>1 DEF NameChars
<1>3. T!Range(s) \cap (T!Letter \ T!Digit) # {} <=> named
  BY <1>1
<1>4. T!IsName(s) <=> n <= NameLen /\ all /\ named /\ labels
  BY <1>2, <1>3 DEF T!IsName, PartFine
<1>5. labels <=> ends
  BY PartsAreLabels
<1>6. T!ValidHostname(s) <=> s # <<>> /\ n <= NameLen /\ all /\ named /\ good
  BY LoopAccepts
<1>7. s # <<>> /\ all /\ good => ends
  BY GoodIsFine
<1>8. ends => good
  BY FineIsGood
<1>9. named => s # <<>>
  OBVIOUS
<1> HIDE DEF labels, all, named, ends, good
<1> QED BY <1>4, <1>5, <1>6, <1>7, <1>8, <1>9, Zenon

-----------------------------------------------------------------------------
\* The texts that are tested are sequences.
IsText(t) == \E M : t \in Seq(M)

LEMMA TextsJoin ==
  ASSUME NEW t, IsText(t), NEW u, IsText(u)
  PROVE  IsText(t \o u)
<1> PICK M : t \in Seq(M)
  BY DEF IsText
<1> PICK N : u \in Seq(N)
  BY DEF IsText
<1> PICK W : M \subseteq W /\ N \subseteq W
  <2>1. M \subseteq M \cup N /\ N \subseteq M \cup N
    OBVIOUS
  <2> QED BY <2>1, Zenon
<1>1. t \in Seq(W) /\ u \in Seq(W)
  OBVIOUS
<1>2. t \o u \in Seq(W)
  BY <1>1
<1> QED BY <1>2 DEF IsText

LEMMA ShortTexts ==
  ASSUME NEW x, NEW y
  PROVE  IsText(<<>>) /\ IsText(<<x>>) /\ IsText(<<x, y>>)
<1> PICK W : x \in W /\ y \in W
  <2>1. x \in {x, y} /\ y \in {x, y}
    OBVIOUS
  <2> QED BY <2>1, Zenon
<1>1. <<>> \in Seq(W) /\ <<x>> \in Seq(W) /\ <<x, y>> \in Seq(W)
  OBVIOUS
<1> QED BY <1>1 DEF IsText

\* What inet_ntop4 prints.
LEMMA PrintedIsText == ASSUME NEW bytes PROVE IsText(T!Ntop4(bytes))
<1>1. ASSUME NEW u PROVE IsText(T!Decimal(u))
  <2> PICK m, l : /\ m = IF u > 99 THEN <<T!DigitOf[u \div 100], T!DigitOf[(u % 100) \div 10]>>
                         ELSE IF u > 9 THEN <<T!DigitOf[u \div 10]>> ELSE <<>>
                  /\ l = <<T!DigitOf[u % 10]>>
    BY Zenon
  <2>1. IsText(m) /\ IsText(l)
    BY ShortTexts, Zenon
  <2>2. T!Decimal(u) = m \o l
    BY DEF T!Decimal
  <2> QED BY <2>1, <2>2, TextsJoin
<1>2. IsText(<<".">>)
  BY ShortTexts, Zenon
<1> PICK d1, d2, d3, d4 : /\ d1 = T!Decimal(bytes[1]) /\ d2 = T!Decimal(bytes[2])
                          /\ d3 = T!Decimal(bytes[3]) /\ d4 = T!Decimal(bytes[4])
  OBVIOUS
<1> PICK p : p = <<".">>
  BY Zenon
<1>3. IsText(d1) /\ IsText(d2) /\ IsText(d3) /\ IsText(d4) /\ IsText(p)
  BY <1>1, <1>2
<1>4. IsText(d1 \o p \o d2 \o p \o d3 \o p \o d4)
  BY <1>3, TextsJoin, Zenon
<1>5. T!Ntop4(bytes) = d1 \o p \o d2 \o p \o d3 \o p \o d4
  BY DEF T!Ntop4
<1> QED BY <1>4, <1>5

TextInv == alphabet \in Alphabets /\ IsText(text)

LEMMA TextStays ==
  ASSUME TextInv, T!Next
  PROVE  TextInv'
<1>1. ASSUME NEW piece \in alphabet.pieces, T!Write(piece) PROVE TextInv'
  <2>1. text' = text \o piece /\ alphabet' = alphabet
    BY <1>1 DEF T!Write
  <2>2. alphabet.pieces \subseteq Seq(STRING)
    BY ServicesAssumption DEF TextInv
  <2>3. IsText(text) /\ IsText(piece)
    BY <2>2 DEF TextInv, IsText
  <2>4. IsText(text')
    BY <2>1, <2>3, TextsJoin
  <2> QED BY <2>1, <2>4 DEF TextInv
<1>2. ASSUME NEW bytes, T!PrintQuad(bytes) PROVE TextInv'
  <2>1. text' = T!Ntop4(bytes) /\ alphabet' = alphabet
    BY <1>2 DEF T!PrintQuad
  <2> QED BY <2>1, PrintedIsText DEF TextInv
<1> QED BY <1>1, <1>2 DEF T!Next

=============================================================================
