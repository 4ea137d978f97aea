---------------------------- MODULE ListOpsProofs ----------------------------
(***************************************************************************)
(* What the operations of list.h do to a list, in terms of the sequence of *)
(* its entries, for lists of any length: the ring stays a ring, and rings  *)
(* through other nodes are left alone.                                     *)
(***************************************************************************)
EXTENDS ListOps, SequenceTheorems, WellFoundedInduction, TLAPS

\* The nodes a list goes through.
Nodes(h, s) == {h} \cup {s[i] : i \in 1 .. Len(s)}

\* The pointers of a set of nodes.
Links(N) == [next : [N -> N], prev : [N -> N]]

-----------------------------------------------------------------------------
(* Induction over the numbers of entries.                                  *)

\* A set of numbers that has 0 and every successor has all of them.
LEMMA SetInduction ==
  ASSUME NEW S, 0 \in S, \A n \in Nat : n \in S => n + 1 \in S
  PROVE  Nat \subseteq S
<1>. DEFINE R == OpToRel(<, Nat)
            T == Nat \ S
<1>1. SUFFICES ASSUME T # {} PROVE FALSE
  OBVIOUS
<1>2. IsWellFoundedOn(R, Nat)
  BY NatLessThanWellFounded
<1>3. \A x, y \in Nat : y < x => <<y, x>> \in R
  BY DEF OpToRel
<1>. HIDE DEF R
<1>4. PICK x \in T : \A y \in T : <<y, x>> \notin R
  BY <1>1, <1>2, WFMin
<1>5. x \in Nat /\ x # 0
  BY <1>4
<1>6. x - 1 \in Nat /\ x - 1 < x
  BY <1>5
<1>7. x - 1 \in S
  BY <1>3, <1>4, <1>5, <1>6
<1>. QED  BY <1>4, <1>5, <1>6, <1>7

-----------------------------------------------------------------------------
(* Rings.                                                                  *)

\* The positions of a ring, from the head to the head.
LEMMA AtIs ==
  ASSUME NEW N, NEW h \in N, NEW s \in Seq(N)
  PROVE  /\ Len(s) \in Nat
         /\ At(h, s, 0) = h /\ At(h, s, Len(s) + 1) = h
         /\ \A i \in 1 .. Len(s) : At(h, s, i) = s[i]
         /\ \A i \in 0 .. Len(s) + 1 : At(h, s, i) \in Nodes(h, s)
         /\ Nodes(h, s) \subseteq N
<1>1. Len(s) \in Nat
  OBVIOUS
<1>2. At(h, s, 0) = h /\ At(h, s, Len(s) + 1) = h
  BY <1>1 DEF At
<1>3. \A i \in 1 .. Len(s) : At(h, s, i) = s[i]
  BY DEF At
<1>4. \A i \in 0 .. Len(s) + 1 : At(h, s, i) \in Nodes(h, s)
  BY <1>1 DEF At, Nodes
<1>5. Nodes(h, s) \subseteq N
  BY DEF Nodes
<1>. QED  BY <1>1, <1>2, <1>3, <1>4, <1>5

\* No node is passed twice.
LEMMA AtDistinct ==
  ASSUME NEW N, NEW l, NEW h \in N, NEW s \in Seq(N), Ring(l, h, s)
  PROVE  \A i, j \in 0 .. Len(s) : At(h, s, i) = At(h, s, j) => i = j
BY DEF Ring, At

\* A ring is what its nodes point to.
LEMMA RingFrame ==
  ASSUME NEW N, NEW l, NEW m, NEW h \in N, NEW s \in Seq(N), Ring(l, h, s),
         \A n \in Nodes(h, s) : m.next[n] = l.next[n] /\ m.prev[n] = l.prev[n]
  PROVE  Ring(m, h, s)
<1>1. \A i \in 0 .. Len(s) :
        /\ m.next[At(h, s, i)] = l.next[At(h, s, i)]
        /\ m.prev[At(h, s, i + 1)] = l.prev[At(h, s, i + 1)]
  BY AtIs
<1>. QED  BY <1>1 DEF Ring

\* The head of a ring, and a ring without entries.
LEMMA RingEnds ==
  ASSUME NEW N, NEW l, NEW h \in N, NEW s \in Seq(N), Ring(l, h, s)
  PROVE  /\ l.next[h] = At(h, s, 1)
         /\ l.prev[h] = At(h, s, Len(s))
         /\ l.next[At(h, s, 1)] = At(h, s, 2)
         /\ (l.next[h] = h) <=> (s = <<>>)
         /\ s # <<>> => (l.next[h] = s[1] /\ l.prev[h] = s[Len(s)])
<1>1. Len(s) \in Nat /\ At(h, s, 0) = h /\ At(h, s, Len(s) + 1) = h
  BY AtIs
<1>2. l.next[h] = At(h, s, 1)
  BY <1>1 DEF Ring
<1>3. l.prev[h] = At(h, s, Len(s))
  BY <1>1 DEF Ring
<1>4. l.next[At(h, s, 1)] = At(h, s, 2)
  <2>1. CASE Len(s) = 0
    <3>1. At(h, s, 1) = h /\ At(h, s, 2) = h
      BY <2>1 DEF At
    <3>. QED  BY <1>2, <3>1
  <2>2. CASE Len(s) # 0
    BY <1>1, <2>2 DEF Ring
  <2>. QED  BY <2>1, <2>2
<1>5. s = <<>> => At(h, s, 1) = h
  BY DEF At
<1>6. s # <<>> => Len(s) >= 1 /\ At(h, s, 1) = s[1] /\ At(h, s, Len(s)) = s[Len(s)] /\ s[1] # h
  BY <1>1 DEF At, Ring
<1>. QED  BY <1>2, <1>3, <1>4, <1>5, <1>6

\* list_for_each_entry comes past the entries of the sequence and no others.
LEMMA MembersOfRing ==
  ASSUME NEW N, NEW l, NEW h \in N, NEW s \in Seq(N), NEW S \in SUBSET N, h \notin S,
         Ring(l, h, s), \A i \in 1 .. Len(s) : s[i] \in S
  PROVE  Members(l, h, S) = {s[i] : i \in 1 .. Len(s)}
<1>. DEFINE I == {s[i] : i \in 1 .. Len(s)}
<1>1. I \in SUBSET S
  OBVIOUS
<1>2. Closed(l, h, I)
  <2>. SUFFICES ASSUME NEW n \in I \cup {h} PROVE l.next[n] \in I \cup {h}
    BY DEF Closed
  <2>1. PICK i \in 0 .. Len(s) : n = At(h, s, i)
    <3>1. CASE n = h
      BY <3>1, AtIs
    <3>2. CASE n \in I
      BY <3>2, AtIs
    <3>. QED  BY <3>1, <3>2
  <2>2. l.next[n] = At(h, s, i + 1)
    BY <2>1 DEF Ring
  <2>3. At(h, s, i + 1) \in I \cup {h}
    BY DEF At
  <2>. QED  BY <2>2, <2>3
<1>3. ASSUME NEW X \in SUBSET S, Closed(l, h, X) PROVE I \subseteq X
  <2>. DEFINE T == {i \in Nat : i =< Len(s) => At(h, s, i) \in X \cup {h}}
  <2>1. 0 \in T
    BY AtIs
  <2>2. ASSUME NEW n \in Nat, n \in T PROVE n + 1 \in T
    <3>1. SUFFICES ASSUME n + 1 =< Len(s) PROVE At(h, s, n + 1) \in X \cup {h}
      OBVIOUS
    <3>2. n \in 0 .. Len(s) /\ At(h, s, n) \in X \cup {h}
      BY <2>2, <3>1
    <3>3. l.next[At(h, s, n)] = At(h, s, n + 1)
      BY <3>2 DEF Ring
    <3>. QED  BY <1>3, <3>2, <3>3 DEF Closed
  <2>. HIDE DEF T
  <2>3. Nat \subseteq T
    BY <2>1, <2>2, SetInduction
  <2>4. \A i \in 1 .. Len(s) : s[i] \in X
    <3>. TAKE i \in 1 .. Len(s)
    <3>1. i \in T /\ i =< Len(s) /\ At(h, s, i) = s[i] /\ s[i] # h
      BY <2>3, AtIs DEF Ring
    <3>. QED  BY <3>1 DEF T
  <2>. QED  BY <2>4
<1>4. \A n \in S : n \in I <=> \A X \in SUBSET S : Closed(l, h, X) => n \in X
  <2>. HIDE DEF I
  <2>. QED  BY <1>1, <1>2, <1>3
<1>. QED  BY <1>1, <1>4 DEF Members

-----------------------------------------------------------------------------
(* The operations.                                                         *)

\* list_init makes a ring without entries, and touches its head only.
LEMMA InitRing ==
  ASSUME NEW N, NEW l \in Links(N), NEW h \in N
  PROVE  /\ ListInit(l, h) \in Links(N)
         /\ Ring(ListInit(l, h), h, <<>>)
         /\ \A n \in N \ {h} : /\ ListInit(l, h).next[n] = l.next[n]
                               /\ ListInit(l, h).prev[n] = l.prev[n]
<1>1. /\ l.next \in [N -> N] /\ l.prev \in [N -> N]
  BY DEF Links
<1>2. ListInit(l, h).next[h] = h /\ ListInit(l, h).prev[h] = h
  BY <1>1 DEF ListInit
<1>3. Ring(ListInit(l, h), h, <<>>)
  <2>1. \A i \in 0 .. 1 : At(h, <<>>, i) = h
    BY DEF At
  <2>. QED  BY <1>2, <2>1 DEF Ring
<1>. QED  BY <1>1, <1>3 DEF ListInit, Links

\* list_add_before the head puts an entry at the end of the list.
LEMMA AddBeforeRing ==
  ASSUME NEW N, NEW l \in Links(N), NEW h \in N, NEW s \in Seq(N), Ring(l, h, s),
         NEW a \in N \ Nodes(h, s)
  PROVE  /\ ListAddBefore(l, h, a) \in Links(N)
         /\ Ring(ListAddBefore(l, h, a), h, Append(s, a))
         /\ \A n \in N \ (Nodes(h, s) \cup {a}) :
              /\ ListAddBefore(l, h, a).next[n] = l.next[n]
              /\ ListAddBefore(l, h, a).prev[n] = l.prev[n]
<1>. DEFINE m == ListAddBefore(l, h, a)
            t == Append(s, a)
            k == Len(s)
            z == l.prev[h]
<1>1. /\ l.next \in [N -> N] /\ l.prev \in [N -> N] /\ k \in Nat
      /\ h \in Nodes(h, s) /\ a # h
      /\ \A i \in 1 .. k : s[i] \in Nodes(h, s) /\ s[i] # a
  BY DEF Links, Nodes
<1>2. z = At(h, s, k) /\ z \in Nodes(h, s) /\ z \in N /\ z # a
  <2>1. z = At(h, s, k)
    BY RingEnds
  <2>2. k \in 0 .. Len(s) + 1
    BY <1>1
  <2>3. At(h, s, k) \in Nodes(h, s) /\ Nodes(h, s) \subseteq N
    BY <2>2, AtIs
  <2>. HIDE DEF z, k
  <2>. QED  BY <2>1, <2>3
<1>3. /\ m.next = [l.next EXCEPT ![a] = h, ![z] = a]
      /\ m.prev = [l.prev EXCEPT ![a] = z, ![h] = a]
  BY DEF ListAddBefore
<1>4. /\ m.next[a] = h /\ m.next[z] = a
      /\ m.prev[a] = z /\ m.prev[h] = a
      /\ \A n \in N \ {a, z} : m.next[n] = l.next[n]
      /\ \A n \in N \ {a, h} : m.prev[n] = l.prev[n]
  BY <1>1, <1>2, <1>3
<1>5. m \in Links(N)
  BY <1>1, <1>2 DEF ListAddBefore, Links
<1>6. /\ Len(t) = k + 1 /\ t[k + 1] = a /\ \A i \in 1 .. k : t[i] = s[i]
  OBVIOUS
<1>7. /\ \A i \in 0 .. k : At(h, t, i) = At(h, s, i)
      /\ At(h, t, k + 1) = a /\ At(h, t, k + 2) = h
  BY <1>1, <1>6 DEF At
<1>. HIDE DEF m, t
<1>8. Ring(m, h, t)
  <2>1. \A i \in 1 .. Len(t) : t[i] # h
    BY <1>1, <1>6 DEF Ring
  <2>2. \A i, j \in 1 .. Len(t) : t[i] = t[j] => i = j
    BY <1>1, <1>6 DEF Ring
  <2>3. ASSUME NEW i \in 0 .. Len(t)
        PROVE  /\ m.next[At(h, t, i)] = At(h, t, i + 1)
               /\ m.prev[At(h, t, i + 1)] = At(h, t, i)
    <3>1. CASE i < k
      <4>1. i \in 0 .. k /\ i + 1 \in 1 .. k
        BY <1>1, <3>1
      <4>2. At(h, t, i) = At(h, s, i) /\ At(h, t, i + 1) = At(h, s, i + 1)
        BY <1>1, <1>7, <4>1
      <4>3. l.next[At(h, s, i)] = At(h, s, i + 1) /\ l.prev[At(h, s, i + 1)] = At(h, s, i)
        BY <4>1 DEF Ring
      <4>4. At(h, s, i) # z
        <5>1. At(h, s, i) = At(h, s, k) => i = k
          BY <1>1, <4>1, AtDistinct
        <5>. QED  BY <1>1, <1>2, <3>1, <5>1
      <4>5. /\ At(h, s, i) \in N \ {a, z}
            /\ At(h, s, i + 1) \in N \ {a, h}
        <5>1. At(h, s, i) \in Nodes(h, s) /\ Nodes(h, s) \subseteq N
          BY <1>1, <4>1, AtIs
        <5>2. At(h, s, i + 1) = s[i + 1] /\ s[i + 1] # h
          BY <4>1, AtIs DEF Ring
        <5>. QED  BY <1>1, <4>1, <4>4, <5>1, <5>2
      <4>. QED  BY <1>4, <4>2, <4>3, <4>5
    <3>2. CASE i = k
      BY <1>1, <1>2, <1>4, <1>7, <3>2
    <3>3. CASE i = k + 1
      BY <1>1, <1>4, <1>7, <3>3
    <3>. QED  BY <1>1, <1>6, <3>1, <3>2, <3>3
  <2>. QED  BY <2>1, <2>2, <2>3 DEF Ring
<1>9. \A n \in N \ (Nodes(h, s) \cup {a}) : m.next[n] = l.next[n] /\ m.prev[n] = l.prev[n]
  BY <1>1, <1>2, <1>4
<1>. QED  BY <1>5, <1>8, <1>9 DEF m, t

\* list_add_after the head puts an entry at the front of the list.
LEMMA AddAfterRing ==
  ASSUME NEW N, NEW l \in Links(N), NEW h \in N, NEW s \in Seq(N), Ring(l, h, s),
         NEW a \in N \ Nodes(h, s)
  PROVE  /\ ListAddAfter(l, h, a) \in Links(N)
         /\ Ring(ListAddAfter(l, h, a), h, <<a>> \o s)
         /\ \A n \in N \ (Nodes(h, s) \cup {a}) :
              /\ ListAddAfter(l, h, a).next[n] = l.next[n]
              /\ ListAddAfter(l, h, a).prev[n] = l.prev[n]
<1>. DEFINE m == ListAddAfter(l, h, a)
            t == <<a>> \o s
            k == Len(s)
            z == l.next[h]
<1>1. /\ l.next \in [N -> N] /\ l.prev \in [N -> N] /\ k \in Nat
      /\ h \in Nodes(h, s) /\ a # h
      /\ \A i \in 1 .. k : s[i] \in Nodes(h, s) /\ s[i] # a
  BY DEF Links, Nodes
<1>2. z = At(h, s, 1) /\ z \in Nodes(h, s) /\ z \in N /\ z # a
  <2>1. z = At(h, s, 1)
    <3>. HIDE DEF k, m, t
    <3>1. Ring(l, h, s) => l.next[h] = At(h, s, 1)
      BY <1>1, AtIs DEF Ring
    <3>. QED  BY <3>1
  <2>2. 1 \in 0 .. Len(s) + 1
    BY <1>1
  <2>3. At(h, s, 1) \in Nodes(h, s) /\ Nodes(h, s) \subseteq N
    BY <2>2, AtIs
  <2>. HIDE DEF z, k
  <2>. QED  BY <2>1, <2>3
<1>3. /\ m.next = [l.next EXCEPT ![a] = z, ![h] = a]
      /\ m.prev = [l.prev EXCEPT ![a] = h, ![z] = a]
  BY DEF ListAddAfter
<1>4. /\ m.next[a] = z /\ m.next[h] = a
      /\ m.prev[a] = h /\ m.prev[z] = a
      /\ \A n \in N \ {a, h} : m.next[n] = l.next[n]
      /\ \A n \in N \ {a, z} : m.prev[n] = l.prev[n]
  BY <1>1, <1>2, <1>3
<1>5. m \in Links(N)
  BY <1>1, <1>2 DEF ListAddAfter, Links
<1>6. /\ t \in Seq(N) /\ Len(t) = k + 1 /\ t[1] = a
      /\ \A i \in 2 .. k + 1 : t[i] = s[i - 1]
  <2>1. /\ <<a>> \in Seq(N) /\ Len(<<a>>) = 1 /\ <<a>>[1] = a
    OBVIOUS
  <2>2. /\ t \in Seq(N) /\ Len(t) = 1 + k
        /\ \A i \in 1 .. 1 + k : t[i] = IF i <= 1 THEN <<a>>[i] ELSE s[i - 1]
    BY <2>1, ConcatProperties
  <2>. HIDE DEF t
  <2>. QED  BY <1>1, <2>1, <2>2
<1>. HIDE DEF m, t
<1>7. /\ \A i \in 1 .. k + 1 : At(h, t, i + 1) = At(h, s, i)
      /\ At(h, t, 0) = h /\ At(h, t, 1) = a
  BY <1>1, <1>6 DEF At
<1>8. Ring(m, h, t)
  <2>0. \A i \in 2 .. k + 1 : i - 1 \in 1 .. k /\ t[i] = s[i - 1]
    BY <1>1, <1>6
  <2>1. \A i \in 1 .. Len(t) : t[i] # h
    <3>. TAKE i \in 1 .. Len(t)
    <3>1. i = 1 \/ i \in 2 .. k + 1
      BY <1>1, <1>6
    <3>2. \A j \in 1 .. k : s[j] # h
      BY DEF Ring
    <3>. QED  BY <1>1, <1>6, <2>0, <3>1, <3>2
  <2>2. \A i, j \in 1 .. Len(t) : t[i] = t[j] => i = j
    <3>. SUFFICES ASSUME NEW i \in 1 .. Len(t), NEW j \in 1 .. Len(t), t[i] = t[j]
                  PROVE  i = j
      OBVIOUS
    <3>1. CASE i = 1 \/ j = 1
      <4>1. \A n \in 2 .. k + 1 : t[n] # a
        BY <1>1, <2>0
      <4>2. /\ i = 1 \/ i \in 2 .. k + 1
            /\ j = 1 \/ j \in 2 .. k + 1
        BY <1>1, <1>6
      <4>. QED  BY <1>6, <3>1, <4>1, <4>2
    <3>2. CASE i # 1 /\ j # 1
      <4>1. i - 1 \in 1 .. k /\ j - 1 \in 1 .. k /\ s[i - 1] = s[j - 1]
        BY <1>1, <1>6, <3>2
      <4>2. i - 1 = j - 1
        BY <4>1 DEF Ring
      <4>. QED  BY <4>2
    <3>. QED  BY <3>1, <3>2
  <2>3. ASSUME NEW i \in 0 .. Len(t)
        PROVE  /\ m.next[At(h, t, i)] = At(h, t, i + 1)
               /\ m.prev[At(h, t, i + 1)] = At(h, t, i)
    <3>1. CASE i = 0
      BY <1>4, <1>7, <3>1
    <3>2. CASE i = 1
      BY <1>1, <1>2, <1>4, <1>7, <3>2
    <3>3. CASE i > 1
      <4>1. i - 1 \in 1 .. k /\ i \in 1 .. k + 1 /\ (i - 1) + 1 = i
        BY <1>1, <1>6, <3>3
      <4>2. At(h, t, i) = At(h, s, i - 1) /\ At(h, t, i + 1) = At(h, s, i)
        BY <1>1, <1>7, <4>1
      <4>3. l.next[At(h, s, i - 1)] = At(h, s, i) /\ l.prev[At(h, s, i)] = At(h, s, i - 1)
        BY <4>1 DEF Ring
      <4>4. At(h, s, i) # z
        <5>1. CASE i = k + 1
          <6>1. At(h, s, i) = h /\ z = s[1] /\ s[1] # h
            BY <1>1, <1>2, <4>1, <5>1, AtIs DEF Ring
          <6>. QED  BY <6>1
        <5>2. CASE i # k + 1
          <6>1. i \in 0 .. k /\ 1 \in 0 .. k
            BY <1>1, <4>1, <5>2
          <6>. QED  BY <1>2, <3>3, <6>1, AtDistinct
        <5>. QED  BY <5>1, <5>2
      <4>5. At(h, s, i - 1) \in N \ {a, h} /\ At(h, s, i) \in N \ {a, z}
        <5>1. At(h, s, i) \in Nodes(h, s) /\ Nodes(h, s) \subseteq N
          BY <1>1, <4>1, AtIs
        <5>2. At(h, s, i - 1) = s[i - 1] /\ s[i - 1] # h
          BY <4>1, AtIs DEF Ring
        <5>. QED  BY <1>1, <4>1, <4>4, <5>1, <5>2
      <4>. QED  BY <1>4, <4>2, <4>3, <4>5
    <3>. QED  BY <1>1, <1>6, <3>1, <3>2, <3>3
  <2>. QED  BY <2>1, <2>2, <2>3 DEF Ring
<1>9. \A n \in N \ (Nodes(h, s) \cup {a}) : m.next[n] = l.next[n] /\ m.prev[n] = l.prev[n]
  BY <1>1, <1>2, <1>4
<1>. QED  BY <1>5, <1>8, <1>9 DEF m, t

\* list_remove takes the first entry out.
LEMMA RemoveRing ==
  ASSUME NEW N, NEW l \in Links(N), NEW h \in N, NEW s \in Seq(N), Ring(l, h, s), s # <<>>
  PROVE  /\ ListRemove(l, s[1]) \in Links(N)
         /\ Ring(ListRemove(l, s[1]), h, Tail(s))
         /\ \A n \in N \ Nodes(h, s) : /\ ListRemove(l, s[1]).next[n] = l.next[n]
                                       /\ ListRemove(l, s[1]).prev[n] = l.prev[n]
<1>. DEFINE a == s[1]
            m == ListRemove(l, a)
            t == Tail(s)
            k == Len(s)
            z == At(h, s, 2)
<1>1. /\ l.next \in [N -> N] /\ l.prev \in [N -> N] /\ k \in Nat /\ k >= 1
      /\ h \in Nodes(h, s) /\ a # h /\ a \in N /\ At(h, s, 1) = a
  BY AtIs DEF Links, Nodes, Ring
<1>2. l.next[a] = z /\ l.prev[a] = h /\ z \in Nodes(h, s) /\ z \in N
  <2>1. l.next[a] = z
    <3>1. l.next[At(h, s, 1)] = z
      BY RingEnds
    <3>. QED  BY <1>1, <3>1
  <2>2. l.prev[At(h, s, 0 + 1)] = At(h, s, 0) /\ At(h, s, 0) = h
    BY <1>1, AtIs DEF Ring
  <2>3. 2 \in 0 .. Len(s) + 1
    BY <1>1
  <2>. QED  BY <1>1, <2>1, <2>2, <2>3, AtIs
<1>3. m.next = [l.next EXCEPT ![h] = z] /\ m.prev = [l.prev EXCEPT ![z] = h]
  BY <1>2 DEF ListRemove
<1>4. /\ m.next[h] = z /\ m.prev[z] = h
      /\ \A n \in N \ {h} : m.next[n] = l.next[n]
      /\ \A n \in N \ {z} : m.prev[n] = l.prev[n]
  BY <1>1, <1>2, <1>3
<1>5. m \in Links(N)
  BY <1>1, <1>2 DEF ListRemove, Links
<1>6. t \in Seq(N) /\ Len(t) = k - 1 /\ \A i \in 1 .. k - 1 : t[i] = s[i + 1]
  BY <1>1
<1>. HIDE DEF m, t
<1>7. /\ \A i \in 1 .. k : At(h, t, i) = At(h, s, i + 1)
      /\ At(h, t, 0) = h
  BY <1>1, <1>6 DEF At
<1>8. Ring(m, h, t)
  <2>1. \A i \in 1 .. Len(t) : t[i] # h
    BY <1>1, <1>6 DEF Ring
  <2>2. \A i, j \in 1 .. Len(t) : t[i] = t[j] => i = j
    <3>. SUFFICES ASSUME NEW i \in 1 .. Len(t), NEW j \in 1 .. Len(t), t[i] = t[j]
                  PROVE  i = j
      OBVIOUS
    <3>1. i + 1 \in 1 .. k /\ j + 1 \in 1 .. k /\ s[i + 1] = s[j + 1]
      BY <1>1, <1>6
    <3>2. i + 1 = j + 1
      BY <3>1 DEF Ring
    <3>. QED  BY <3>2
  <2>3. ASSUME NEW i \in 0 .. Len(t)
        PROVE  /\ m.next[At(h, t, i)] = At(h, t, i + 1)
               /\ m.prev[At(h, t, i + 1)] = At(h, t, i)
    <3>1. CASE i = 0
      BY <1>1, <1>4, <1>7, <3>1
    <3>2. CASE i > 0
      <4>1. i \in 1 .. k - 1 /\ i + 1 \in 1 .. k
        BY <1>1, <1>6, <3>2
      <4>2. At(h, t, i) = At(h, s, i + 1) /\ At(h, t, i + 1) = At(h, s, (i + 1) + 1)
        BY <1>1, <1>7, <4>1
      <4>3. /\ l.next[At(h, s, i + 1)] = At(h, s, (i + 1) + 1)
            /\ l.prev[At(h, s, (i + 1) + 1)] = At(h, s, i + 1)
        BY <4>1 DEF Ring
      <4>4. At(h, s, (i + 1) + 1) # z
        <5>1. CASE i + 1 = k
          <6>1. At(h, s, (i + 1) + 1) = h
            BY <5>1, AtIs
          <6>2. z = s[2] /\ 2 \in 1 .. k
            BY <1>1, <4>1, <5>1 DEF At
          <6>. QED  BY <6>1, <6>2 DEF Ring
        <5>2. CASE i + 1 # k
          <6>1. (i + 1) + 1 \in 0 .. k /\ 2 \in 0 .. k
            BY <1>1, <4>1, <5>2
          <6>. QED  BY <3>2, <6>1, AtDistinct
        <5>. QED  BY <5>1, <5>2
      <4>5. At(h, s, i + 1) \in N \ {h} /\ At(h, s, (i + 1) + 1) \in N \ {z}
        <5>1. At(h, s, (i + 1) + 1) \in Nodes(h, s) /\ Nodes(h, s) \subseteq N
          BY <1>1, <4>1, AtIs
        <5>2. At(h, s, i + 1) = s[i + 1] /\ s[i + 1] # h
          BY <4>1, AtIs DEF Ring
        <5>. QED  BY <1>1, <4>1, <4>4, <5>1, <5>2
      <4>. QED  BY <1>4, <4>2, <4>3, <4>5
    <3>. QED  BY <1>1, <1>6, <3>1, <3>2
  <2>. QED  BY <2>1, <2>2, <2>3 DEF Ring
<1>9. \A n \in N \ Nodes(h, s) : m.next[n] = l.next[n] /\ m.prev[n] = l.prev[n]
  BY <1>1, <1>2, <1>4
<1>. QED  BY <1>5, <1>8, <1>9 DEF m, t
=============================================================================
