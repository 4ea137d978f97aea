---------------------------- MODULE SamplerProofs ----------------------------
(***************************************************************************)
(* Theorems about the rings and the sampler thread, for any number of      *)
(* cores, any size of the rings, any mixture of record lengths, and        *)
(* counters that wrap around anywhere.                                     *)
(*                                                                         *)
(* The invariant says what a ring holds between data_tail and data_head: a *)
(* record starts at data_tail, and behind every record there is its        *)
(* successor, or data_head.                                                *)
(***************************************************************************)
EXTENDS Sampler, SequenceTheorems, TLAPS

\* What a record looks like, wherever it is.
Record(id, n) == [i \in 1 .. n |-> [id |-> id, part |-> i - 1, size |-> n]]

\* The slot that is k units behind position p of the ring r.
At(r, p, k) == r[(p + k) % Size]

\* The ring r has u unread units from position p on; the last record is l.
Whole(c, r, p, u, k) ==
  LET s == At(r, p, k)
  IN  /\ s.size \in RecordSizes[c] /\ k + s.size =< u
      /\ \A j \in 0 .. s.size - 1 :
           At(r, p, k + j) = [id |-> s.id, part |-> j, size |-> s.size]

Followed(r, p, u, l, k) ==
  LET s == At(r, p, k)
      t == At(r, p, k + s.size)
  IN  IF k + s.size = u THEN s.id = l
      ELSE t.part = 0 /\ t.id = Successor(s.id)

\* So many records are unread that their numbers differ: each of them takes more
\* than Size \div RecordIds units.
Counted(r, p, u, l, k) ==
  (((l - At(r, p, k).id) % RecordIds) + 1) * Size < RecordIds * (u - k)

Records(c, r, p, u, l) ==
  \A k \in 0 .. u - 1 :
    At(r, p, k).part = 0 =>
      Whole(c, r, p, u, k) /\ Followed(r, p, u, l, k) /\ Counted(r, p, u, l, k)

Begin(c) == tail[c] % Size
First(c) == At(ring[c], Begin(c), 0)

\* The first record has been handed over and not yet been given back.
Handed(c) == pc = "advance" /\ cpu = c

RingInv(c) ==
  /\ Unread(c) < Size /\ tail[c] % HeaderSize = 0
  /\ Records(c, ring[c], Begin(c), Unread(c), last[c])
  /\ Unread(c) = 0 => last[c] = delivered[c] /\ ~Handed(c)
  /\ Unread(c) > 0 =>
       /\ First(c).part = 0
       /\ First(c).id = IF Handed(c) THEN delivered[c] ELSE Successor(delivered[c])

\* What the worker holds while a record is handled.
Holding ==
  /\ count < Batch
  /\ cpu \in mapped /\ Unread(cpu) > 0
  /\ ph = Begin(cpu)
  /\ IF temp = <<>> THEN ph + First(cpu).size =< Size
     ELSE temp = Record(First(cpu).id, First(cpu).size)

WorkerInv ==
  /\ Len(registered) < core
  /\ pc \in {"poll", "handle", "advance", "crashed"} => at =< Len(registered)
  /\ freed => pc = "exited"
  /\ pc \in {"handle", "advance"} => Holding
  /\ NeverSplit

RInv == TypeOK /\ WorkerInv /\ \A c \in Core : RingInv(c)

-----------------------------------------------------------------------------
(* Remainders.                                                             *)

\* A number between 0 and m - 1 is its own remainder, and multiples of m are not
\* seen in it.
LEMMA Remainder ==
  ASSUME NEW m \in Nat \ {0}, NEW q \in Int, NEW r \in 0 .. m - 1
  PROVE  (m * q + r) % m = r
OBVIOUS

\* Quotient and remainder of a number.
LEMMA Divided ==
  ASSUME NEW m \in Nat \ {0}, NEW a \in Int
  PROVE  \E q \in Int : \E r \in 0 .. m - 1 : a = m * q + r /\ a % m = r
<1>1. a % m \in 0 .. m - 1 /\ a \div m \in Int /\ a = m * (a \div m) + (a % m)
  OBVIOUS
<1>. QED  BY <1>1

\* Whole multiples do not change a remainder.
LEMMA Shift ==
  ASSUME NEW m \in Nat \ {0}, NEW a \in Int, NEW p \in Int
  PROVE  (a + m * p) % m = a % m
<1>1. PICK q \in Int, r \in 0 .. m - 1 : a = m * q + r /\ a % m = r
  BY Divided
<1>2. a + m * p = m * (q + p) + r
  BY <1>1
<1>. QED  BY <1>1, <1>2, Remainder

\* The remainder of a sum is that of the sum of a remainder.
LEMMA SumMod ==
  ASSUME NEW m \in Nat \ {0}, NEW a \in Int, NEW b \in Int
  PROVE  (a + b) % m = ((a % m) + b) % m
<1>1. PICK q \in Int, r \in 0 .. m - 1 : a = m * q + r /\ a % m = r
  BY Divided
<1>2. a + b = (r + b) + m * q /\ r + b \in Int
  BY <1>1
<1>3. ((r + b) + m * q) % m = (r + b) % m
  <2>. DEFINE s == r + b
  <2>1. s \in Int
    BY <1>2
  <2>. HIDE DEF s
  <2>2. (s + m * q) % m = s % m
    BY <2>1, Shift
  <2>. QED  BY <2>2 DEF s
<1>. QED  BY <1>1, <1>2, <1>3, Zenon

\* The remainder of a difference is that of the difference to a remainder.
LEMMA DifferenceMod ==
  ASSUME NEW m \in Nat \ {0}, NEW a \in Int, NEW b \in Int
  PROVE  (b - a) % m = (b - (a % m)) % m
<1>1. PICK q \in Int, r \in 0 .. m - 1 : a = m * q + r /\ a % m = r
  BY Divided
<1>2. b - a = (b - r) + m * (-q) /\ b - r \in Int /\ -q \in Int
  BY <1>1
<1>3. ((b - r) + m * (-q)) % m = (b - r) % m
  <2>. DEFINE s == b - r
              t == -q
  <2>1. s \in Int /\ t \in Int
    BY <1>2
  <2>. HIDE DEF s, t
  <2>2. (s + m * t) % m = s % m
    BY <2>1, Shift
  <2>. QED  BY <2>2 DEF s, t
<1>. QED  BY <1>1, <1>2, <1>3, Zenon

\* A counter modulo w gives the position modulo m when m divides w.
LEMMA NestedMod ==
  ASSUME NEW m \in Nat \ {0}, NEW w \in Nat \ {0}, w % m = 0, NEW a \in Int
  PROVE  (a % w) % m = a % m
<1>1. PICK s \in Int : w = m * s
  <2>1. PICK s \in Int, t \in 0 .. m - 1 : w = m * s + t /\ w % m = t
    BY Divided
  <2>. QED  BY <2>1
<1>2. PICK q \in Int, r \in 0 .. w - 1 : a = w * q + r /\ a % w = r
  BY Divided
<1>3. a = r + m * (s * q) /\ s * q \in Int
  BY <1>1, <1>2
<1>4. (r + m * (s * q)) % m = r % m
  <2>. DEFINE p == s * q
  <2>1. p \in Int /\ r \in Int
    BY <1>2
  <2>. HIDE DEF p
  <2>2. (r + m * p) % m = r % m
    BY <2>1, Shift
  <2>. QED  BY <2>2 DEF p
<1>. QED  BY <1>2, <1>3, <1>4, Zenon

\* A number that leaves 0 .. m - 1 by less than m comes back by adding or
\* subtracting m once.
LEMMA OnceMod ==
  ASSUME NEW m \in Nat \ {0}, NEW a \in -m .. 2 * m - 1
  PROVE  a % m = IF a < 0 THEN a + m ELSE IF a < m THEN a ELSE a - m
<1>1. CASE a < 0
  <2>1. a = m * (-1) + (a + m) /\ a + m \in 0 .. m - 1
    BY <1>1
  <2>. QED  BY <1>1, <2>1, Remainder
<1>2. CASE a \in 0 .. m - 1
  BY <1>2
<1>3. CASE a >= m
  <2>1. a = m * 1 + (a - m) /\ a - m \in 0 .. m - 1
    BY <1>3
  <2>. QED  BY <1>3, <2>1, Remainder
<1>. QED  BY <1>1, <1>2, <1>3

\* What a remainder may be.
LEMMA ModRange ==
  ASSUME NEW m \in Nat \ {0}, NEW a \in Int
  PROVE  a % m \in 0 .. m - 1
OBVIOUS

\* A positive multiple of m is not below m.
LEMMA MultipleMod ==
  ASSUME NEW m \in Nat \ {0}, NEW a \in Nat \ {0}, a % m = 0
  PROVE  a >= m
OBVIOUS

-----------------------------------------------------------------------------
(* Positions.                                                              *)

\* The assumptions on the sizes, as the arithmetic needs them.
LEMMA Sizes ==
  /\ Size \in Nat \ {0} /\ Wrap \in Nat \ {0} /\ Wrap > Size /\ Wrap % Size = 0
  /\ HeaderSize \in Nat \ {0} /\ RecordIds \in Nat \ {0} /\ MaxEvent \in Nat
  /\ \A c \in Core : \A n \in RecordSizes[c] :
       /\ n \in Nat \ {0} /\ n % HeaderSize = 0 /\ n =< MaxEvent
       /\ RecordIds * n > Size
BY SizeAssumption, CountAssumption

\* Where the unit k behind position p is, and how far q is behind p.
LEMMA Index ==
  ASSUME NEW p \in Pos, NEW k \in 0 .. Size - 1
  PROVE  /\ (p + k) % Size = IF p + k < Size THEN p + k ELSE p + k - Size
         /\ (p + k) % Size \in Pos
<1>. DEFINE a == p + k
<1>1. Size \in Nat \ {0} /\ a \in -Size .. 2 * Size - 1 /\ ~ (a < 0)
  BY Sizes DEF Pos
<1>. HIDE DEF a
<1>2. a % Size = IF a < 0 THEN a + Size ELSE IF a < Size THEN a ELSE a - Size
  BY <1>1, OnceMod
<1>3. a % Size \in Pos
  BY <1>1, ModRange DEF Pos
<1>. DEFINE r == a % Size
<1>4. r = IF p + k < Size THEN p + k ELSE p + k - Size
  <2>. HIDE DEF r
  <2>1. r = IF a < 0 THEN a + Size ELSE IF a < Size THEN a ELSE a - Size
    BY <1>2 DEF r
  <2>. QED  BY <1>1, <2>1 DEF a, Pos
<1>. QED  BY <1>3, <1>4 DEF a

\* A distance in the ring, without a remainder.
LEMMA Offset ==
  ASSUME NEW p \in Pos, NEW q \in Pos
  PROVE  (q - p) % Size = IF q < p THEN q - p + Size ELSE q - p
<1>1. Size \in Nat \ {0} /\ q - p \in -Size .. 2 * Size - 1 /\ q - p < Size
  BY Sizes DEF Pos
<1>. DEFINE d == q - p
<1>2. d % Size = IF d < 0 THEN d + Size ELSE IF d < Size THEN d ELSE d - Size
  BY <1>1, OnceMod
<1>. QED  BY <1>1, <1>2 DEF Pos

\* Distances from p: the unit k behind p is k away from p.
LEMMA OffsetIndex ==
  ASSUME NEW p \in Pos, NEW k \in 0 .. Size - 1, NEW j \in 0 .. Size - 1
  PROVE  (((p + k) % Size) - ((p + j) % Size)) % Size = IF k < j THEN k - j + Size ELSE k - j
<1>. DEFINE a == (p + k) % Size
            b == (p + j) % Size
<1>1. /\ a = IF p + k < Size THEN p + k ELSE p + k - Size
      /\ b = IF p + j < Size THEN p + j ELSE p + j - Size
      /\ a \in Pos /\ b \in Pos
  BY Index
<1>. HIDE DEF a, b
<1>2. (a - b) % Size = IF a < b THEN a - b + Size ELSE a - b
  BY <1>1, Offset
<1>3. Size \in Nat /\ p \in Int /\ a \in Int /\ b \in Int /\ p < Size /\ p >= 0
  BY <1>1, Sizes DEF Pos
<1>4. (a - b) % Size = IF k < j THEN k - j + Size ELSE k - j
  <2>1. CASE p + k < Size /\ p + j < Size
    BY <1>1, <1>2, <1>3, <2>1
  <2>2. CASE p + k < Size /\ ~ (p + j < Size)
    BY <1>1, <1>2, <1>3, <2>2
  <2>3. CASE ~ (p + k < Size) /\ p + j < Size
    BY <1>1, <1>2, <1>3, <2>3
  <2>4. CASE ~ (p + k < Size) /\ ~ (p + j < Size)
    BY <1>1, <1>2, <1>3, <2>4
  <2>. QED  BY <2>1, <2>2, <2>3, <2>4
<1>5. (((p + k) % Size) - ((p + j) % Size)) % Size = (a - b) % Size
  BY DEF a, b
<1>. QED  BY <1>4, <1>5, Zenon

\* The slot of a ring n units on, seen from p and from n units behind p.
LEMMA IndexFrom ==
  ASSUME NEW p \in Pos, NEW n \in Nat, NEW k \in Nat, n + k < Size
  PROVE  (((p + n) % Size) + k) % Size = (p + (n + k)) % Size
<1>1. p \in Int /\ Size \in Nat \ {0} /\ p + n \in Int /\ k \in Int
  BY Sizes DEF Pos
<1>2. ((p + n) + k) % Size = (((p + n) % Size) + k) % Size
  BY <1>1, SumMod
<1>3. (p + n) + k = p + (n + k)
  BY <1>1
<1>. QED  BY <1>2, <1>3

-----------------------------------------------------------------------------
(* Numbers of records.                                                     *)

Ids == 0 .. RecordIds - 1

\* The number of the next record, without a remainder.
LEMMA SuccessorIs ==
  ASSUME NEW l \in Ids
  PROVE  /\ Successor(l) \in Ids
         /\ Successor(l) = IF l + 1 = RecordIds THEN 0 ELSE l + 1
<1>. DEFINE a == l + 1
<1>1. RecordIds \in Nat \ {0} /\ a \in -RecordIds .. 2 * RecordIds - 1 /\ ~ (a < 0)
  BY Sizes DEF Ids
<1>2. a =< RecordIds
  BY <1>1 DEF Ids
<1>. HIDE DEF a
<1>3. a % RecordIds = IF a < 0 THEN a + RecordIds
                      ELSE IF a < RecordIds THEN a ELSE a - RecordIds
  BY <1>1, OnceMod
<1>4. a % RecordIds = IF a = RecordIds THEN 0 ELSE a
  BY <1>1, <1>2, <1>3
<1>5. Successor(l) = a % RecordIds
  BY DEF Successor, a
<1>. QED  BY <1>1, <1>2, <1>4, <1>5 DEF Ids, a

\* How many records l is behind i.
Ahead(l, i) == (l - i) % RecordIds

\* A difference of record numbers, without a remainder.
LEMMA AheadIs ==
  ASSUME NEW l \in Ids, NEW i \in Ids
  PROVE  Ahead(l, i) = IF l < i THEN l - i + RecordIds ELSE l - i
<1>1. RecordIds \in Nat \ {0} /\ l - i \in -RecordIds .. 2 * RecordIds - 1 /\ l - i < RecordIds
  BY Sizes DEF Ids
<1>. DEFINE d == l - i
<1>2. d % RecordIds = IF d < 0 THEN d + RecordIds ELSE IF d < RecordIds THEN d ELSE d - RecordIds
  BY <1>1, OnceMod
<1>. QED  BY <1>1, <1>2 DEF Ids, Ahead

\* One more record.
LEMMA AheadSuccessor ==
  ASSUME NEW l \in Ids, NEW i \in Ids, Ahead(l, i) + 1 < RecordIds
  PROVE  Ahead(Successor(l), i) = Ahead(l, i) + 1
<1>. DEFINE m == Successor(l)
<1>1. m \in Ids /\ m = IF l + 1 = RecordIds THEN 0 ELSE l + 1
  BY SuccessorIs
<1>. HIDE DEF m
<1>2. /\ Ahead(m, i) = IF m < i THEN m - i + RecordIds ELSE m - i
      /\ Ahead(l, i) = IF l < i THEN l - i + RecordIds ELSE l - i
  BY <1>1, AheadIs
<1>3. Ahead(m, i) = Ahead(l, i) + 1
  BY <1>1, <1>2, Sizes DEF Ids
<1>. QED  BY <1>3 DEF m

\* The successor of a record is farthest behind it.
LEMMA AheadOfSuccessor ==
  ASSUME NEW l \in Ids
  PROVE  Ahead(l, l) = 0 /\ Ahead(l, Successor(l)) = RecordIds - 1
<1>. DEFINE m == Successor(l)
<1>1. m \in Ids /\ m = IF l + 1 = RecordIds THEN 0 ELSE l + 1
  BY SuccessorIs
<1>. HIDE DEF m
<1>2. /\ Ahead(l, m) = IF l < m THEN l - m + RecordIds ELSE l - m
      /\ Ahead(l, l) = IF l < l THEN l - l + RecordIds ELSE l - l
  BY <1>1, AheadIs
<1>3. Ahead(l, l) = 0 /\ Ahead(l, m) = RecordIds - 1
  BY <1>1, <1>2, Sizes DEF Ids
<1>. QED  BY <1>3 DEF m

\* A ring has no room for as many records as there are numbers.
LEMMA CountedFew ==
  ASSUME NEW d \in Nat, NEW v \in Nat, v < Size, (d + 1) * Size < RecordIds * v
  PROVE  d + 1 < RecordIds
<1>1. Size \in Nat \ {0} /\ RecordIds \in Nat \ {0}
  BY Sizes
<1>2. RecordIds * v =< RecordIds * Size
  BY <1>1
<1>3. (d + 1) * Size < RecordIds * Size
  BY <1>1, <1>2
<1>4. ~ (d + 1 >= RecordIds)
  <2>1. d + 1 >= RecordIds => (d + 1) * Size >= RecordIds * Size
    BY <1>1
  <2>. QED  BY <1>1, <1>3, <2>1
<1>. QED  BY <1>1, <1>4

\* The kernel adds a record of n units to v units.
LEMMA CountedMore ==
  ASSUME NEW l \in Ids, NEW i \in Ids, NEW v \in Nat, v < Size,
         NEW n \in Nat, RecordIds * n > Size,
         (Ahead(l, i) + 1) * Size < RecordIds * v
  PROVE  (Ahead(Successor(l), i) + 1) * Size < RecordIds * (v + n)
<1>1. RecordIds \in Nat \ {0} /\ Size \in Nat \ {0}
  BY Sizes
<1>. DEFINE d == Ahead(l, i)
<1>2. d \in Nat
  BY <1>1, ModRange DEF Ahead, Ids
<1>. HIDE DEF d
<1>3. (d + 1) * Size < RecordIds * v
  BY DEF d
<1>4. d + 1 < RecordIds
  BY <1>2, <1>3, CountedFew
<1>5. Ahead(Successor(l), i) = d + 1
  BY <1>4, AheadSuccessor DEF d
<1>6. ((d + 1) + 1) * Size = (d + 1) * Size + Size
  BY <1>1, <1>2
<1>7. RecordIds * (v + n) = RecordIds * v + RecordIds * n
  BY <1>1
<1>. DEFINE a == (d + 1) * Size
            b == RecordIds * v
            e == RecordIds * n
<1>8. a \in Int /\ b \in Int /\ e \in Int /\ a < b /\ e > Size
  BY <1>1, <1>2, <1>3
<1>. HIDE DEF a, b, e
<1>9. a + Size < b + e
  BY <1>1, <1>8
<1>. QED  BY <1>5, <1>6, <1>7, <1>9 DEF a, b, e

-----------------------------------------------------------------------------
(* What the kernel and the worker do to the records of a ring.             *)

\* A slot that has a size holds a unit of a record.
LEMMA SlotIs ==
  ASSUME NEW s \in Slot, s.size # 0
  PROVE  s.id \in Ids
BY DEF Slot, Unknown, Ids

\* The kernel appends a record of n units behind the u unread ones.
Appended(r, p, u, l, n) ==
  [i \in Pos |-> IF (i - ((p + u) % Size)) % Size < n
                 THEN [id |-> Successor(l), part |-> (i - ((p + u) % Size)) % Size, size |-> n]
                 ELSE r[i]]

\* Which units the kernel wrote, counted from position p.
LEMMA AppendedSlots ==
  ASSUME NEW r, NEW p \in Pos, NEW u \in Nat, NEW l, NEW n \in Nat, u + n < Size,
         NEW k \in 0 .. u + n - 1
  PROVE  At(Appended(r, p, u, l, n), p, k) =
           IF k < u THEN At(r, p, k)
           ELSE [id |-> Successor(l), part |-> k - u, size |-> n]
<1>. DEFINE i == (p + k) % Size
            o == (i - ((p + u) % Size)) % Size
<1>1. k \in 0 .. Size - 1 /\ u \in 0 .. Size - 1 /\ Size \in Nat
  BY Sizes
<1>2. i \in Pos
  BY <1>1, Index
<1>3. o = IF k < u THEN k - u + Size ELSE k - u
  BY <1>1, OffsetIndex
<1>4. Appended(r, p, u, l, n)[i] =
        IF o < n THEN [id |-> Successor(l), part |-> o, size |-> n] ELSE r[i]
  BY <1>2 DEF Appended
<1>5. At(Appended(r, p, u, l, n), p, k) = Appended(r, p, u, l, n)[i] /\ At(r, p, k) = r[i]
  BY DEF At
<1>. HIDE DEF i, o
<1>6. o < n <=> ~ (k < u)
  BY <1>1, <1>3
<1>. QED  BY <1>3, <1>4, <1>5, <1>6

\* A record behind the others keeps all whole and in order.
LEMMA RecordAppended ==
  ASSUME NEW c \in Core, NEW r \in [Pos -> Slot], NEW p \in Pos, NEW u \in Nat,
         NEW l \in Ids, NEW n \in RecordSizes[c], u + n < Size,
         Records(c, r, p, u, l)
  PROVE  Records(c, Appended(r, p, u, l, n), p, u + n, Successor(l))
<1>. DEFINE q == Appended(r, p, u, l, n)
            m == Successor(l)
            N(k) == [id |-> m, part |-> k - u, size |-> n]
<1>1. n \in Nat \ {0} /\ RecordIds * n > Size /\ Size \in Nat \ {0} /\ RecordIds \in Nat \ {0}
  BY Sizes
<1>2. m \in Ids
  BY SuccessorIs
<1>3. \A k \in 0 .. u + n - 1 : At(q, p, k) = IF k < u THEN At(r, p, k) ELSE N(k)
  BY <1>1, AppendedSlots
<1>. HIDE DEF q, m
<1>. SUFFICES Records(c, q, p, u + n, m)
  BY DEF q, m
<1>4. SUFFICES ASSUME NEW k \in 0 .. u + n - 1, At(q, p, k).part = 0
               PROVE  /\ Whole(c, q, p, u + n, k)
                      /\ Followed(q, p, u + n, m, k)
                      /\ Counted(q, p, u + n, m, k)
  BY <1>1 DEF Records
<1>5. CASE k < u
  <2>. DEFINE s == At(r, p, k)
  <2>1. At(q, p, k) = s
    BY <1>3, <1>5
  <2>2. /\ Whole(c, r, p, u, k)
        /\ Followed(r, p, u, l, k)
        /\ Counted(r, p, u, l, k)
    BY <1>4, <1>5, <2>1 DEF Records
  <2>3. s.size \in RecordSizes[c] /\ s.size \in Nat \ {0} /\ k + s.size =< u
    BY <2>2, Sizes DEF Whole
  <2>4. Whole(c, q, p, u + n, k)
    <3>1. \A j \in 0 .. s.size - 1 :
            /\ k + j \in 0 .. u + n - 1 /\ k + j < u
            /\ At(r, p, k + j) = [id |-> s.id, part |-> j, size |-> s.size]
      BY <1>1, <1>5, <2>2, <2>3 DEF Whole
    <3>2. \A j \in 0 .. s.size - 1 :
            At(q, p, k + j) = [id |-> s.id, part |-> j, size |-> s.size]
      BY <1>3, <3>1
    <3>. QED  BY <1>1, <2>1, <2>3, <3>2 DEF Whole
  <2>5. Followed(q, p, u + n, m, k)
    <3>1. k + s.size # u + n /\ k + s.size \in 0 .. u + n - 1
      BY <1>1, <1>5, <2>3
    <3>2. CASE k + s.size = u
      <4>1. At(q, p, u) = N(u)
        BY <1>3, <3>1, <3>2
      <4>2. At(q, p, u).part = 0 /\ At(q, p, u).id = Successor(s.id)
        BY <2>2, <3>2, <4>1 DEF Followed, m
      <4>. QED  BY <2>1, <3>1, <3>2, <4>2 DEF Followed
    <3>3. CASE k + s.size # u
      <4>1. At(q, p, k + s.size) = At(r, p, k + s.size)
        BY <1>3, <2>3, <3>1, <3>3
      <4>. QED  BY <2>1, <2>2, <3>1, <3>3, <4>1 DEF Followed
    <3>. QED  BY <3>2, <3>3
  <2>6. Counted(q, p, u + n, m, k)
    <3>1. s.id \in Ids
      <4>1. s \in Slot
        BY <1>1, <1>5, Index DEF At
      <4>. QED  BY <2>3, <4>1, SlotIs
    <3>2. u - k \in Nat /\ u - k < Size /\ (u + n) - k = (u - k) + n
      BY <1>1, <1>5
    <3>3. (Ahead(l, s.id) + 1) * Size < RecordIds * (u - k)
      BY <2>2 DEF Counted, Ahead
    <3>4. (Ahead(m, s.id) + 1) * Size < RecordIds * ((u - k) + n)
      BY <1>1, <3>1, <3>2, <3>3, CountedMore DEF m
    <3>5. (Ahead(m, At(q, p, k).id) + 1) * Size < RecordIds * ((u + n) - k)
      BY <2>1, <3>2, <3>4
    <3>. QED  BY <3>5 DEF Counted, Ahead
  <2>. QED  BY <2>4, <2>5, <2>6
<1>6. CASE k >= u
  <2>1. At(q, p, k) = N(k)
    BY <1>3, <1>6
  <2>2. k = u
    BY <1>4, <1>6, <2>1
  <2>3. Whole(c, q, p, u + n, k)
    <3>1. \A j \in 0 .. n - 1 : At(q, p, k + j) = [id |-> m, part |-> j, size |-> n]
      <4>. TAKE j \in 0 .. n - 1
      <4>1. k + j \in 0 .. u + n - 1 /\ ~ (k + j < u) /\ (k + j) - u = j
        BY <1>1, <2>2
      <4>. QED  BY <1>3, <4>1
    <3>. QED  BY <1>1, <2>1, <2>2, <3>1 DEF Whole
  <2>4. Followed(q, p, u + n, m, k)
    BY <2>1, <2>2 DEF Followed
  <2>5. Counted(q, p, u + n, m, k)
    <3>1. Ahead(m, m) = 0
      BY <1>2, AheadOfSuccessor
    <3>2. (u + n) - k = n
      BY <1>1, <2>2
    <3>3. (0 + 1) * Size < RecordIds * n
      BY <1>1
    <3>. QED  BY <2>1, <3>1, <3>2, <3>3 DEF Counted, Ahead
  <2>. QED  BY <2>3, <2>4, <2>5
<1>. QED  BY <1>5, <1>6

\* The worker gives the n units from position p on back to the kernel.
Dropped(r, p, n) == [i \in Pos |-> IF (i - p) % Size < n THEN Unknown ELSE r[i]]

\* What is left of the ring, counted from the next record.
LEMMA DroppedSlots ==
  ASSUME NEW r, NEW p \in Pos, NEW n \in Nat, NEW k \in Nat, n + k < Size
  PROVE  At(Dropped(r, p, n), (p + n) % Size, k) = At(r, p, n + k)
<1>. DEFINE i == (p + (n + k)) % Size
            o == (i - p) % Size
<1>1. n + k \in 0 .. Size - 1 /\ Size \in Nat /\ p \in 0 .. Size - 1
  BY Sizes DEF Pos
<1>2. i \in Pos /\ i = IF p + (n + k) < Size THEN p + (n + k) ELSE p + (n + k) - Size
  BY <1>1, Index
<1>3. Dropped(r, p, n)[i] = IF o < n THEN Unknown ELSE r[i]
  BY <1>2 DEF Dropped
<1>4. At(Dropped(r, p, n), (p + n) % Size, k) = Dropped(r, p, n)[i]
  BY IndexFrom DEF At
<1>5. At(r, p, n + k) = r[i]
  BY DEF At
<1>. HIDE DEF i
<1>6. o = IF i < p THEN i - p + Size ELSE i - p
  BY <1>2, Offset
<1>. HIDE DEF o
<1>7. o = n + k
  BY <1>1, <1>2, <1>6 DEF Pos
<1>. QED  BY <1>1, <1>3, <1>4, <1>5, <1>7

\* Without the first record the others are whole and in order, from the next one on.
LEMMA RecordDropped ==
  ASSUME NEW c \in Core, NEW r \in [Pos -> Slot], NEW p \in Pos, NEW u \in Nat, u < Size,
         NEW l \in Ids, Records(c, r, p, u, l), u > 0, At(r, p, 0).part = 0,
         NEW n, n = At(r, p, 0).size
  PROVE  /\ n \in RecordSizes[c] /\ n \in Nat \ {0} /\ n =< u
         /\ Records(c, Dropped(r, p, n), (p + n) % Size, u - n, l)
         /\ u = n => At(r, p, 0).id = l
         /\ u # n => LET t == At(Dropped(r, p, n), (p + n) % Size, 0)
                     IN  t.part = 0 /\ t.id = Successor(At(r, p, 0).id)
<1>. DEFINE q == Dropped(r, p, n)
            b == (p + n) % Size
<1>1. /\ Whole(c, r, p, u, 0)
      /\ Followed(r, p, u, l, 0)
  BY DEF Records
<1>2. n \in RecordSizes[c] /\ n \in Nat \ {0} /\ n =< u
  BY <1>1, Sizes DEF Whole
<1>3. \A k \in 0 .. u - n - 1 : At(q, b, k) = At(r, p, n + k)
  <2>. TAKE k \in 0 .. u - n - 1
  <2>1. n \in Nat /\ k \in Nat /\ n + k < Size
    BY <1>2, Sizes
  <2>. QED  BY <2>1, DroppedSlots
<1>. HIDE DEF q, b
<1>4. Records(c, q, b, u - n, l)
  <2>1. SUFFICES ASSUME NEW k \in 0 .. u - n - 1, At(q, b, k).part = 0
                 PROVE  /\ Whole(c, q, b, u - n, k)
                        /\ Followed(q, b, u - n, l, k)
                        /\ Counted(q, b, u - n, l, k)
    BY <1>2 DEF Records
  <2>. DEFINE s == At(r, p, n + k)
  <2>2. At(q, b, k) = s /\ n + k \in 0 .. u - 1
    BY <1>2, <1>3
  <2>3. /\ Whole(c, r, p, u, n + k)
        /\ Followed(r, p, u, l, n + k)
        /\ Counted(r, p, u, l, n + k)
    BY <2>1, <2>2 DEF Records
  <2>4. s.size \in RecordSizes[c] /\ s.size \in Nat \ {0} /\ (n + k) + s.size =< u
    BY <2>3, Sizes DEF Whole
  <2>5. Whole(c, q, b, u - n, k)
    <3>1. \A j \in 0 .. s.size - 1 :
            At(q, b, k + j) = [id |-> s.id, part |-> j, size |-> s.size]
      <4>. TAKE j \in 0 .. s.size - 1
      <4>1. k + j \in 0 .. u - n - 1 /\ n + (k + j) = (n + k) + j
        BY <1>2, <2>4
      <4>2. At(q, b, k + j) = At(r, p, (n + k) + j)
        BY <1>3, <4>1
      <4>. QED  BY <2>3, <4>2 DEF Whole
    <3>2. k + s.size =< u - n
      BY <1>2, <2>4
    <3>. QED  BY <2>2, <2>4, <3>1, <3>2 DEF Whole
  <2>6. Followed(q, b, u - n, l, k)
    <3>1. CASE (n + k) + s.size = u
      <4>1. k + s.size = u - n
        BY <1>2, <2>4, <3>1
      <4>. QED  BY <2>2, <2>3, <3>1, <4>1 DEF Followed
    <3>2. CASE (n + k) + s.size # u
      <4>1. /\ k + s.size # u - n /\ k + s.size \in 0 .. u - n - 1
            /\ n + (k + s.size) = (n + k) + s.size
        BY <1>2, <2>4, <3>2
      <4>2. At(q, b, k + s.size) = At(r, p, (n + k) + s.size)
        BY <1>3, <4>1
      <4>. QED  BY <2>2, <2>3, <3>2, <4>1, <4>2 DEF Followed
    <3>. QED  BY <3>1, <3>2
  <2>7. Counted(q, b, u - n, l, k)
    <3>1. (u - n) - k = u - (n + k)
      BY <1>2
    <3>. QED  BY <2>2, <2>3, <3>1 DEF Counted
  <2>. QED  BY <2>5, <2>6, <2>7
<1>5. u = n => At(r, p, 0).id = l
  BY <1>1, <1>2 DEF Followed
<1>6. u # n => At(q, b, 0).part = 0 /\ At(q, b, 0).id = Successor(At(r, p, 0).id)
  <2>1. u # n => At(q, b, 0) = At(r, p, 0 + n)
    BY <1>2, <1>3
  <2>. QED  BY <1>1, <1>2, <2>1 DEF Followed
<1>. QED  BY <1>2, <1>4, <1>5, <1>6 DEF q, b

-----------------------------------------------------------------------------
(* data_head and data_tail.                                                *)

Counters == 0 .. Wrap - 1

\* The units between the counters, wherever they wrapped around.
LEMMA Distance ==
  ASSUME NEW h \in Counters, NEW t \in Counters, NEW u, u = (h - t) % Wrap
  PROVE  /\ u \in Counters /\ (u = 0 <=> h = t)
         /\ u = IF h < t THEN h - t + Wrap ELSE h - t
         /\ h % Size = ((t % Size) + u) % Size
<1>1. Wrap \in Nat \ {0} /\ Size \in Nat \ {0} /\ h \in Int /\ t \in Int /\ Wrap % Size = 0
  BY Sizes DEF Counters
<1>. DEFINE d == h - t
<1>2. d \in -Wrap .. 2 * Wrap - 1 /\ d < Wrap
  BY <1>1 DEF Counters
<1>3. d % Wrap = IF d < 0 THEN d + Wrap ELSE IF d < Wrap THEN d ELSE d - Wrap
  <2>. HIDE DEF d
  <2>. QED  BY <1>1, <1>2, OnceMod
<1>4. u = IF h < t THEN h - t + Wrap ELSE h - t
  <2>1. u = IF d < 0 THEN d + Wrap ELSE IF d < Wrap THEN d ELSE d - Wrap
    <3>1. u = d % Wrap
      OBVIOUS
    <3>. HIDE DEF d
    <3>. QED  BY <1>3, <3>1
  <2>. QED  BY <1>1, <1>2, <2>1
<1>5. u \in Counters /\ (u = 0 <=> h = t)
  BY <1>1, <1>4 DEF Counters
<1>6. h % Size = ((t % Size) + u) % Size
  <2>. DEFINE a == t + u
  <2>1. a \in Int /\ a \in -Wrap .. 2 * Wrap - 1 /\ ~ (a < 0)
    BY <1>1, <1>5 DEF Counters
  <2>2. h = IF a < Wrap THEN a ELSE a - Wrap
    BY <1>1, <1>4 DEF Counters
  <2>3. (t + u) % Size = ((t % Size) + u) % Size
    <3>1. u \in Int
      BY <1>1, <1>5 DEF Counters
    <3>. QED  BY <1>1, <3>1, SumMod
  <2>4. a % Size = (t + u) % Size
    OBVIOUS
  <2>. HIDE DEF a
  <2>5. a % Wrap = h
    <3>1. a % Wrap = IF a < 0 THEN a + Wrap ELSE IF a < Wrap THEN a ELSE a - Wrap
      BY <1>1, <2>1, OnceMod
    <3>. QED  BY <2>1, <2>2, <3>1
  <2>6. (a % Wrap) % Size = a % Size
    BY <1>1, <2>1, NestedMod
  <2>. QED  BY <2>3, <2>4, <2>5, <2>6, Zenon
<1>. QED  BY <1>4, <1>5, <1>6

\* The kernel moves data_head on.
LEMMA HeadMoved ==
  ASSUME NEW h \in Counters, NEW t \in Counters, NEW n \in Nat, ((h - t) % Wrap) + n < Wrap
  PROVE  /\ (h + n) % Wrap \in Counters
         /\ (((h + n) % Wrap) - t) % Wrap = ((h - t) % Wrap) + n
<1>1. Wrap \in Nat \ {0} /\ h \in Int /\ t \in Int /\ h + n \in Int
  BY Sizes DEF Counters
<1>. DEFINE u == (h - t) % Wrap
            g == (h + n) % Wrap
            v == (g - t) % Wrap
<1>2. u = IF h < t THEN h - t + Wrap ELSE h - t
  BY Distance
<1>3. g \in Counters
  BY <1>1, ModRange DEF Counters
<1>4. v = IF g < t THEN g - t + Wrap ELSE g - t
  BY <1>3, Distance
<1>5. u \in Counters /\ u + n < Wrap
  BY Distance
<1>. HIDE DEF u, v
<1>6. g = IF h + n < Wrap THEN h + n ELSE h + n - Wrap
  <2>. DEFINE a == h + n
  <2>1. a \in -Wrap .. 2 * Wrap - 1 /\ ~ (a < 0)
    BY <1>1, <1>2, <1>5 DEF Counters
  <2>. HIDE DEF a
  <2>2. a % Wrap = IF a < 0 THEN a + Wrap ELSE IF a < Wrap THEN a ELSE a - Wrap
    BY <1>1, <2>1, OnceMod
  <2>3. g = a % Wrap
    BY DEF a
  <2>. HIDE DEF g
  <2>4. g = IF a < Wrap THEN a ELSE a - Wrap
    BY <2>1, <2>2, <2>3
  <2>. QED  BY <1>1, <2>4 DEF a, Counters
<1>. HIDE DEF g
<1>7. v = u + n
  BY <1>1, <1>2, <1>3, <1>4, <1>5, <1>6 DEF Counters
<1>. QED  BY <1>3, <1>7 DEF u, v, g

\* The worker moves data_tail on, by whole records.
LEMMA TailMoved ==
  ASSUME NEW h \in Counters, NEW t \in Counters, NEW n \in Nat, n =< (h - t) % Wrap
  PROVE  /\ (t + n) % Wrap \in Counters
         /\ (h - ((t + n) % Wrap)) % Wrap = ((h - t) % Wrap) - n
         /\ ((t + n) % Wrap) % Size = ((t % Size) + n) % Size
         /\ t % HeaderSize = 0 /\ n % HeaderSize = 0
              => ((t + n) % Wrap) % HeaderSize = 0
<1>1. /\ Wrap \in Nat \ {0} /\ h \in Int /\ t \in Int /\ t + n \in Int
      /\ Size \in Nat \ {0} /\ HeaderSize \in Nat \ {0}
      /\ n \in Int /\ Wrap \in Int
      /\ Wrap % Size = 0 /\ Size % HeaderSize = 0
  BY Sizes, SizeAssumption DEF Counters
<1>. DEFINE u == (h - t) % Wrap
            g == (t + n) % Wrap
            v == (h - g) % Wrap
<1>2. u = IF h < t THEN h - t + Wrap ELSE h - t
  BY Distance
<1>3. g \in Counters
  BY <1>1, ModRange DEF Counters
<1>4. v = IF h < g THEN h - g + Wrap ELSE h - g
  BY <1>3, Distance
<1>5. u \in Counters /\ n =< u
  BY Distance
<1>6. g % Size = ((t % Size) + n) % Size
  <2>1. ((t + n) % Wrap) % Size = (t + n) % Size
    BY <1>1, NestedMod
  <2>2. (t + n) % Size = ((t % Size) + n) % Size
    BY <1>1, SumMod
  <2>. QED  BY <2>1, <2>2, Zenon
<1>7. ASSUME t % HeaderSize = 0, n % HeaderSize = 0
      PROVE  g % HeaderSize = 0
  <2>1. Wrap % HeaderSize = 0
    <3>1. (Wrap % Size) % HeaderSize = Wrap % HeaderSize
      BY <1>1, NestedMod, Zenon
    <3>2. 0 % HeaderSize = 0
      BY <1>1, Remainder, OnceMod
    <3>. QED  BY <1>1, <3>1, <3>2, Zenon
  <2>2. ((t + n) % Wrap) % HeaderSize = (t + n) % HeaderSize
    BY <1>1, <2>1, NestedMod
  <2>3. (t + n) % HeaderSize = ((t % HeaderSize) + n) % HeaderSize
    BY <1>1, SumMod
  <2>4. ((t % HeaderSize) + n) = n
    BY <1>7
  <2>. QED  BY <1>7, <2>2, <2>3, <2>4, Zenon
<1>. HIDE DEF u, v
<1>8. g = IF t + n < Wrap THEN t + n ELSE t + n - Wrap
  <2>. DEFINE a == t + n
  <2>1. a \in -Wrap .. 2 * Wrap - 1 /\ ~ (a < 0)
    BY <1>1, <1>5 DEF Counters
  <2>. HIDE DEF a
  <2>2. a % Wrap = IF a < 0 THEN a + Wrap ELSE IF a < Wrap THEN a ELSE a - Wrap
    BY <1>1, <2>1, OnceMod
  <2>3. g = a % Wrap
    BY DEF a
  <2>. HIDE DEF g
  <2>4. g = IF a < Wrap THEN a ELSE a - Wrap
    BY <2>1, <2>2, <2>3
  <2>. QED  BY <1>1, <2>4 DEF a, Counters
<1>. HIDE DEF g
<1>9. v = u - n
  BY <1>1, <1>2, <1>3, <1>4, <1>5, <1>8 DEF Counters
<1>. QED  BY <1>3, <1>6, <1>7, <1>9 DEF u, v, g

-----------------------------------------------------------------------------
(* The first record of a ring, and the worker's look at it.                *)

\* The worker is at a core that is registered.
LEMMA CpuIs ==
  ASSUME TypeOK, WorkerInv, pc \in {"poll", "handle", "advance"}
  PROVE  cpu \in Core /\ at \in 1 .. Len(registered) /\ Len(registered) =< NumCores
<1>1. at \in 1 .. Len(registered)
  BY CountAssumption DEF TypeOK, WorkerInv
<1>2. cpu \in Core
  BY <1>1 DEF TypeOK, cpu
<1>3. Len(registered) =< NumCores
  BY CountAssumption DEF TypeOK, WorkerInv
<1>. QED  BY <1>1, <1>2, <1>3

\* The ring of a core, its positions and its numbers.
LEMMA RingTypes ==
  ASSUME TypeOK, NEW c \in Core
  PROVE  /\ ring[c] \in [Pos -> Slot] /\ head[c] \in Counters /\ tail[c] \in Counters
         /\ last[c] \in Ids /\ delivered[c] \in Ids
         /\ Begin(c) \in Pos /\ Unread(c) \in Nat
<1>1. /\ ring[c] \in [Pos -> Slot] /\ head[c] \in Counters /\ tail[c] \in Counters
      /\ last[c] \in Ids /\ delivered[c] \in Ids
  BY DEF TypeOK, Counters, Ids
<1>2. Begin(c) \in Pos
  BY <1>1, Sizes, ModRange DEF Begin, Pos, Counters
<1>3. Unread(c) \in Counters
  BY <1>1, Distance DEF Unread
<1>. QED  BY <1>1, <1>2, <1>3 DEF Counters

\* The record at data_tail lies whole in the ring, its header in one piece.
LEMMA FirstRecord ==
  ASSUME TypeOK, NEW c \in Core, RingInv(c), Unread(c) > 0,
         NEW p, p = Begin(c), NEW n, n = First(c).size
  PROVE  /\ p \in Pos /\ First(c) = ring[c][p]
         /\ n \in RecordSizes[c] /\ n \in Nat \ {0}
         /\ n =< MaxEvent /\ n =< Unread(c) /\ n < Size
         /\ Size - p >= HeaderSize
         /\ \A i \in 1 .. n :
              ring[c][IF p + (i - 1) < Size THEN p + (i - 1) ELSE p + (i - 1) - Size]
                = [id |-> First(c).id, part |-> i - 1, size |-> n]
<1>. DEFINE u == Unread(c)
            r == ring[c]
<1>1. p \in Pos /\ u \in Nat /\ u < Size /\ Size \in Nat \ {0} /\ tail[c] \in Counters
  BY RingTypes, Sizes DEF RingInv
<1>2. \A k \in 0 .. Size - 1 :
        At(r, p, k) = r[IF p + k < Size THEN p + k ELSE p + k - Size]
  BY <1>1, Index DEF At
<1>3. Whole(c, r, p, u, 0)
  BY <1>1 DEF RingInv, Records, First
<1>4. n \in RecordSizes[c] /\ n \in Nat \ {0} /\ n =< MaxEvent /\ n =< u
  BY <1>3, Sizes DEF Whole, First
<1>5. First(c) = r[p]
  <2>1. At(r, p, 0) = r[p]
    BY <1>1, <1>2 DEF Pos
  <2>. QED  BY <2>1 DEF First
<1>6. \A i \in 1 .. n :
        r[IF p + (i - 1) < Size THEN p + (i - 1) ELSE p + (i - 1) - Size]
          = [id |-> First(c).id, part |-> i - 1, size |-> n]
  <2>. TAKE i \in 1 .. n
  <2>1. i - 1 \in 0 .. n - 1 /\ i - 1 \in 0 .. Size - 1 /\ 0 + (i - 1) = i - 1
    BY <1>1, <1>4
  <2>2. At(r, p, i - 1) = [id |-> First(c).id, part |-> i - 1, size |-> n]
    BY <1>3, <2>1 DEF Whole, First
  <2>. QED  BY <1>2, <2>1, <2>2
<1>7. Size - p >= HeaderSize
  <2>1. /\ HeaderSize \in Nat \ {0} /\ Size % HeaderSize = 0 /\ tail[c] % HeaderSize = 0
        /\ tail[c] \in Int /\ p = tail[c] % Size /\ Size \in Int /\ p \in Int
    BY <1>1, SizeAssumption DEF RingInv, Begin, Pos, Counters
  <2>2. p % HeaderSize = 0
    <3>1. (tail[c] % Size) % HeaderSize = tail[c] % HeaderSize
      BY <1>1, <2>1, NestedMod, Zenon
    <3>. QED  BY <2>1, <3>1, Zenon
  <2>3. (Size - p) % HeaderSize = 0
    <3>1. (Size - p) % HeaderSize = (Size - (p % HeaderSize)) % HeaderSize
      BY <2>1, DifferenceMod, Zenon
    <3>2. Size - 0 = Size
      BY <2>1
    <3>. QED  BY <2>1, <2>2, <3>1, <3>2, Zenon
  <2>4. Size - p \in Nat \ {0}
    BY <1>1 DEF Pos
  <2>. QED  BY <2>1, <2>3, <2>4, MultipleMod
<1>. QED  BY <1>1, <1>4, <1>5, <1>6, <1>7

\* The pointer handed over leads to the whole first record.
LEMMA ViewIs ==
  ASSUME RInv, pc \in {"handle", "advance"}
  PROVE  /\ View = Record(First(cpu).id, First(cpu).size)
         /\ First(cpu).size \in Nat \ {0}
         /\ View[1].size = First(cpu).size
<1>. DEFINE p == Begin(cpu)
            n == First(cpu).size
<1>1. cpu \in Core /\ Holding /\ RingInv(cpu)
  BY CpuIs DEF RInv, WorkerInv
<1>2. /\ p \in Pos /\ First(cpu) = ring[cpu][p] /\ n \in Nat \ {0}
      /\ \A i \in 1 .. n :
           ring[cpu][IF p + (i - 1) < Size THEN p + (i - 1) ELSE p + (i - 1) - Size]
             = [id |-> First(cpu).id, part |-> i - 1, size |-> n]
  BY <1>1, FirstRecord DEF RInv, Holding
<1>3. View = Record(First(cpu).id, n)
  <2>1. CASE temp = <<>>
    <3>1. ph = p /\ p + n =< Size
      BY <1>1, <2>1 DEF Holding
    <3>2. \A i \in 1 .. n : p + (i - 1) < Size /\ p + (i - 1) = p + i - 1
      BY <1>2, <3>1, Sizes DEF Pos
    <3>3. View = [i \in 1 .. n |-> ring[cpu][p + i - 1]]
      BY <1>2, <2>1, <3>1 DEF View
    <3>4. \A i \in 1 .. n :
            ring[cpu][p + i - 1] = [id |-> First(cpu).id, part |-> i - 1, size |-> n]
      BY <1>2, <3>2
    <3>. HIDE DEF n
    <3>. QED  BY <3>3, <3>4 DEF Record
  <2>2. CASE temp # <<>>
    BY <1>1, <2>2 DEF View, Holding
  <2>. QED  BY <2>1, <2>2
<1>4. View[1].size = n
  <2>. HIDE DEF n
  <2>. QED  BY <1>2, <1>3 DEF Record
<1>. QED  BY <1>2, <1>3, <1>4

-----------------------------------------------------------------------------
(* Every step keeps the invariant.                                         *)

\* A ring is as it was when neither the kernel nor the worker was there.
LEMMA RingKept ==
  ASSUME NEW c \in Core, RingInv(c),
         ring'[c] = ring[c], head'[c] = head[c], tail'[c] = tail[c],
         last'[c] = last[c], delivered'[c] = delivered[c], Handed(c)' = Handed(c)
  PROVE  RingInv(c)'
BY DEF RingInv, Begin, Unread, First

\* The worker keeps what it holds while main() goes on.
LEMMA HoldingKept ==
  ASSUME Holding, cpu' = cpu, mapped \subseteq mapped',
         UNCHANGED <<count, ph, temp>>,
         Unread(cpu)' > 0, Begin(cpu)' = Begin(cpu), First(cpu)' = First(cpu)
  PROVE  Holding'
BY DEF Holding

\* Nothing is registered, written or held at the beginning.
LEMMA InitRInv == Init => RInv
<1>. SUFFICES ASSUME Init PROVE RInv
  OBVIOUS
<1>1. TypeOK
  <2>1. 0 \in Pos /\ 0 \in 0 .. Wrap - 1 /\ 0 \in 0 .. RecordIds - 1 /\ 0 \in 0 .. Batch
        /\ 1 \in 1 .. NumCores + 1
    BY Sizes, CountAssumption DEF Pos
  <2>2. Unknown \in Slot
    BY DEF Slot
  <2>3. registered \in Seq(Core) /\ temp \in Seq(Slot)
    BY DEF Init
  <2>4. ring \in [Core -> [Pos -> Slot]]
    BY <2>2 DEF Init
  <2>5. stop \in BOOLEAN /\ freed \in BOOLEAN
    BY Zenon DEF Init
  <2>. QED  BY <2>1, <2>3, <2>4, <2>5 DEF Init, TypeOK
<1>2. WorkerInv
  BY DEF Init, WorkerInv, NeverSplit
<1>3. ASSUME NEW c \in Core PROVE RingInv(c)
  <2>1. head[c] = 0 /\ tail[c] = 0 /\ last[c] = 0 /\ delivered[c] = 0 /\ pc = "check"
    BY <1>3 DEF Init
  <2>2. (0 - 0) % Wrap = 0 /\ 0 % HeaderSize = 0
    BY Sizes, OnceMod
  <2>3. Unread(c) = 0
    BY <2>1, <2>2 DEF Unread
  <2>4. Records(c, ring[c], Begin(c), 0, last[c])
    BY DEF Records
  <2>. QED  BY <2>1, <2>2, <2>3, <2>4, Sizes DEF RingInv, Handed
<1>. QED  BY <1>1, <1>2, <1>3 DEF RInv

\* A ring the kernel writes a record to.
LEMMA RingProduced ==
  ASSUME TypeOK, NEW c \in Core, RingInv(c), NEW n \in RecordSizes[c], Unread(c) + n < Size,
         ring'[c] = Appended(ring[c], Begin(c), Unread(c), last[c], n),
         last'[c] = Successor(last[c]), head'[c] = (head[c] + n) % Wrap,
         tail'[c] = tail[c], delivered'[c] = delivered[c], Handed(c)' = Handed(c)
  PROVE  /\ RingInv(c)' /\ Unread(c)' > 0 /\ Begin(c)' = Begin(c)
         /\ Unread(c) > 0 => First(c)' = First(c)
<1>. DEFINE u == Unread(c)
            p == Begin(c)
            r == ring[c]
            q == Appended(r, p, u, last[c], n)
<1>1. /\ r \in [Pos -> Slot] /\ head[c] \in Counters /\ tail[c] \in Counters
      /\ last[c] \in Ids /\ p \in Pos /\ u \in Nat
      /\ n \in Nat \ {0} /\ Wrap > Size /\ Size \in Nat /\ Wrap \in Nat
  BY RingTypes, Sizes
<1>2. Unread(c)' = u + n /\ Begin(c)' = p
  <2>1. ((head[c] - tail[c]) % Wrap) + n < Wrap
    BY <1>1 DEF Unread
  <2>2. (((head[c] + n) % Wrap) - tail[c]) % Wrap = ((head[c] - tail[c]) % Wrap) + n
    BY <1>1, <2>1, HeadMoved
  <2>. QED  BY <2>2 DEF Unread, Begin
<1>3. Records(c, q, p, u + n, Successor(last[c]))
  BY <1>1, RecordAppended DEF RingInv
<1>4. At(q, p, 0) = IF 0 < u THEN At(r, p, 0)
                    ELSE [id |-> Successor(last[c]), part |-> 0 - u, size |-> n]
  BY <1>1, AppendedSlots
<1>5. First(c)' = At(q, p, 0) /\ First(c) = At(r, p, 0)
  BY <1>2 DEF First
<1>6. /\ First(c)'.part = 0
      /\ First(c)'.id = IF Handed(c)' THEN delivered'[c] ELSE Successor(delivered'[c])
  <2>1. CASE u > 0
    BY <1>4, <1>5, <2>1 DEF RingInv
  <2>2. CASE u = 0
    BY <1>4, <1>5, <2>2 DEF RingInv
  <2>. QED  BY <1>1, <2>1, <2>2
<1>7. Records(c, ring'[c], Begin(c)', Unread(c)', last'[c])
  BY <1>2, <1>3
<1>8. Unread(c)' < Size /\ Unread(c)' > 0
  BY <1>1, <1>2
<1>9. tail'[c] % HeaderSize = 0
  BY DEF RingInv
<1>10. RingInv(c)'
  <2>. HIDE DEF u, p, r, q
  <2>. QED  BY <1>6, <1>7, <1>8, <1>9 DEF RingInv
<1>. QED  BY <1>2, <1>4, <1>5, <1>8, <1>10

\* The kernel writes a record where there is room.
LEMMA ProduceStep ==
  ASSUME RInv, NEW c \in Core, NEW n \in RecordSizes[c], Produce(c, n)
  PROVE  RInv'
<1>. DEFINE p == Begin(c)
            u == Unread(c)
            id == Successor(last[c])
            q == Appended(ring[c], p, u, last[c], n)
<1>1. /\ ring[c] \in [Pos -> Slot] /\ head[c] \in Counters /\ tail[c] \in Counters
      /\ last[c] \in Ids /\ p \in Pos /\ u \in Nat /\ TypeOK /\ RingInv(c)
  BY RingTypes DEF RInv
<1>2. n \in Nat \ {0} /\ n =< MaxEvent /\ MaxEvent \in Nat /\ Size \in Nat \ {0}
  BY Sizes
<1>3. /\ c \in mapped /\ ~freed /\ u + n < Size
      /\ last' = [last EXCEPT ![c] = id]
      /\ head' = [head EXCEPT ![c] = (@ + n) % Wrap]
      /\ tail' = tail /\ delivered' = delivered /\ pc' = pc
      /\ UNCHANGED <<core, registered, mapped, stop, freed, at, count, ph, temp>>
  BY DEF Produce, list, local
<1>4. ring' = [ring EXCEPT ![c] = q]
  <2>. DEFINE part(i) == (i - head[c]) % Size
              w == [i \in Pos |-> IF part(i) < n
                                  THEN [id |-> id, part |-> part(i), size |-> n]
                                  ELSE ring[c][i]]
  <2>1. ring' = [ring EXCEPT ![c] = w]
    BY <1>1 DEF Produce, TypeOK
  <2>2. \A i \in Pos : part(i) = (i - ((p + u) % Size)) % Size
    <3>. TAKE i \in Pos
    <3>1. i \in Int /\ head[c] \in Int
      BY <1>1 DEF Pos, Counters
    <3>2. (i - head[c]) % Size = (i - (head[c] % Size)) % Size
      BY <1>2, <3>1, DifferenceMod
    <3>3. head[c] % Size = (p + u) % Size
      BY <1>1, Distance DEF Begin, Unread
    <3>. QED  BY <3>2, <3>3, Zenon
  <2>3. w = q
    <3>. HIDE DEF part
    <3>. QED  BY <2>2 DEF Appended
  <2>. QED  BY <2>1, <2>3
<1>. HIDE DEF q
<1>5. q \in [Pos -> Slot]
  <2>1. \A i \in Pos : (i - ((p + u) % Size)) % Size \in 0 .. Size - 1
    <3>. TAKE i \in Pos
    <3>. DEFINE d == i - ((p + u) % Size)
    <3>1. d \in Int
      <4>1. p + u \in Int
        BY <1>1 DEF Pos
      <4>2. (p + u) % Size \in Int
        BY <1>2, <4>1, ModRange
      <4>. QED  BY <4>2 DEF Pos
    <3>. HIDE DEF d
    <3>2. d % Size \in 0 .. Size - 1
      BY <1>2, <3>1, ModRange
    <3>. QED  BY <3>2 DEF d
  <2>2. id \in 0 .. RecordIds - 1
    BY <1>1, SuccessorIs DEF Ids
  <2>3. \A k \in 0 .. n - 1 : [id |-> id, part |-> k, size |-> n] \in Slot
    BY <1>2, <2>2 DEF Slot
  <2>. DEFINE o(i) == (i - ((p + u) % Size)) % Size
  <2>4. q = [i \in Pos |-> IF o(i) < n THEN [id |-> id, part |-> o(i), size |-> n]
                           ELSE ring[c][i]]
    BY DEF q, Appended
  <2>5. \A i \in Pos : o(i) < n => o(i) \in 0 .. n - 1
    BY <1>2, <2>1
  <2>. HIDE DEF o, id
  <2>. QED  BY <1>1, <2>3, <2>4, <2>5
<1>6. TypeOK'
  <2>1. ring' \in [Core -> [Pos -> Slot]]
    BY <1>1, <1>4, <1>5 DEF TypeOK
  <2>2. head' \in [Core -> 0 .. Wrap - 1]
    <3>1. (head[c] + n) % Wrap \in 0 .. Wrap - 1
      <4>1. head[c] + n \in Int /\ Wrap \in Nat \ {0}
        BY <1>1, <1>2, Sizes DEF Counters
      <4>. QED  BY <4>1, ModRange
    <3>. QED  BY <1>1, <1>3, <3>1 DEF TypeOK
  <2>3. last' \in [Core -> 0 .. RecordIds - 1]
    <3>1. id \in 0 .. RecordIds - 1
      BY <1>1, SuccessorIs DEF Ids
    <3>. HIDE DEF id
    <3>. QED  BY <1>1, <1>3, <3>1 DEF TypeOK
  <2>. QED  BY <1>1, <1>3, <2>1, <2>2, <2>3 DEF TypeOK
<1>7. cpu' = cpu /\ \A d \in Core : Handed(d)' = Handed(d)
  BY <1>3 DEF cpu, Handed
<1>8. \A d \in Core : d # c => /\ ring'[d] = ring[d] /\ head'[d] = head[d]
                               /\ tail'[d] = tail[d] /\ last'[d] = last[d]
                               /\ delivered'[d] = delivered[d]
  <2>. HIDE DEF id
  <2>. QED  BY <1>1, <1>3, <1>4 DEF TypeOK
<1>9. ring'[c] = q /\ last'[c] = id /\ head'[c] = (head[c] + n) % Wrap
  <2>. HIDE DEF id
  <2>. QED  BY <1>1, <1>3, <1>4 DEF TypeOK
<1>10. /\ RingInv(c)' /\ Unread(c)' > 0 /\ Begin(c)' = Begin(c)
       /\ Unread(c) > 0 => First(c)' = First(c)
  BY <1>1, <1>3, <1>7, <1>9, RingProduced DEF q
<1>11. ASSUME NEW d \in Core PROVE RingInv(d)'
  <2>1. CASE d = c
    BY <1>10, <2>1
  <2>2. CASE d # c
    BY <1>7, <1>8, <2>2, RingKept DEF RInv
  <2>. QED  BY <2>1, <2>2
<1>12. ASSUME pc \in {"handle", "advance"} PROVE Holding'
  <2>1. cpu \in Core /\ Holding
    BY <1>12, CpuIs DEF RInv, WorkerInv
  <2>2. CASE cpu = c
    <3>1. Unread(cpu)' > 0 /\ Begin(cpu)' = Begin(cpu) /\ First(cpu)' = First(cpu)
      BY <1>7, <1>10, <2>1, <2>2 DEF Holding, Unread, Begin, First
    <3>. QED  BY <1>3, <1>7, <2>1, <3>1, HoldingKept
  <2>3. CASE cpu # c
    <3>1. Unread(cpu)' > 0 /\ Begin(cpu)' = Begin(cpu) /\ First(cpu)' = First(cpu)
      BY <1>3, <1>7, <1>8, <2>1, <2>3 DEF Holding, Unread, Begin, First
    <3>. QED  BY <1>3, <1>7, <2>1, <3>1, HoldingKept
  <2>. QED  BY <2>2, <2>3
<1>13. WorkerInv'
  BY <1>3, <1>7, <1>12 DEF RInv, WorkerInv, NeverSplit
<1>. QED  BY <1>6, <1>11, <1>13 DEF RInv

\* main() registers cores while records are handled, asks the worker to stop and
\* frees the cores.
LEMMA MainStep ==
  ASSUME RInv, RegisterCore \/ SkipCore \/ RequestStop \/ FreeCores \/ UNCHANGED vars
  PROVE  RInv'
<1>1. /\ UNCHANGED <<ring, head, last, tail, pc, at, count, ph, temp, delivered>>
      /\ stop' \in BOOLEAN
      /\ \/ /\ UNCHANGED <<freed>>
            /\ core' = core /\ registered' = registered /\ mapped' = mapped
         \/ /\ UNCHANGED <<freed>>
            /\ pc # "crashed" /\ core =< NumCores /\ core' = core + 1
            /\ \/ registered' = registered /\ mapped' = mapped
               \/ /\ registered' = Append(registered, core)
                  /\ mapped' \in {mapped, mapped \cup {core}}
         \/ /\ pc = "exited" /\ freed' = TRUE
            /\ core' = core /\ registered' = registered /\ mapped' = mapped
  <2>1. CASE RegisterCore
    BY <2>1 DEF RInv, TypeOK, RegisterCore, NextCore, kernel, local
  <2>2. CASE SkipCore
    BY <2>2 DEF RInv, TypeOK, SkipCore, NextCore, kernel, local
  <2>3. CASE RequestStop
    <3>1. stop' \in BOOLEAN
      BY <2>3, Zenon DEF RequestStop
    <3>. QED  BY <2>3, <3>1 DEF RequestStop, kernel, local
  <2>4. CASE FreeCores
    BY <2>4 DEF RInv, TypeOK, FreeCores, kernel, local
  <2>5. CASE UNCHANGED vars
    BY <2>5 DEF RInv, TypeOK, vars, list, kernel, local
  <2>. QED  BY <2>1, <2>2, <2>3, <2>4, <2>5
<1>2. /\ core \in 1 .. NumCores + 1 /\ registered \in Seq(Core) /\ mapped \subseteq Core
      /\ Len(registered) < core /\ NumCores \in Nat
  BY CountAssumption DEF RInv, TypeOK, WorkerInv
<1>3. /\ core' \in 1 .. NumCores + 1 /\ registered' \in Seq(Core) /\ mapped' \subseteq Core
      /\ mapped \subseteq mapped'
      /\ Len(registered') < core' /\ Len(registered) =< Len(registered')
      /\ \A i \in 1 .. Len(registered) : registered'[i] = registered[i]
  <2>1. CASE core' = core /\ registered' = registered /\ mapped' = mapped
    BY <1>2, <2>1
  <2>2. CASE /\ core =< NumCores /\ core' = core + 1
             /\ registered' = registered /\ mapped' = mapped
    BY <1>2, <2>2
  <2>3. CASE /\ core =< NumCores /\ core' = core + 1
             /\ registered' = Append(registered, core)
             /\ mapped' \in {mapped, mapped \cup {core}}
    <3>1. core \in Core
      BY <1>2, <2>3 DEF Core
    <3>2. Len(registered') = Len(registered) + 1 /\ Len(registered) \in Nat
      BY <1>2, <2>3, <3>1
    <3>. QED  BY <1>2, <2>3, <3>1, <3>2
  <2>. QED  BY <1>1, <2>1, <2>2, <2>3
<1>4. freed' \in BOOLEAN
  <2>1. freed \in BOOLEAN
    BY DEF RInv, TypeOK
  <2>2. freed' = freed \/ freed' = TRUE
    BY <1>1
  <2>. QED  BY <2>1, <2>2, Zenon
<1>5. TypeOK'
  BY <1>1, <1>3, <1>4 DEF RInv, TypeOK
<1>6. pc \in {"poll", "handle", "advance", "crashed"} => cpu' = cpu /\ at \in 1 .. Len(registered)
  BY <1>1, <1>2, <1>3 DEF RInv, TypeOK, WorkerInv, cpu
<1>7. ASSUME NEW c \in Core PROVE RingInv(c)'
  <2>1. Handed(c)' = Handed(c)
    BY <1>1, <1>6 DEF Handed
  <2>. QED  BY <1>1, <2>1, RingKept DEF RInv
<1>8. ASSUME pc \in {"handle", "advance"} PROVE Holding'
  <2>1. Holding /\ cpu' = cpu
    BY <1>6, <1>8 DEF RInv, WorkerInv
  <2>2. Unread(cpu)' > 0 /\ Begin(cpu)' = Begin(cpu) /\ First(cpu)' = First(cpu)
    BY <1>1, <2>1 DEF Holding, Unread, Begin, First
  <2>. QED  BY <1>1, <1>3, <2>1, <2>2, HoldingKept
<1>9. NeverSplit'
  BY <1>1, <1>6 DEF RInv, WorkerInv, NeverSplit
<1>10. WorkerInv'
  <2>1. pc' \in {"poll", "handle", "advance", "crashed"} => at' =< Len(registered')
    BY <1>1, <1>2, <1>3, <1>5, <1>6 DEF RInv, TypeOK
  <2>2. freed' => pc' = "exited"
    BY <1>1 DEF RInv, WorkerInv
  <2>. QED  BY <1>1, <1>3, <1>8, <1>9, <2>1, <2>2 DEF WorkerInv
<1>. QED  BY <1>5, <1>7, <1>10 DEF RInv

\* The worker walks the list: it is at no ring, or done with one.
LEMMA WalkStep ==
  ASSUME RInv, UNCHANGED <<ring, head, last, tail, core, registered, mapped, stop, freed>>,
         UNCHANGED <<ph, temp, delivered>>,
         pc # "advance", count' \in 0 .. Batch, at' \in 1 .. NumCores + 1,
         pc' \in {"check", "core", "poll", "exited"},
         pc' = "poll" => at' =< Len(registered),
         freed => pc' = "exited"
  PROVE  RInv'
<1>1. TypeOK'
  BY DEF RInv, TypeOK
<1>2. ASSUME NEW c \in Core PROVE RingInv(c)'
  <2>1. Handed(c)' = Handed(c)
    BY DEF Handed
  <2>. QED  BY <2>1, RingKept DEF RInv
<1>3. WorkerInv'
  BY DEF RInv, WorkerInv, NeverSplit
<1>. QED  BY <1>1, <1>2, <1>3 DEF RInv

\* The worker looks at its state before a round.
LEMMA CheckStep == RInv /\ Check => RInv'
<1>. SUFFICES ASSUME RInv, Check PROVE RInv'
  OBVIOUS
<1>1. 1 \in 1 .. NumCores + 1
  BY CountAssumption
<1>2. /\ UNCHANGED <<ring, head, last, tail, core, registered, mapped, stop, freed>>
      /\ UNCHANGED <<ph, temp, delivered>> /\ count' = count /\ at' = 1
      /\ pc = "check" /\ pc' \in {"core", "exited"}
  BY DEF Check, kernel, list
<1>3. ~freed /\ count \in 0 .. Batch
  BY <1>2 DEF RInv, WorkerInv, TypeOK
<1>. QED  BY <1>1, <1>2, <1>3, WalkStep

\* The worker goes to the next core of the round.
LEMMA EnterStep == RInv /\ EnterCore => RInv'
<1>. SUFFICES ASSUME RInv, EnterCore PROVE RInv'
  OBVIOUS
<1>1. 0 \in 0 .. Batch
  BY CountAssumption
<1>2. /\ UNCHANGED <<ring, head, last, tail, core, registered, mapped, stop, freed>>
      /\ UNCHANGED <<ph, temp, delivered>> /\ count' = 0 /\ at' = at
      /\ pc = "core" /\ pc' \in {"poll", "check"}
      /\ pc' = "poll" => at =< Len(registered)
  BY DEF EnterCore, kernel, list
<1>3. ~freed /\ at \in 1 .. NumCores + 1
  BY <1>2 DEF RInv, WorkerInv, TypeOK
<1>. QED  BY <1>1, <1>2, <1>3, WalkStep

\* A record is handed over.
LEMMA TakeStep ==
  ASSUME RInv, pc = "poll", cpu \in Core, cpu \in mapped, ~freed,
         UNCHANGED <<ring, head, last, tail, core, registered, mapped, stop, freed, delivered>>,
         pc' = "handle", ph' = Begin(cpu), Begin(cpu) \in Pos, UNCHANGED <<at, count>>,
         Unread(cpu) > 0, count < Batch, temp' \in Seq(Slot),
         IF temp' = <<>> THEN Begin(cpu) + First(cpu).size =< Size
         ELSE temp' = Record(First(cpu).id, First(cpu).size)
  PROVE  RInv'
<1>1. cpu' = cpu
  BY DEF cpu
<1>2. Unread(cpu)' = Unread(cpu) /\ Begin(cpu)' = Begin(cpu) /\ First(cpu)' = First(cpu)
  BY <1>1 DEF Unread, Begin, First
<1>3. TypeOK'
  BY DEF RInv, TypeOK
<1>4. Holding'
  BY <1>1, <1>2 DEF Holding
<1>5. WorkerInv'
  BY <1>4 DEF RInv, WorkerInv, NeverSplit
<1>6. ASSUME NEW c \in Core PROVE RingInv(c)'
  <2>1. Handed(c)' = Handed(c)
    BY DEF Handed
  <2>. QED  BY <2>1, RingKept DEF RInv
<1>. QED  BY <1>3, <1>5, <1>6 DEF RInv

\* A sequence cut in two and put together again.
LEMMA Joined ==
  ASSUME NEW n \in Nat, NEW e \in Nat, e < n, NEW g, DOMAIN g = 1 .. n, g = [i \in 1 .. n |-> g[i]]
  PROVE  [i \in 1 .. e |-> g[i]] \o [i \in 1 .. n - e |-> g[e + i]] = g
<1>. DEFINE T == {g[i] : i \in 1 .. n}
            f == [i \in 1 .. e |-> g[i]]
            s == [i \in 1 .. n - e |-> g[e + i]]
<1>1. f \in [1 .. e -> T] /\ s \in [1 .. n - e -> T]
  <2>1. \A i \in 1 .. e : i \in 1 .. n
    OBVIOUS
  <2>2. \A i \in 1 .. n - e : e + i \in 1 .. n
    OBVIOUS
  <2>. QED  BY <2>1, <2>2
<1>2. \A i \in 1 .. e : f[i] = g[i]
  OBVIOUS
<1>3. \A i \in 1 .. n - e : s[i] = g[e + i]
  OBVIOUS
<1>. HIDE DEF T, f, s
<1>4. f \in Seq(T) /\ s \in Seq(T) /\ Len(f) = e /\ Len(s) = n - e
  BY <1>1
<1>. DEFINE h == f \o s
<1>5. /\ h \in Seq(T) /\ Len(h) = e + (n - e)
      /\ \A i \in 1 .. e + (n - e) : h[i] = IF i <= e THEN f[i] ELSE s[i - e]
  <2>1. /\ h \in Seq(T) /\ Len(h) = Len(f) + Len(s)
        /\ \A i \in 1 .. Len(f) + Len(s) : h[i] = IF i <= Len(f) THEN f[i] ELSE s[i - Len(f)]
    BY <1>4, ConcatProperties, Zenon
  <2>. HIDE DEF h
  <2>. QED  BY <1>4, <2>1
<1>. HIDE DEF h
<1>6. h \in Seq(T) /\ Len(h) = n /\ e + (n - e) = n
  BY <1>5
<1>7. \A i \in 1 .. n : h[i] = g[i]
  <2>. TAKE i \in 1 .. n
  <2>1. CASE i =< e
    <3>1. i \in 1 .. e /\ i \in 1 .. e + (n - e)
      BY <2>1
    <3>. QED  BY <1>2, <1>5, <2>1, <3>1
  <2>2. CASE ~ (i =< e)
    <3>1. i - e \in 1 .. n - e /\ e + (i - e) = i /\ i \in 1 .. e + (n - e)
      BY <2>2
    <3>2. h[i] = s[i - e]
      BY <1>5, <2>2, <3>1
    <3>. QED  BY <1>3, <3>1, <3>2
  <2>. QED  BY <2>1, <2>2
<1>8. h = [i \in 1 .. n |-> h[i]]
  BY <1>6
<1>9. h = g
  BY <1>7, <1>8
<1>. QED  BY <1>9 DEF f, s, h

\* The two copies of a wrapped record put together are the record.
LEMMA CopyIs ==
  ASSUME TypeOK, cpu \in Core, RingInv(cpu), Unread(cpu) > 0,
         ToEnd < Header.size
  PROVE  CopyWrapped = Record(First(cpu).id, First(cpu).size)
<1>1. PICK p, n, id :
        /\ p = Begin(cpu) /\ n = First(cpu).size /\ id = First(cpu).id
  OBVIOUS
<1>. DEFINE e == Size - p
            g == Record(id, n)
<1>2. /\ p \in Pos /\ First(cpu) = ring[cpu][p] /\ n \in Nat \ {0} /\ n < Size
      /\ \A i \in 1 .. n :
           ring[cpu][IF p + (i - 1) < Size THEN p + (i - 1) ELSE p + (i - 1) - Size]
             = [id |-> id, part |-> i - 1, size |-> n]
  BY <1>1, FirstRecord
<1>3. Start = p /\ ToEnd = e /\ Header.size = n
  BY <1>1, <1>2 DEF Start, ToEnd, Header, Begin
<1>4. e \in Nat \ {0} /\ e < n /\ p \in 0 .. Size - 1 /\ Size \in Nat
  BY <1>2, <1>3, Sizes DEF Pos
<1>5. CopyWrapped = [i \in 1 .. e |-> ring[cpu][p + i - 1]]
                      \o [i \in 1 .. n - e |-> ring[cpu][i - 1]]
  BY <1>3 DEF CopyWrapped
<1>6. \A i \in 1 .. n : g[i] = [id |-> id, part |-> i - 1, size |-> n]
  BY DEF Record
<1>7. DOMAIN g = 1 .. n /\ g = [i \in 1 .. n |-> g[i]]
  BY DEF Record
<1>. HIDE DEF g
<1>8. \A i \in 1 .. e : ring[cpu][p + i - 1] = g[i]
  <2>. TAKE i \in 1 .. e
  <2>1. p + (i - 1) < Size /\ p + (i - 1) = p + i - 1 /\ i \in 1 .. n
    BY <1>2, <1>4
  <2>. QED  BY <1>2, <1>6, <2>1
<1>9. \A i \in 1 .. n - e : ring[cpu][i - 1] = g[e + i]
  <2>. TAKE i \in 1 .. n - e
  <2>1. /\ ~ (p + ((e + i) - 1) < Size) /\ p + ((e + i) - 1) - Size = i - 1
        /\ e + i \in 1 .. n
    BY <1>2, <1>4
  <2>. HIDE DEF e
  <2>. QED  BY <1>2, <1>6, <2>1
<1>. HIDE DEF e
<1>10. CopyWrapped = [i \in 1 .. e |-> g[i]] \o [i \in 1 .. n - e |-> g[e + i]]
  BY <1>5, <1>8, <1>9
<1>11. CopyWrapped = g
  BY <1>2, <1>4, <1>7, <1>10, Joined
<1>. QED  BY <1>1, <1>11 DEF g

\* The worker finds a record, or none, or takes a ring that was not mapped.
LEMMA PollStep == RInv /\ Poll => RInv'
<1>. SUFFICES ASSUME RInv, Poll PROVE RInv'
  OBVIOUS
<1>1. cpu \in Core /\ at \in 1 .. Len(registered) /\ Len(registered) =< NumCores /\ pc = "poll"
  BY CpuIs DEF Poll, RInv
<1>2. /\ UNCHANGED <<ring, head, last, tail, core, registered, mapped, stop, freed, delivered>>
      /\ TypeOK /\ WorkerInv /\ RingInv(cpu) /\ ~freed
  BY <1>1 DEF Poll, kernel, list, RInv, WorkerInv
<1>3. CASE cpu \notin mapped /\ Crash
  <2>1. pc' = "crashed" /\ UNCHANGED <<at, count, ph, temp>>
    BY <1>3 DEF Crash, local
  <2>2. TypeOK'
    BY <1>2, <2>1 DEF TypeOK
  <2>3. cpu' = cpu /\ WorkerInv'
    BY <1>1, <1>2, <1>3, <2>1 DEF WorkerInv, NeverSplit, cpu
  <2>4. ASSUME NEW c \in Core PROVE RingInv(c)'
    <3>1. Handed(c)' = Handed(c)
      BY <1>1, <2>1 DEF Handed
    <3>. QED  BY <1>2, <3>1, RingKept DEF RInv
  <2>. QED  BY <2>2, <2>3, <2>4 DEF RInv
<1>4. CASE LeaveCore
  <2>1. pc' = "core" /\ at' = at + 1 /\ UNCHANGED <<count, ph, temp>>
    BY <1>4 DEF LeaveCore
  <2>2. at + 1 \in 1 .. NumCores + 1 /\ count \in 0 .. Batch
    BY <1>1, <1>2, CountAssumption DEF TypeOK
  <2>. QED  BY <1>1, <1>2, <2>1, <2>2, WalkStep
<1>5. CASE cpu \in mapped /\ ~Done
  <2>. DEFINE p == Begin(cpu)
              n == First(cpu).size
  <2>1. Unread(cpu) > 0 /\ count < Batch
    <3>1. head[cpu] # tail[cpu] /\ count # Batch
      BY <1>5 DEF Done
    <3>2. Unread(cpu) # 0 /\ Unread(cpu) \in Nat
      BY <1>1, <1>2, <3>1, RingTypes, Distance DEF Unread
    <3>. QED  BY <1>2, <3>1, <3>2, CountAssumption DEF TypeOK
  <2>2. /\ p \in Pos /\ First(cpu) = ring[cpu][p] /\ n \in Nat \ {0} /\ n =< MaxEvent
        /\ n \in RecordSizes[cpu] /\ n < Size /\ Size - p >= HeaderSize
    BY <1>1, <1>2, <2>1, FirstRecord
  <2>3. Start = p /\ ToEnd = Size - p /\ Header.size = n
    BY <2>2 DEF Start, ToEnd, Header, Begin
  <2>4. ~Split
    BY <2>2, <2>3, Sizes DEF Split, Pos
  <2>5. Take
    BY <1>2, <1>5, <2>4 DEF Poll
  <2>6. /\ pc' = "handle" /\ ph' = p /\ UNCHANGED <<at, count>>
        /\ temp' = IF ToEnd < Header.size THEN CopyWrapped ELSE <<>>
    BY <2>3, <2>5 DEF Take
  <2>7. CASE ToEnd < Header.size
    <3>1. temp' = Record(First(cpu).id, n)
      BY <1>1, <1>2, <2>1, <2>6, <2>7, CopyIs
    <3>2. temp' \in Seq(Slot) /\ temp' # <<>>
      <4>1. First(cpu).id \in Ids
        BY <1>1, <1>2, <2>2, RingTypes, SlotIs
      <4>2. \A i \in 1 .. n : [id |-> First(cpu).id, part |-> i - 1, size |-> n] \in Slot
        BY <1>1, <2>2, <4>1, Sizes DEF Slot, Ids
      <4>. HIDE DEF n
      <4>3. temp' \in [1 .. n -> Slot]
        BY <3>1, <4>2 DEF Record
      <4>. QED  BY <2>2, <4>3
    <3>. QED  BY <1>1, <1>2, <1>5, <2>1, <2>2, <2>6, <3>1, <3>2, TakeStep
  <2>8. CASE ~ (ToEnd < Header.size)
    <3>1. p + n =< Size
      BY <2>2, <2>3, <2>8, Sizes DEF Pos
    <3>2. temp' = <<>> /\ temp' \in Seq(Slot)
      BY <2>6, <2>8
    <3>. QED  BY <1>1, <1>2, <1>5, <2>1, <2>2, <2>6, <3>1, <3>2, TakeStep
  <2>. QED  BY <2>7, <2>8
<1>. QED  BY <1>2, <1>3, <1>4, <1>5 DEF Poll

\* The worker hands over the record, from the ring or from its copy.
LEMMA HandleStep == RInv /\ Handle => RInv'
<1>. SUFFICES ASSUME RInv, Handle PROVE RInv'
  OBVIOUS
<1>1. pc = "handle" /\ cpu \in Core /\ Holding /\ TypeOK
  BY CpuIs DEF Handle, RInv, WorkerInv
<1>2. /\ UNCHANGED <<ring, head, last, tail, core, registered, mapped, stop, freed>>
      /\ UNCHANGED <<at, count, ph, temp>>
      /\ pc' = "advance" /\ delivered' = [delivered EXCEPT ![cpu] = Successor(@)]
  BY DEF Handle, kernel, list, local
<1>3. cpu' = cpu
  BY <1>2 DEF cpu
<1>4. Successor(delivered[cpu]) \in Ids
  BY <1>1, RingTypes, SuccessorIs
<1>5. TypeOK'
  <2>1. delivered' \in [Core -> 0 .. RecordIds - 1]
    BY <1>1, <1>2, <1>4 DEF TypeOK, Ids
  <2>. QED  BY <1>1, <1>2, <2>1 DEF TypeOK
<1>6. Holding'
  <2>1. Unread(cpu)' > 0 /\ Begin(cpu)' = Begin(cpu) /\ First(cpu)' = First(cpu)
    BY <1>1, <1>2, <1>3 DEF Holding, Unread, Begin, First
  <2>. QED  BY <1>1, <1>2, <1>3, <2>1, HoldingKept
<1>7. WorkerInv'
  BY <1>2, <1>6, <1>1 DEF RInv, WorkerInv, NeverSplit
<1>8. ASSUME NEW c \in Core PROVE RingInv(c)'
  <2>1. CASE c # cpu
    <3>1. delivered'[c] = delivered[c]
      BY <1>1, <1>2, <2>1 DEF TypeOK
    <3>2. Handed(c)' = Handed(c)
      BY <1>1, <1>3, <2>1 DEF Handed
    <3>. QED  BY <1>2, <3>1, <3>2, RingKept DEF RInv
  <2>2. CASE c = cpu
    <3>1. Handed(c)' /\ ~Handed(c) /\ delivered'[c] = Successor(delivered[c])
      BY <1>1, <1>2, <1>3, <2>2 DEF Handed, TypeOK
    <3>2. Unread(c)' = Unread(c) /\ Begin(c)' = Begin(c) /\ First(c)' = First(c)
      BY <1>2 DEF Unread, Begin, First
    <3>3. Unread(c) > 0 /\ RingInv(c)
      BY <1>1, <2>2 DEF Holding, RInv
    <3>4. Records(c, ring'[c], Begin(c)', Unread(c)', last'[c])
      BY <1>2, <3>2, <3>3 DEF RingInv
    <3>5. tail'[c] = tail[c]
      BY <1>2
    <3>. QED  BY <3>1, <3>2, <3>3, <3>4, <3>5 DEF RingInv
  <2>. QED  BY <2>1, <2>2
<1>. QED  BY <1>5, <1>7, <1>8 DEF RInv

\* A ring the worker gives a record back to.
LEMMA RingReturned ==
  ASSUME TypeOK, NEW c \in Core, RingInv(c), Unread(c) > 0, Handed(c), ~Handed(c)',
         NEW n, n = First(c).size,
         ring'[c] = Dropped(ring[c], Begin(c), n), tail'[c] = (tail[c] + n) % Wrap,
         head'[c] = head[c], last'[c] = last[c], delivered'[c] = delivered[c]
  PROVE  RingInv(c)'
<1>. DEFINE u == Unread(c)
            p == Begin(c)
            r == ring[c]
            q == Dropped(r, p, n)
            b == (p + n) % Size
<1>1. /\ r \in [Pos -> Slot] /\ head[c] \in Counters /\ tail[c] \in Counters
      /\ last[c] \in Ids /\ p \in Pos /\ u \in Nat /\ u < Size
      /\ Size \in Nat /\ Wrap \in Nat
  BY RingTypes, Sizes DEF RingInv
<1>2. /\ n \in RecordSizes[c] /\ n \in Nat \ {0} /\ n =< u
      /\ Records(c, q, b, u - n, last[c])
      /\ u = n => First(c).id = last[c]
      /\ u # n => At(q, b, 0).part = 0 /\ At(q, b, 0).id = Successor(First(c).id)
  BY <1>1, RecordDropped DEF RingInv, First
<1>3. n % HeaderSize = 0
  BY <1>2, Sizes
<1>4. Unread(c)' = u - n /\ Begin(c)' = b /\ tail'[c] % HeaderSize = 0
  <2>1. n =< (head[c] - tail[c]) % Wrap /\ tail[c] % HeaderSize = 0 /\ n \in Nat
    BY <1>2 DEF Unread, RingInv
  <2>2. /\ (head[c] - ((tail[c] + n) % Wrap)) % Wrap = ((head[c] - tail[c]) % Wrap) - n
        /\ ((tail[c] + n) % Wrap) % Size = ((tail[c] % Size) + n) % Size
        /\ ((tail[c] + n) % Wrap) % HeaderSize = 0
    BY <1>1, <1>3, <2>1, TailMoved
  <2>. QED  BY <2>2 DEF Unread, Begin
<1>5. First(c)' = At(q, b, 0)
  BY <1>4 DEF First
<1>6. First(c).id = delivered[c]
  BY DEF RingInv
<1>7. Records(c, ring'[c], Begin(c)', Unread(c)', last'[c])
  BY <1>2, <1>4
<1>8. Unread(c)' < Size /\ (Unread(c)' = 0 <=> u = n)
  BY <1>1, <1>2, <1>4
<1>. HIDE DEF u, p, r, q, b
<1>. QED  BY <1>2, <1>4, <1>5, <1>6, <1>7, <1>8 DEF RingInv

\* The worker gives the record back, and goes on in the ring or leaves it.
LEMMA AdvanceStep == RInv /\ Advance => RInv'
<1>. SUFFICES ASSUME RInv, Advance PROVE RInv'
  OBVIOUS
<1>. DEFINE p == Begin(cpu)
            n == First(cpu).size
            q == Dropped(ring[cpu], p, n)
<1>1. pc = "advance" /\ cpu \in Core /\ Holding /\ TypeOK /\ at =< Len(registered) /\ ~freed
  BY CpuIs DEF Advance, RInv, WorkerInv
<1>2. View[1].size = n /\ n \in Nat \ {0}
  BY <1>1, ViewIs
<1>3. /\ UNCHANGED <<head, last, core, registered, mapped, stop, freed, at, delivered>>
      /\ pc' = "poll" /\ count' = count + 1 /\ ph' = 0 /\ temp' = <<>>
      /\ tail' = [tail EXCEPT ![cpu] = (@ + n) % Wrap]
  BY <1>2 DEF Advance, GiveBack, list
<1>4. ring' = [ring EXCEPT ![cpu] = q]
  <2>1. ring' = [ring EXCEPT ![cpu] =
                   [i \in Pos |-> IF (i - p) % Size < n THEN Unknown ELSE ring[cpu][i]]]
    BY <1>1, <1>2 DEF Advance, GiveBack, Start, Begin, TypeOK
  <2>. QED  BY <2>1 DEF Dropped
<1>5. ring[cpu] \in [Pos -> Slot] /\ tail[cpu] \in Counters /\ p \in Pos
  BY <1>1, RingTypes
<1>. HIDE DEF n
<1>6. q \in [Pos -> Slot]
  <2>1. Unknown \in Slot
    BY DEF Slot
  <2>. QED  BY <1>5, <2>1 DEF Dropped
<1>. HIDE DEF q
<1>7. TypeOK'
  <2>1. ring' \in [Core -> [Pos -> Slot]]
    BY <1>1, <1>4, <1>6 DEF TypeOK
  <2>2. tail' \in [Core -> 0 .. Wrap - 1]
    <3>1. tail[cpu] + n \in Int /\ Wrap \in Nat \ {0}
      BY <1>2, <1>5, Sizes DEF Counters
    <3>2. (tail[cpu] + n) % Wrap \in 0 .. Wrap - 1
      BY <3>1, ModRange
    <3>. QED  BY <1>1, <1>3, <3>2 DEF TypeOK
  <2>3. count' \in 0 .. Batch /\ 0 \in Pos /\ temp' \in Seq(Slot)
    BY <1>1, <1>3, Sizes, CountAssumption DEF TypeOK, Holding, Pos
  <2>. QED  BY <1>1, <1>3, <2>1, <2>2, <2>3 DEF TypeOK
<1>8. WorkerInv'
  BY <1>1, <1>3 DEF RInv, WorkerInv, NeverSplit
<1>9. ASSUME NEW c \in Core PROVE RingInv(c)'
  <2>1. ~Handed(c)'
    BY <1>3 DEF Handed
  <2>2. CASE c # cpu
    <3>1. Handed(c)' = Handed(c)
      BY <1>3, <2>2 DEF Handed
    <3>2. ring'[c] = ring[c] /\ tail'[c] = tail[c]
      BY <1>1, <1>3, <1>4, <2>2 DEF TypeOK
    <3>. QED  BY <1>3, <2>1, <3>1, <3>2, RingKept DEF RInv
  <2>3. CASE c = cpu
    <3>1. ring'[cpu] = q /\ tail'[cpu] = (tail[cpu] + n) % Wrap
      BY <1>1, <1>3, <1>4 DEF TypeOK
    <3>2. Handed(cpu) /\ Unread(cpu) > 0 /\ RingInv(cpu)
      BY <1>1 DEF Handed, Holding, RInv
    <3>. QED  BY <1>1, <1>3, <2>1, <2>3, <3>1, <3>2, RingReturned DEF n, q
  <2>. QED  BY <2>2, <2>3
<1>. QED  BY <1>7, <1>8, <1>9 DEF RInv

-----------------------------------------------------------------------------
(* The theorems.                                                           *)

\* The invariant holds in every state.
THEOREM RInvariance == Spec => []RInv
<1>1. RInv /\ [Next]_vars => RInv'
  BY ProduceStep, MainStep, CheckStep, EnterStep, PollStep, HandleStep, AdvanceStep
     DEF Next, Worker
<1>. QED  BY InitRInv, <1>1, PTL DEF Spec

\* The types of the rings, the list of cores and the worker.
THEOREM SamplerTypes == Spec => []TypeOK
<1>1. RInv => TypeOK
  BY DEF RInv
<1>. QED  BY <1>1, RInvariance, PTL

\* A receiver is given each record whole and in its turn, although the kernel
\* writes while it looks and the record may go around the end of the ring.
THEOREM Delivery == Spec => []DeliversNextIntact
<1>1. RInv => DeliversNextIntact
  <2>. SUFFICES ASSUME RInv, pc = "handle"
                PROVE  /\ Len(View) > 0
                       /\ View = [i \in 1 .. View[1].size |->
                                    [id |-> Successor(delivered[cpu]),
                                     part |-> i - 1, size |-> View[1].size]]
    BY DEF DeliversNextIntact
  <2>1. PICK n, id : n = First(cpu).size /\ id = First(cpu).id
    OBVIOUS
  <2>2. View = Record(id, n) /\ n \in Nat \ {0} /\ View[1].size = n
    BY <2>1, ViewIs
  <2>3. id = Successor(delivered[cpu])
    <3>1. cpu \in Core /\ Unread(cpu) > 0 /\ RingInv(cpu) /\ ~Handed(cpu)
      BY CpuIs DEF RInv, WorkerInv, Holding, Handed
    <3>. QED  BY <2>1, <3>1 DEF RingInv
  <2>4. Len(View) = n
    BY <2>2 DEF Record
  <2>. QED  BY <2>2, <2>3, <2>4 DEF Record
<1>. QED  BY <1>1, RInvariance, PTL

\* The program never ends at a header or a record it cannot put together, nor at
\* a ring that was freed.
THEOREM WholeRecords == Spec => []NeverSplit
<1>1. RInv => NeverSplit
  BY DEF RInv, WorkerInv
<1>. QED  BY <1>1, RInvariance, PTL

\* Every record the kernel had room for is handed over before the ring is empty,
\* and counts as read only then.
THEOREM NoneLost == Spec => []NothingSkipped
<1>1. RInv => NothingSkipped
  <2>. SUFFICES ASSUME RInv, NEW c \in Core
                PROVE  (last[c] = delivered[c]) =
                         (Unread(c) = (IF pc = "advance" /\ cpu = c THEN View[1].size ELSE 0))
    BY DEF NothingSkipped
  <2>. DEFINE u == Unread(c)
              p == Begin(c)
              r == ring[c]
              f == First(c)
              n == f.size
  <2>1. /\ TypeOK /\ RingInv(c) /\ last[c] \in Ids /\ delivered[c] \in Ids
        /\ r \in [Pos -> Slot] /\ p \in Pos /\ u \in Nat /\ u < Size
    BY RingTypes DEF RInv, RingInv
  \* No record behind the first one is its predecessor's number away.
  <2>2. ASSUME NEW k \in 0 .. u - 1, NEW d \in Ids,
               At(r, p, k).part = 0, At(r, p, k).id = Successor(d)
        PROVE  last[c] # d
    <3>1. Counted(r, p, u, last[c], k)
      BY <2>1, <2>2 DEF RingInv, Records
    <3>2. Ahead(last[c], Successor(d)) \in Nat /\ u - k \in Nat /\ u - k < Size
      <4>1. Successor(d) \in Int /\ last[c] \in Int /\ RecordIds \in Nat \ {0}
        BY <2>1, SuccessorIs, Sizes DEF Ids
      <4>2. last[c] - Successor(d) \in Int
        BY <4>1
      <4>3. (last[c] - Successor(d)) % RecordIds \in 0 .. RecordIds - 1
        BY <4>1, <4>2, ModRange
      <4>4. Ahead(last[c], Successor(d)) \in Nat
        BY <4>1, <4>3 DEF Ahead
      <4>5. Size \in Nat
        BY Sizes
      <4>. HIDE DEF u
      <4>. QED  BY <2>1, <4>4, <4>5
    <3>3. (Ahead(last[c], Successor(d)) + 1) * Size < RecordIds * (u - k)
      BY <2>2, <3>1 DEF Counted, Ahead
    <3>4. Ahead(last[c], Successor(d)) + 1 < RecordIds
      BY <3>2, <3>3, CountedFew
    <3>5. Ahead(d, Successor(d)) = RecordIds - 1
      BY AheadOfSuccessor
    <3>. QED  BY <3>4, <3>5, Sizes
  <2>3. CASE pc = "advance" /\ cpu = c
    <3>1. Handed(c) /\ View[1].size = n /\ u > 0
      BY <2>3, ViewIs DEF Handed, RInv, WorkerInv, Holding
    <3>2. f.id = delivered[c] /\ f.part = 0
      BY <2>1, <3>1 DEF RingInv
    <3>3. Whole(c, r, p, u, 0) /\ Followed(r, p, u, last[c], 0)
      BY <2>1, <3>1, <3>2 DEF RingInv, Records, First
    <3>4. n \in Nat \ {0} /\ n =< u
      BY <3>3, Sizes DEF Whole, First
    <3>5. u = n => last[c] = delivered[c]
      BY <3>2, <3>3, <3>4 DEF Followed, First
    <3>6. u # n => last[c] # delivered[c]
      <4>. SUFFICES ASSUME u # n PROVE last[c] # delivered[c]
        OBVIOUS
      <4>1. At(r, p, n).part = 0 /\ At(r, p, n).id = Successor(delivered[c])
        BY <3>2, <3>3, <3>4 DEF Followed, First
      <4>2. n \in 0 .. u - 1
        BY <2>1, <3>4
      <4>. QED  BY <2>1, <2>2, <4>1, <4>2
    <3>. QED  BY <2>3, <3>1, <3>5, <3>6
  <2>4. CASE ~ (pc = "advance" /\ cpu = c)
    <3>1. ~Handed(c)
      BY <2>4 DEF Handed
    <3>2. u = 0 => last[c] = delivered[c]
      BY <2>1 DEF RingInv
    <3>3. u # 0 => last[c] # delivered[c]
      <4>. SUFFICES ASSUME u # 0 PROVE last[c] # delivered[c]
        OBVIOUS
      <4>1. At(r, p, 0).part = 0 /\ At(r, p, 0).id = Successor(delivered[c])
        BY <2>1, <3>1 DEF RingInv, First
      <4>2. 0 \in 0 .. u - 1
        BY <2>1
      <4>. QED  BY <2>1, <2>2, <4>1, <4>2
    <3>. QED  BY <2>4, <3>2, <3>3
  <2>. QED  BY <2>3, <2>4
<1>. QED  BY <1>1, RInvariance, PTL
=============================================================================
