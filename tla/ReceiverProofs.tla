---------------------------- MODULE ReceiverProofs ----------------------------
(***************************************************************************)
(* Theorems about the lists of CPUs, the cache of mocks, the lookup of     *)
(* mounts and the receiver, for lists of any length, any number of CPUs,   *)
(* processes, mocks and mounts, names of any length, and any expiry.       *)
(*                                                                         *)
(* Two loops of the code are recursive functions in the model.  That there *)
(* is a function with the value of every round is proved first, and what   *)
(* the loop comes to by induction over its rounds.                         *)
(***************************************************************************)
EXTENDS Receiver, ListOpsProofs

-----------------------------------------------------------------------------
(* cpu_in_cpulist.                                                         *)

\* One round of the loop of cpu_in_cpulist, at the token i; g has what the rounds
\* after it come to.
Round(list, cpu, g, i) ==
  /\ Number(list, i)
  /\ IF Has(list, i + 1, Dash)
     THEN Number(list, i + 2) /\ (RangeHas(list, i, cpu) \/ g[i + 4])
     ELSE \/ (Has(list, i + 1, Comma) \/ i = Len(list)) /\ cpu = list[i]
          \/ g[i + 2]

\* There is a function with the outcome of every round.
LEMMA RoundsExist ==
  ASSUME NEW list \in Seq(Int), NEW cpu \in Int
  PROVE  \E g : g = [i \in 1 .. Len(list) + 4 |-> Round(list, cpu, g, i)]
<1>. DEFINE N == Len(list) + 4
            Last(g, k) == \A i \in 1 .. N : i > N - k => g[i] = Round(list, cpu, g, i)
            S == {k \in Nat : k =< N => \E g \in [1 .. N -> BOOLEAN] : Last(g, k)}
<1>1. N \in Nat /\ Len(list) \in Nat /\ DOMAIN list = 1 .. Len(list)
  OBVIOUS
<1>2. \A g, i : Round(list, cpu, g, i) \in BOOLEAN
  BY DEF Round, Number
<1>3. \A g, h : \A i \in 1 .. N :
        (\A j \in 1 .. N : j > i => g[j] = h[j]) => Round(list, cpu, g, i) = Round(list, cpu, h, i)
  <2>. SUFFICES ASSUME NEW g, NEW h, NEW i \in 1 .. N, \A j \in 1 .. N : j > i => g[j] = h[j]
                PROVE  Round(list, cpu, g, i) = Round(list, cpu, h, i)
    OBVIOUS
  <2>1. CASE i \in DOMAIN list
    <3>1. i + 2 \in 1 .. N /\ i + 4 \in 1 .. N /\ i + 2 > i /\ i + 4 > i
      BY <1>1, <2>1
    <3>2. g[i + 2] = h[i + 2] /\ g[i + 4] = h[i + 4]
      BY <3>1
    <3>. QED  BY <3>2 DEF Round
  <2>2. CASE i \notin DOMAIN list
    BY <2>2 DEF Round, Number
  <2>. QED  BY <2>1, <2>2
<1>4. 0 \in S
  <2>1. [i \in 1 .. N |-> FALSE] \in [1 .. N -> BOOLEAN]
    OBVIOUS
  <2>2. Last([i \in 1 .. N |-> FALSE], 0)
    BY <1>1
  <2>. QED  BY <2>1, <2>2
<1>5. ASSUME NEW k \in Nat, k \in S PROVE k + 1 \in S
  <2>. SUFFICES ASSUME k + 1 =< N PROVE \E g \in [1 .. N -> BOOLEAN] : Last(g, k + 1)
    OBVIOUS
  <2>1. PICK g \in [1 .. N -> BOOLEAN] : Last(g, k)
    BY <1>1, <1>5
  <2>. DEFINE n == N - k
              h == [g EXCEPT ![n] = Round(list, cpu, g, n)]
  <2>2. n \in 1 .. N
    BY <1>1
  <2>3. h \in [1 .. N -> BOOLEAN] /\ h[n] = Round(list, cpu, g, n)
        /\ \A i \in 1 .. N : i # n => h[i] = g[i]
    BY <1>2, <2>2
  <2>. HIDE DEF h, n
  <2>4. \A i \in 1 .. N : i >= n => Round(list, cpu, g, i) = Round(list, cpu, h, i)
    BY <1>1, <1>3, <2>2, <2>3
  <2>5. ASSUME NEW i \in 1 .. N, i > N - (k + 1)
        PROVE  h[i] = Round(list, cpu, h, i)
    <3>1. i = n \/ (i # n /\ i > N - k)
      BY <1>1, <2>5 DEF n
    <3>2. i >= n
      BY <1>1, <2>5 DEF n
    <3>3. CASE i = n
      BY <2>3, <2>4, <3>2, <3>3
    <3>4. CASE i # n /\ i > N - k
      BY <2>1, <2>3, <2>4, <3>2, <3>4
    <3>. QED  BY <3>1, <3>3, <3>4
  <2>. QED  BY <2>3, <2>5
<1>. HIDE DEF S
<1>6. N \in S
  BY <1>1, <1>4, <1>5, SetInduction
<1>7. PICK g \in [1 .. N -> BOOLEAN] : Last(g, N)
  BY <1>1, <1>6 DEF S
<1>8. \A i \in 1 .. N : g[i] = Round(list, cpu, g, i)
  BY <1>1, <1>7
<1>9. g = [i \in 1 .. N |-> Round(list, cpu, g, i)]
  BY <1>8
<1>. QED  BY <1>9

\* Where an item of a well-formed list begins.
Begins(list, i) == i \in Nat /\ i % 2 = 1 /\ ~Has(list, i - 1, Dash)

\* What is denoted from an item on: by the item, or from the next one on.
LEMMA FromItem ==
  ASSUME NEW list \in Seq(Int), NEW cpu \in Int, WellFormed(list),
         NEW i \in 1 .. Len(list), Begins(list, i)
  PROVE  /\ Number(list, i)
         /\ Has(list, i + 1, Dash) =>
              /\ Number(list, i + 2) /\ Begins(list, i + 4)
              /\ (\E j \in DOMAIN list : j >= i /\ Covers(list, j, cpu)) <=>
                   RangeHas(list, i, cpu) \/ \E j \in DOMAIN list : j >= i + 4 /\ Covers(list, j, cpu)
         /\ ~Has(list, i + 1, Dash) =>
              /\ Has(list, i + 1, Comma) \/ i = Len(list)
              /\ Begins(list, i + 2)
              /\ (\E j \in DOMAIN list : j >= i /\ Covers(list, j, cpu)) <=>
                   cpu = list[i] \/ \E j \in DOMAIN list : j >= i + 2 /\ Covers(list, j, cpu)
<1>1. /\ Len(list) \in Nat /\ DOMAIN list = 1 .. Len(list)
      /\ \A j \in DOMAIN list : list[j] \in Int
      /\ Comma = -1 /\ Dash = -2
  BY DEF Comma, Dash
<1>2. /\ Len(list) % 2 = 1
      /\ \A j \in DOMAIN list : j % 2 = 1 => list[j] >= 0
      /\ \A j \in DOMAIN list : j % 2 # 1 =>
           list[j] = Comma \/ (list[j] = Dash /\ ~Has(list, j - 2, Dash))
  BY DEF WellFormed
<1>3. /\ i % 2 = 1 /\ (i + 1) % 2 # 1 /\ (i + 2) % 2 = 1 /\ (i + 3) % 2 # 1 /\ (i + 4) % 2 = 1
      /\ ~Has(list, i - 1, Dash)
  BY <1>1 DEF Begins
<1>4. \A j \in DOMAIN list : j % 2 # 1 => ~Number(list, j)
  BY <1>1, <1>2 DEF Number
<1>5. Number(list, i)
  BY <1>1, <1>2, <1>3 DEF Number
<1>6. i + 1 \in DOMAIN list => i + 2 \in DOMAIN list
  BY <1>1, <1>2, <1>3
<1>7. ASSUME Has(list, i + 1, Dash)
      PROVE  /\ Number(list, i + 2) /\ Begins(list, i + 4)
             /\ (\E j \in DOMAIN list : j >= i /\ Covers(list, j, cpu)) <=>
                  RangeHas(list, i, cpu) \/ \E j \in DOMAIN list : j >= i + 4 /\ Covers(list, j, cpu)
  <2>1. i + 1 \in DOMAIN list /\ i + 2 \in DOMAIN list
    BY <1>6, <1>7 DEF Has
  <2>2. Number(list, i + 2)
    BY <1>2, <1>3, <2>1 DEF Number
  <2>3. ~Has(list, i + 3, Dash)
    <3>1. i + 3 \in DOMAIN list => ~(list[i + 3] = Dash) \/ ~Has(list, (i + 3) - 2, Dash)
      BY <1>1, <1>2, <1>3
    <3>2. (i + 3) - 2 = i + 1
      BY <1>1
    <3>. QED  BY <1>7, <3>1, <3>2 DEF Has
  <2>4. Begins(list, i + 4)
    <3>1. (i + 4) - 1 = i + 3
      OBVIOUS
    <3>. QED  BY <1>3, <2>3, <3>1 DEF Begins
  <2>5. Covers(list, i, cpu) <=> RangeHas(list, i, cpu)
    <3>1. list[i] \in Int /\ list[i + 2] \in Int
      BY <1>1, <2>1
    <3>. QED  BY <1>3, <1>5, <1>7, <3>1 DEF Covers, RangeHas
  <2>6. ~Covers(list, i + 1, cpu) /\ (i + 3 \in DOMAIN list => ~Covers(list, i + 3, cpu))
    BY <1>3, <1>4, <2>1 DEF Covers
  <2>7. ~Covers(list, i + 2, cpu)
    <3>1. (i + 2) - 1 = i + 1
      OBVIOUS
    <3>. QED  BY <1>7, <3>1 DEF Covers
  <2>8. \A j \in DOMAIN list : j >= i => j = i \/ j = i + 1 \/ j = i + 2 \/ j = i + 3 \/ j >= i + 4
    BY <1>1
  <2>9. i \in DOMAIN list /\ \A j \in DOMAIN list : j >= i + 4 => j >= i
    BY <1>1
  <2>10. ASSUME NEW j \in DOMAIN list, j >= i, Covers(list, j, cpu)
         PROVE  RangeHas(list, i, cpu) \/ \E m \in DOMAIN list : m >= i + 4 /\ Covers(list, m, cpu)
    BY <2>5, <2>6, <2>7, <2>8, <2>10
  <2>11. (\E j \in DOMAIN list : j >= i /\ Covers(list, j, cpu)) <=>
           RangeHas(list, i, cpu) \/ \E j \in DOMAIN list : j >= i + 4 /\ Covers(list, j, cpu)
    <3>1. i >= i
      OBVIOUS
    <3>. QED  BY <2>5, <2>9, <2>10, <3>1
  <2>. QED  BY <2>2, <2>4, <2>11
<1>8. ASSUME ~Has(list, i + 1, Dash)
      PROVE  /\ Has(list, i + 1, Comma) \/ i = Len(list)
             /\ Begins(list, i + 2)
             /\ (\E j \in DOMAIN list : j >= i /\ Covers(list, j, cpu)) <=>
                  cpu = list[i] \/ \E j \in DOMAIN list : j >= i + 2 /\ Covers(list, j, cpu)
  <2>1. Has(list, i + 1, Comma) \/ i = Len(list)
    <3>1. CASE i = Len(list)
      BY <3>1
    <3>2. CASE i # Len(list)
      <4>1. i + 1 \in DOMAIN list
        <5>1. Len(list) \in Nat /\ i \in 1 .. Len(list)
          BY <1>1
        <5>2. i + 1 \in 1 .. Len(list)
          BY <3>2, <5>1
        <5>. QED  BY <1>1, <5>2
      <4>2. list[i + 1] = Comma \/ list[i + 1] = Dash
        BY <1>2, <1>3, <4>1
      <4>. QED  BY <1>8, <4>1, <4>2 DEF Has
    <3>. QED  BY <3>1, <3>2
  <2>2. Begins(list, i + 2)
    <3>1. (i + 2) - 1 = i + 1
      OBVIOUS
    <3>. QED  BY <1>3, <1>8, <3>1 DEF Begins
  <2>3. Covers(list, i, cpu) <=> cpu = list[i]
    BY <1>3, <1>5, <1>8 DEF Covers
  <2>4. i + 1 \in DOMAIN list => ~Covers(list, i + 1, cpu)
    BY <1>3, <1>4 DEF Covers
  <2>5. \A j \in DOMAIN list : j >= i => j = i \/ j = i + 1 \/ j >= i + 2
    BY <1>1
  <2>6. i \in DOMAIN list /\ \A j \in DOMAIN list : j >= i + 2 => j >= i
    BY <1>1
  <2>. QED  BY <2>1, <2>2, <2>3, <2>4, <2>5, <2>6
<1>. QED  BY <1>5, <1>7, <1>8

\* cpu_in_cpulist finds a CPU in a well-formed list of any length exactly when
\* the list denotes it.
THEOREM ListsRead ==
  ASSUME NEW list \in Seq(Int), NEW cpu \in Int, WellFormed(list)
  PROVE  CpuInCpulist(list, cpu) <=> Denotes(list, cpu)
<1>. DEFINE N == Len(list) + 4
            from == CHOOSE g : g = [i \in 1 .. N |-> Round(list, cpu, g, i)]
            Rest(i) == \E j \in DOMAIN list : j >= i /\ Covers(list, j, cpu)
            S == {k \in Nat : \A i \in 1 .. N : N - i < k /\ Begins(list, i) => (from[i] <=> Rest(i))}
<1>1. Len(list) \in Nat /\ DOMAIN list = 1 .. Len(list) /\ N \in Nat
  OBVIOUS
<1>2. from = [i \in 1 .. N |-> Round(list, cpu, from, i)]
  BY RoundsExist
<1>3. CpuInCpulist(list, cpu) <=> from[1]
  BY DEF CpuInCpulist, Round
<1>. HIDE DEF from
<1>4. \A i \in 1 .. N : from[i] <=> Round(list, cpu, from, i)
  BY <1>2
<1>5. 0 \in S
  BY <1>1
<1>6. ASSUME NEW k \in Nat, k \in S PROVE k + 1 \in S
  <2>. SUFFICES ASSUME NEW i \in 1 .. N, N - i < k + 1, Begins(list, i)
                PROVE  from[i] <=> Rest(i)
    OBVIOUS
  <2>1. CASE i > Len(list)
    <3>1. ~Number(list, i) /\ ~Rest(i)
      BY <1>1, <2>1 DEF Number
    <3>. QED  BY <1>4, <3>1 DEF Round
  <2>2. CASE i =< Len(list)
    <3>1. i \in 1 .. Len(list) /\ i + 2 \in 1 .. N /\ i + 4 \in 1 .. N
      BY <1>1, <2>2
    <3>2. /\ Begins(list, i + 2) => (from[i + 2] <=> Rest(i + 2))
          /\ Begins(list, i + 4) => (from[i + 4] <=> Rest(i + 4))
      <4>1. N - (i + 2) < k /\ N - (i + 4) < k
        BY <1>1, <3>1
      <4>. QED  BY <1>6, <3>1, <4>1
    <3>3. CASE Has(list, i + 1, Dash)
      <4>1. /\ Number(list, i) /\ Number(list, i + 2) /\ Begins(list, i + 4)
            /\ Rest(i) <=> RangeHas(list, i, cpu) \/ Rest(i + 4)
        BY <3>1, <3>3, FromItem
      <4>. HIDE DEF Rest, S
      <4>. QED  BY <1>4, <3>2, <3>3, <4>1 DEF Round
    <3>4. CASE ~Has(list, i + 1, Dash)
      <4>1. /\ Number(list, i) /\ Begins(list, i + 2)
            /\ Has(list, i + 1, Comma) \/ i = Len(list)
            /\ Rest(i) <=> cpu = list[i] \/ Rest(i + 2)
        BY <3>1, <3>4, FromItem
      <4>. HIDE DEF Rest, S
      <4>. QED  BY <1>4, <3>2, <3>4, <4>1 DEF Round
    <3>. QED  BY <3>3, <3>4
  <2>. QED  BY <1>1, <2>1, <2>2
<1>. HIDE DEF S
<1>7. N \in S
  BY <1>1, <1>5, <1>6, SetInduction
<1>8. Begins(list, 1)
  <2>1. 1 - 1 \notin DOMAIN list
    BY <1>1
  <2>. QED  BY <2>1 DEF Begins, Has
<1>9. 1 \in 1 .. N /\ N - 1 < N
  BY <1>1
<1>10. from[1] <=> Rest(1)
  BY <1>7, <1>8, <1>9 DEF S
<1>11. Rest(1) <=> Denotes(list, cpu)
  BY <1>1 DEF Denotes
<1>. QED  BY <1>3, <1>10, <1>11

-----------------------------------------------------------------------------
(* The CPUs main() registers.                                              *)

\* What main() registers is what the loop over the CPUs makes of its arguments.
CoresInv ==
  phase = "registered" =>
    args \in Arguments /\ groupOf = CoresOf(args[1], args[2])

\* It does not change until the sampler is started.
LEMMA CoresInvariance == RSpec => []CoresInv
<1>1. RInit => CoresInv
  BY DEF RInit, CoresInv
<1>2. CoresInv /\ [RNext]_rvars => CoresInv'
  <2>. SUFFICES ASSUME CoresInv, [RNext]_rvars, phase' = "registered"
                PROVE  (args \in Arguments /\ groupOf = CoresOf(args[1], args[2]))'
    BY DEF CoresInv
  <2>1. CASE RegisterCores
    BY <2>1 DEF RegisterCores, CoresOf, CpuInCpulist, Number, Has, RangeHas, Cpu
  <2>2. CASE UNCHANGED rvars
    BY <2>2 DEF CoresInv, rvars, config, cpus
  <2>3. CASE RNext /\ ~RegisterCores
    BY <2>3 DEF RNext, ReadMounts, Run, Receive, Classify, Drop, Account, Assign, End, Time,
                Running, config
  <2>. QED  BY <2>1, <2>2, <2>3
<1>. QED  BY <1>1, <1>2, PTL DEF RSpec

\* A CPU is sampled, and kept for NVMM, as the lists say.
LEMMA CoresListed ==
  ASSUME NEW all \in Seq(Int), NEW nvmm \in Seq(Int), WellFormed(all), WellFormed(nvmm)
  PROVE  /\ DOMAIN CoresOf(all, nvmm) = {c \in Cpu : Denotes(all, c)}
         /\ \A c \in DOMAIN CoresOf(all, nvmm) :
              CoresOf(all, nvmm)[c] = 1 <=> Denotes(nvmm, c)
<1>1. \A c \in Cpu : c \in Int
  BY CpuAssumption DEF Cpu
<1>2. \A c \in Cpu : CpuInCpulist(all, c) <=> Denotes(all, c)
  BY <1>1, ListsRead
<1>3. \A c \in Cpu : CpuInCpulist(nvmm, c) <=> Denotes(nvmm, c)
  BY <1>1, ListsRead
<1>4. DOMAIN CoresOf(all, nvmm) = {c \in Cpu : CpuInCpulist(all, c)}
  BY DEF CoresOf
<1>5. DOMAIN CoresOf(all, nvmm) = {c \in Cpu : Denotes(all, c)}
  BY <1>2, <1>4
<1>6. ASSUME NEW c \in DOMAIN CoresOf(all, nvmm)
      PROVE  CoresOf(all, nvmm)[c] = 1 <=> Denotes(nvmm, c)
  <2>1. CoresOf(all, nvmm)[c] = IF CpuInCpulist(nvmm, c) THEN 1 ELSE 0
    BY <1>4 DEF CoresOf
  <2>2. CpuInCpulist(nvmm, c) <=> Denotes(nvmm, c)
    BY <1>3, <1>4
  <2>. QED  BY <2>1, <2>2
<1>. QED  BY <1>5, <1>6

\* CpusAsListed, for all arguments: a CPU is sampled when the first list denotes it,
\* and kept for NVMM when the second does as well.
THEOREM CoresAsListed == RSpec => []CpusAsListed
<1>1. CoresInv => CpusAsListed
  <2>. SUFFICES ASSUME CoresInv, phase = "registered", WellFormed(args[1]), WellFormed(args[2])
                PROVE  /\ DOMAIN groupOf = {c \in Cpu : Denotes(args[1], c)}
                       /\ \A c \in DOMAIN groupOf : groupOf[c] = 1 <=> Denotes(args[2], c)
    BY DEF CpusAsListed
  <2>1. args \in Arguments /\ groupOf = CoresOf(args[1], args[2])
    BY DEF CoresInv
  <2>2. args[1] \in Seq(Int) /\ args[2] \in Seq(Int)
    BY <2>1, CpuAssumption
  <2>. QED  BY <2>1, <2>2, CoresListed
<1>. QED  BY <1>1, CoresInvariance, PTL

-----------------------------------------------------------------------------
(* The loop of memmkcache_get.                                             *)

\* What a round of the loop of memmkcache_get leaves of the first i entries.
Pass(g, p, i) ==
  IF i = 0 THEN <<>>
  ELSE IF Kept(cache[i], p)
  THEN Append(g[i - 1], IF cache[i].pid = p THEN Refresh(cache[i]) ELSE cache[i])
  ELSE g[i - 1]

\* No two mocks of c are of one process.
Unique(c) == \A i, j \in DOMAIN c : i # j => c[i].pid # c[j].pid

\* c has the entries of p that are among the first n of the cache, each as held as
\* it is there, and nothing that is not.
Kin(c, p, n) ==
  /\ c \in Seq(Entry)
  /\ \A i \in DOMAIN c : \E j \in 1 .. n : c[i].pid = cache[j].pid
  /\ \A j \in 1 .. n :
       cache[j].pid = p => \E i \in DOMAIN c : c[i].pid = p /\ c[i].held = cache[j].held
  /\ OnePerPid => Unique(c)

\* One element more.
LEMMA AppendIs ==
  ASSUME NEW E, NEW s \in Seq(E), NEW e \in E
  PROVE  /\ Len(s) \in Nat /\ DOMAIN s = 1 .. Len(s)
         /\ Append(s, e) \in Seq(E)
         /\ DOMAIN Append(s, e) = 1 .. Len(s) + 1
         /\ \A i \in DOMAIN s : Append(s, e)[i] = s[i]
         /\ Append(s, e)[Len(s) + 1] = e
  OBVIOUS

\* A round that keeps its entry.
LEMMA AppendKin ==
  ASSUME cache \in Seq(Entry), NEW p \in Pid, NEW c, NEW n \in 1 .. Len(cache),
         Kin(c, p, n - 1), NEW e \in Entry, e.pid = cache[n].pid, e.held = cache[n].held
  PROVE  Kin(Append(c, e), p, n)
<1>. DEFINE d == Append(c, e)
<1>1. c \in Seq(Entry) /\ DOMAIN cache = 1 .. Len(cache) /\ Len(cache) \in Nat
  BY DEF Kin
<1>2. /\ Len(c) \in Nat /\ DOMAIN c = 1 .. Len(c)
      /\ d \in Seq(Entry)
      /\ DOMAIN d = 1 .. Len(c) + 1
      /\ \A i \in DOMAIN c : d[i] = c[i]
      /\ d[Len(c) + 1] = e
  BY <1>1, AppendIs
<1>. HIDE DEF d
<1>3. \A i \in DOMAIN d : i \in DOMAIN c \/ i = Len(c) + 1
  BY <1>2
<1>4. \A j \in 1 .. n : j \in 1 .. n - 1 \/ j = n
  BY <1>1
<1>5. ASSUME NEW i \in DOMAIN d PROVE \E j \in 1 .. n : d[i].pid = cache[j].pid
  <2>1. CASE i \in DOMAIN c
    <3>1. PICK j \in 1 .. n - 1 : c[i].pid = cache[j].pid
      BY <2>1 DEF Kin
    <3>2. j \in 1 .. n
      BY <1>1
    <3>. QED  BY <1>2, <2>1, <3>1, <3>2
  <2>2. CASE i = Len(c) + 1
    <3>1. n \in 1 .. n
      BY <1>1
    <3>. QED  BY <1>2, <2>2, <3>1
  <2>. QED  BY <1>3, <2>1, <2>2
<1>6. ASSUME NEW j \in 1 .. n, cache[j].pid = p
      PROVE  \E i \in DOMAIN d : d[i].pid = p /\ d[i].held = cache[j].held
  <2>1. CASE j \in 1 .. n - 1
    <3>1. PICK i \in DOMAIN c : c[i].pid = p /\ c[i].held = cache[j].held
      BY <1>6, <2>1 DEF Kin
    <3>2. i \in DOMAIN d
      BY <1>2
    <3>. QED  BY <1>2, <3>1, <3>2
  <2>2. CASE j = n
    <3>1. Len(c) + 1 \in DOMAIN d
      BY <1>2
    <3>. QED  BY <1>2, <1>6, <2>2, <3>1
  <2>. QED  BY <1>4, <2>1, <2>2
<1>7. ASSUME OnePerPid PROVE Unique(d)
  <2>1. Unique(c)
    BY <1>7 DEF Kin
  <2>2. ASSUME NEW i \in DOMAIN c PROVE c[i].pid # e.pid
    <3>1. PICK j \in 1 .. n - 1 : c[i].pid = cache[j].pid
      BY DEF Kin
    <3>2. j \in DOMAIN cache /\ n \in DOMAIN cache /\ j # n
      BY <1>1
    <3>. QED  BY <1>7, <3>1, <3>2 DEF OnePerPid
  <2>. QED  BY <1>2, <1>3, <2>1, <2>2 DEF Unique
<1>. QED  BY <1>2, <1>5, <1>6, <1>7 DEF Kin, d

\* A round that purges an entry of another process.
LEMMA SkipKin ==
  ASSUME cache \in Seq(Entry), NEW p \in Pid, NEW c, NEW n \in 1 .. Len(cache),
         Kin(c, p, n - 1), cache[n].pid # p
  PROVE  Kin(c, p, n)
<1>1. Len(cache) \in Nat
  OBVIOUS
<1>2. \A j \in 1 .. n : j \in 1 .. n - 1 \/ j = n
  BY <1>1
<1>3. \A j \in 1 .. n - 1 : j \in 1 .. n
  BY <1>1
<1>. QED  BY <1>2, <1>3 DEF Kin

\* One round.
LEMMA PassKin ==
  ASSUME CacheAssumption, cache \in Seq(Entry), NEW p \in Pid, NEW g,
         NEW n \in 1 .. Len(cache), Kin(g[n - 1], p, n - 1)
  PROVE  Kin(Pass(g, p, n), p, n)
<1>1. cache[n] \in Entry /\ n # 0
  OBVIOUS
<1>2. CASE Kept(cache[n], p)
  <2>. DEFINE e == IF cache[n].pid = p THEN Refresh(cache[n]) ELSE cache[n]
  <2>1. e \in Entry /\ e.pid = cache[n].pid /\ e.held = cache[n].held
    BY <1>1 DEF Refresh, Entry, CacheAssumption
  <2>2. Pass(g, p, n) = Append(g[n - 1], e)
    BY <1>1, <1>2 DEF Pass
  <2>. HIDE DEF e
  <2>. QED  BY <2>1, <2>2, AppendKin
<1>3. CASE ~Kept(cache[n], p)
  <2>1. Pass(g, p, n) = g[n - 1] /\ cache[n].pid # p
    BY <1>1, <1>3 DEF Pass, Kept
  <2>. QED  BY <2>1, SkipKin
<1>. QED  BY <1>2, <1>3

\* Before the first round.
LEMMA NoKin ==
  ASSUME NEW p \in Pid
  PROVE  Kin(<<>>, p, 0)
<1>1. DOMAIN <<>> = {}
  OBVIOUS
<1>2. 1 .. 0 = {}
  OBVIOUS
<1>. QED  BY <1>1, <1>2 DEF Kin, Unique

\* There is a function with what every round of the loop leaves.
LEMMA PassesExist ==
  ASSUME CacheAssumption, cache \in Seq(Entry), NEW p \in Pid
  PROVE  \E g : g = [i \in 0 .. Len(cache) |-> Pass(g, p, i)]
<1>. DEFINE N == Len(cache)
            First(g, k) == \A i \in 0 .. N : i < k => g[i] = Pass(g, p, i)
            S == {k \in Nat : k =< N + 1 => \E g : DOMAIN g = 0 .. N /\ First(g, k)}
<1>1. N \in Nat
  OBVIOUS
<1>. HIDE DEF N
<1>2. 0 \in S
  <2>1. DOMAIN [i \in 0 .. N |-> <<>>] = 0 .. N /\ First([i \in 0 .. N |-> <<>>], 0)
    BY <1>1
  <2>. QED  BY <2>1
<1>3. ASSUME NEW k \in Nat, k \in S PROVE k + 1 \in S
  <2>. SUFFICES ASSUME k + 1 =< N + 1 PROVE \E g : DOMAIN g = 0 .. N /\ First(g, k + 1)
    OBVIOUS
  <2>1. PICK g : DOMAIN g = 0 .. N /\ First(g, k)
    BY <1>1, <1>3
  <2>. DEFINE h == [i \in 0 .. N |-> IF i = k THEN Pass(g, p, k) ELSE g[i]]
  <2>2. DOMAIN h = 0 .. N /\ k \in 0 .. N /\ h[k] = Pass(g, p, k)
        /\ \A i \in 0 .. N : i # k => h[i] = g[i]
    BY <1>1
  <2>. HIDE DEF h
  <2>3. ASSUME NEW i \in 0 .. N, i < k + 1 PROVE h[i] = Pass(h, p, i)
    <3>1. i # 0 => i - 1 \in 0 .. N /\ i - 1 # k
      <4>1. i \in Nat /\ i =< N /\ i < k + 1
        BY <1>1, <2>3
      <4>. QED  BY <1>1, <4>1
    <3>2. i # 0 => h[i - 1] = g[i - 1]
      BY <2>2, <3>1
    <3>3. Pass(h, p, i) = Pass(g, p, i)
      BY <3>2 DEF Pass
    <3>4. i = k \/ (i # k /\ i < k)
      BY <1>1, <2>3
    <3>. QED  BY <2>1, <2>2, <3>3, <3>4
  <2>. QED  BY <2>2, <2>3
<1>. HIDE DEF S
<1>4. N + 1 \in S
  BY <1>1, <1>2, <1>3, SetInduction
<1>5. PICK g : DOMAIN g = 0 .. N /\ First(g, N + 1)
  BY <1>1, <1>4 DEF S
<1>6. \A i \in 0 .. N : g[i] = Pass(g, p, i)
  BY <1>1, <1>5
<1>. DEFINE h == [i \in 0 .. N |-> g[i]]
<1>7. ASSUME NEW i \in 0 .. N PROVE h[i] = Pass(h, p, i)
  <2>1. i # 0 => i - 1 \in 0 .. N
    BY <1>1
  <2>2. i # 0 => h[i - 1] = g[i - 1]
    BY <2>1
  <2>. HIDE DEF h
  <2>3. Pass(h, p, i) = Pass(g, p, i)
    BY <2>2 DEF Pass
  <2>. QED  BY <1>6, <2>3 DEF h
<1>8. h = [i \in 0 .. N |-> Pass(h, p, i)]
  BY <1>7
<1>. QED  BY <1>8 DEF N

\* What the loop of memmkcache_get leaves of the cache.
LEMMA WalkedKin ==
  ASSUME CacheAssumption, cache \in Seq(Entry), NEW p \in Pid
  PROVE  Kin(Walked(p), p, Len(cache))
<1>. DEFINE N == Len(cache)
            kept == CHOOSE g : g = [i \in 0 .. N |-> Pass(g, p, i)]
            S == {k \in Nat : k =< N => Kin(kept[k], p, k)}
<1>1. N \in Nat
  OBVIOUS
<1>2. kept = [i \in 0 .. N |-> Pass(kept, p, i)]
  BY PassesExist
<1>3. Walked(p) = kept[N]
  BY DEF Walked, Pass
<1>. HIDE DEF kept
<1>4. \A i \in 0 .. N : kept[i] = Pass(kept, p, i)
  BY <1>2
<1>5. 0 \in S
  <2>1. kept[0] = <<>>
    BY <1>1, <1>4 DEF Pass
  <2>. QED  BY <2>1, NoKin
<1>6. ASSUME NEW k \in Nat, k \in S PROVE k + 1 \in S
  <2>. SUFFICES ASSUME k + 1 =< N PROVE Kin(kept[k + 1], p, k + 1)
    OBVIOUS
  <2>1. k + 1 \in 1 .. Len(cache) /\ k + 1 \in 0 .. N /\ k =< N /\ (k + 1) - 1 = k
    BY <1>1
  <2>2. Kin(kept[(k + 1) - 1], p, (k + 1) - 1)
    BY <1>6, <2>1
  <2>3. Kin(Pass(kept, p, k + 1), p, k + 1)
    BY <2>1, <2>2, PassKin
  <2>. QED  BY <1>4, <2>1, <2>3
<1>. HIDE DEF S
<1>7. N \in S
  BY <1>1, <1>5, <1>6, SetInduction
<1>. QED  BY <1>1, <1>3, <1>7 DEF S

\* What memmkcache_get leaves: a mock of the process, the one there was if there
\* was one, and no second one.
LEMMA GotIs ==
  ASSUME CacheAssumption, cache \in Seq(Entry), NEW p \in Pid, OnePerPid
  PROVE  /\ Got(p) \in Seq(Entry)
         /\ Unique(Got(p))
         /\ \E i \in DOMAIN Got(p) : Got(p)[i].pid = p
         /\ \A j \in DOMAIN cache :
              cache[j].pid = p =>
                \E i \in DOMAIN Got(p) : Got(p)[i].pid = p /\ Got(p)[i].held = cache[j].held
<1>. DEFINE w == Walked(p)
            e == [pid |-> p, left |-> Expiry, held |-> FALSE]
<1>1. DOMAIN cache = 1 .. Len(cache)
  OBVIOUS
<1>2. /\ w \in Seq(Entry)
      /\ \A i \in DOMAIN w : \E j \in DOMAIN cache : w[i].pid = cache[j].pid
      /\ \A j \in DOMAIN cache :
           cache[j].pid = p => \E i \in DOMAIN w : w[i].pid = p /\ w[i].held = cache[j].held
      /\ Unique(w)
  BY <1>1, WalkedKin DEF Kin
<1>. HIDE DEF w
<1>3. CASE Missing(p)
  <2>1. e \in Entry
    BY DEF Entry, CacheAssumption
  <2>2. e.pid = p /\ Got(p) = Append(w, e)
    BY <1>3 DEF Got, w
  <2>. HIDE DEF e
  <2>3. /\ Len(w) \in Nat /\ DOMAIN w = 1 .. Len(w)
        /\ Append(w, e) \in Seq(Entry)
        /\ DOMAIN Append(w, e) = 1 .. Len(w) + 1
        /\ \A i \in DOMAIN w : Append(w, e)[i] = w[i]
        /\ Append(w, e)[Len(w) + 1] = e
    BY <1>2, <2>1, AppendIs
  <2>4. \A i \in DOMAIN w : w[i].pid # p
    BY <1>2, <1>3 DEF Missing
  <2>5. \A i \in DOMAIN Append(w, e) : i \in DOMAIN w \/ i = Len(w) + 1
    BY <2>3
  <2>6. Unique(Append(w, e))
    BY <1>2, <2>2, <2>3, <2>4, <2>5 DEF Unique
  <2>7. Len(w) + 1 \in DOMAIN Append(w, e)
    BY <2>3
  <2>. QED  BY <1>3, <2>2, <2>3, <2>6, <2>7 DEF Missing
<1>4. CASE ~Missing(p)
  <2>1. Got(p) = w
    BY <1>4 DEF Got, w
  <2>2. PICK j \in DOMAIN cache : cache[j].pid = p
    BY <1>4 DEF Missing
  <2>3. \E i \in DOMAIN w : w[i].pid = p
    BY <1>2, <2>2
  <2>. QED  BY <1>2, <2>1, <2>3
<1>. QED  BY <1>3, <1>4

\* A sequence whose elements are replaced one by one.
LEMMA ReplacedIs ==
  ASSUME NEW E, NEW s \in Seq(E), NEW f \in [DOMAIN s -> E]
  PROVE  f \in Seq(E) /\ DOMAIN f = DOMAIN s
<1>1. Len(s) \in Nat /\ DOMAIN s = 1 .. Len(s)
  OBVIOUS
<1>. QED  BY <1>1

-----------------------------------------------------------------------------
(* The cache and its users.                                                *)

\* The inductive invariant: that an entry is held says something only of a cache with
\* one entry per process.
MockInv == TypeOK /\ OnePerPid /\ HeldStays

\* It holds at the start.
LEMMA MockInit == Init => MockInv
<1>. SUFFICES ASSUME Init PROVE MockInv
  OBVIOUS
<1>1. cache = <<>> /\ DOMAIN <<>> = {} /\ <<>> \in Seq(Entry)
  BY DEF Init
<1>. QED  BY <1>1 DEF Init, MockInv, TypeOK, OnePerPid, HeldStays

\* Every call, every tick and the end of a sample keeps it.
LEMMA MockStep == MockInv /\ [Next]_vars => MockInv'
<1>. SUFFICES ASSUME MockInv, [Next]_vars PROVE MockInv'
  OBVIOUS
<1>1. /\ cache \in Seq(Entry) /\ OnePerPid /\ HeldStays
      /\ pc \in {"idle", "sample", "accounted", "done"} /\ pid \in Pid
  BY DEF MockInv, TypeOK
<1>2. ASSUME NEW p \in Pid, ReceiverGet(p) PROVE MockInv'
  <2>. DEFINE c == Got(p)
  <2>1. c \in Seq(Entry) /\ Unique(c) /\ \E i \in DOMAIN c : c[i].pid = p
    BY <1>1, GotIs, CacheAssumption
  <2>2. cache' = Hold(c, p) /\ pc' = "sample" /\ pid' = p
    BY <1>2 DEF ReceiverGet
  <2>. HIDE DEF c
  <2>3. \A i \in DOMAIN c : c[i] \in Entry
    BY <2>1
  <2>4. Hold(c, p) \in [DOMAIN c -> Entry]
    BY <2>3 DEF Hold, Entry
  <2>5. Hold(c, p) \in Seq(Entry) /\ DOMAIN Hold(c, p) = DOMAIN c
    BY <2>1, <2>4, ReplacedIs
  <2>6. \A i \in DOMAIN c : Hold(c, p)[i].pid = c[i].pid /\ Hold(c, p)[i].held = (c[i].pid = p)
    BY <2>3 DEF Hold, Entry
  <2>7. TypeOK'
    BY <2>2, <2>5 DEF TypeOK
  <2>8. OnePerPid'
    BY <2>1, <2>2, <2>5, <2>6 DEF OnePerPid, Unique
  <2>9. HeldStays'
    <3>1. PICK i \in DOMAIN c : c[i].pid = p
      BY <2>1
    <3>2. Hold(c, p)[i].held /\ Hold(c, p)[i].pid = p
      BY <2>6, <3>1
    <3>. QED  BY <2>2, <2>5, <3>2 DEF HeldStays
  <2>. QED  BY <2>7, <2>8, <2>9 DEF MockInv
<1>3. ASSUME NEW p \in Pid, ReceiverFails(p) PROVE MockInv'
  <2>. DEFINE c == Walked(p)
  <2>1. c \in Seq(Entry) /\ Unique(c)
    BY <1>1, WalkedKin, CacheAssumption DEF Kin
  <2>2. cache' = c /\ pc' = "idle" /\ pid' = p
    BY <1>3 DEF ReceiverFails
  <2>. HIDE DEF c
  <2>. QED  BY <2>1, <2>2 DEF MockInv, TypeOK, OnePerPid, HeldStays, Unique
<1>4. CASE AccountingGet
  <2>. DEFINE c == Got(pid)
  <2>1. /\ c \in Seq(Entry) /\ Unique(c)
        /\ \A j \in DOMAIN cache :
             cache[j].pid = pid => \E i \in DOMAIN c : c[i].pid = pid /\ c[i].held = cache[j].held
    BY <1>1, GotIs, CacheAssumption
  <2>2. cache' = c /\ pc' = "accounted" /\ pid' = pid /\ pc = "sample"
    BY <1>4 DEF AccountingGet
  <2>. HIDE DEF c
  <2>3. PICK j \in DOMAIN cache : cache[j].held /\ cache[j].pid = pid
    BY <1>1, <2>2 DEF HeldStays
  <2>4. PICK i \in DOMAIN c : c[i].pid = pid /\ c[i].held = cache[j].held
    BY <2>1, <2>3
  <2>5. TypeOK'
    BY <1>1, <2>1, <2>2 DEF TypeOK
  <2>6. OnePerPid'
    BY <2>1, <2>2 DEF OnePerPid, Unique
  <2>7. HeldStays'
    BY <2>2, <2>3, <2>4 DEF HeldStays
  <2>. QED  BY <2>5, <2>6, <2>7 DEF MockInv
<1>5. CASE EndSample
  <2>1. \A i \in DOMAIN cache : cache[i] \in Entry
    BY <1>1
  <2>2. /\ cache' = [i \in DOMAIN cache |-> [cache[i] EXCEPT !.held = FALSE]]
        /\ pc' = "idle" /\ pid' = pid
    BY <1>5 DEF EndSample
  <2>3. cache' \in [DOMAIN cache -> Entry] /\ \A i \in DOMAIN cache : cache'[i].pid = cache[i].pid
    BY <2>1, <2>2 DEF Entry
  <2>4. cache' \in Seq(Entry) /\ DOMAIN cache' = DOMAIN cache
    BY <1>1, <2>3, ReplacedIs
  <2>5. TypeOK'
    BY <1>1, <2>2, <2>4 DEF TypeOK
  <2>6. OnePerPid'
    BY <1>1, <2>3, <2>4 DEF OnePerPid
  <2>7. HeldStays'
    BY <2>2 DEF HeldStays
  <2>. QED  BY <2>5, <2>6, <2>7 DEF MockInv
<1>6. CASE Deinit
  <2>1. cache' = <<>> /\ DOMAIN <<>> = {} /\ <<>> \in Seq(Entry) /\ pc' = "done" /\ pid' = pid
    BY <1>6 DEF Deinit
  <2>. QED  BY <1>1, <2>1 DEF MockInv, TypeOK, OnePerPid, HeldStays
<1>7. CASE Tick
  <2>1. \A i \in DOMAIN cache : cache[i] \in Entry
    BY <1>1
  <2>2. /\ cache' = [i \in DOMAIN cache |->
                       [cache[i] EXCEPT !.left = IF @ > 0 THEN @ - 1 ELSE 0]]
        /\ pc' = pc /\ pid' = pid
    BY <1>7 DEF Tick
  <2>3. \A i \in DOMAIN cache : cache'[i].pid = cache[i].pid /\ cache'[i].held = cache[i].held
    BY <2>1, <2>2 DEF Entry
  <2>4. cache' \in [DOMAIN cache -> Entry]
    BY <2>1, <2>2, CacheAssumption DEF Entry, CacheAssumption
  <2>5. cache' \in Seq(Entry) /\ DOMAIN cache' = DOMAIN cache
    BY <1>1, <2>4, ReplacedIs
  <2>6. TypeOK'
    BY <1>1, <2>2, <2>5 DEF TypeOK
  <2>7. OnePerPid'
    BY <1>1, <2>3, <2>5 DEF OnePerPid
  <2>8. HeldStays'
    BY <1>1, <2>2, <2>3, <2>5 DEF HeldStays
  <2>. QED  BY <2>6, <2>7, <2>8 DEF MockInv
<1>8. CASE UNCHANGED vars
  BY <1>8 DEF vars, MockInv, TypeOK, OnePerPid, HeldStays
<1>. QED  BY <1>2, <1>3, <1>4, <1>5, <1>6, <1>7, <1>8 DEF Next

\* What the receiver does to the mocks is what MockCache allows.
THEOREM ReceiverUsesCache == RSpec => Spec
<1>1. RInit => Init
  BY DEF RInit
<1>2. [RNext]_rvars => [Next]_vars
  BY DEF RNext, rvars, ReadMounts, RegisterCores, Run, Receive, Classify, Drop, Account, Assign,
         End, Time, Next
<1>. QED  BY <1>1, <1>2, PTL DEF RSpec, Spec

\* It holds whoever uses the cache as MockCache says.
LEMMA MockInvariance == Spec => []MockInv
BY MockInit, MockStep, PTL DEF Spec

\* OnePerPid, for the receiver: a process has one mock.
THEOREM Mocks == RSpec => []OnePerPid
<1>1. MockInv => OnePerPid
  BY DEF MockInv
<1>. QED  BY <1>1, ReceiverUsesCache, MockInvariance, PTL

\* HeldStays, for the receiver: the mock it points into is not purged by the call the
\* accounting makes meanwhile.
THEOREM Holding == RSpec => []HeldStays
<1>1. MockInv => HeldStays
  BY DEF MockInv
<1>. QED  BY <1>1, ReceiverUsesCache, MockInvariance, PTL

-----------------------------------------------------------------------------
(* The text of a path and what a mount point is of it.                     *)

LOCAL INSTANCE SequencesExt

\* What the text of a path is made of, and what it has of one name.
Letter == Char \cup {"/"}
Piece(p, i) == <<"/">> \o p[i]

\* u has the text of the first names of p, for any number of them.
Spells(p, u) ==
  /\ u \in [0 .. Len(p) -> Seq(Letter)]
  /\ u[0] = <<>>
  /\ \A i \in 1 .. Len(p) : u[i] = u[i - 1] \o Piece(p, i)

\* t is the text s, a slash and the name n.
Prolongs(t, s, n) ==
  /\ s \in Seq(Letter) /\ t \in Seq(Letter) /\ Len(s) \in Nat /\ Len(n) \in Nat \ {0}
  /\ \A k \in 1 .. Len(n) : n[k] # "/"
  /\ Len(t) = Len(s) + 1 + Len(n)
  /\ \A k \in 1 .. Len(s) : t[k] = s[k]
  /\ t[Len(s) + 1] = "/"
  /\ \A k \in 1 .. Len(n) : t[Len(s) + 1 + k] = n[k]

\* t begins with the text s.
Heads(s, t) ==
  /\ s \in Seq(Letter) /\ t \in Seq(Letter) /\ Len(s) \in Nat /\ Len(t) \in Nat
  /\ Len(s) =< Len(t)
  /\ \A k \in 1 .. Len(s) : t[k] = s[k]

\* A name in the text.
LEMMA PieceIs ==
  ASSUME NEW p \in Seq(Name), NEW i \in 1 .. Len(p), NEW s \in Seq(Letter)
  PROVE  Prolongs(s \o Piece(p, i), s, p[i])
<1>. DEFINE n == p[i]
            d == Piece(p, i)
<1>1. n \in Name
  OBVIOUS
<1>2. n \in Seq(Char) /\ n # <<>>
  BY <1>1 DEF Name
<1>3. n \in Seq(Letter) /\ Len(n) \in Nat \ {0} /\ \A k \in 1 .. Len(n) : n[k] \in Letter /\ n[k] # "/"
  BY <1>2, PathAssumption DEF Letter
<1>4. d = <<"/">> \o n
  BY DEF Piece
<1>. HIDE DEF n, d
<1>5. <<"/">> \in Seq(Letter) /\ Len(<<"/">>) = 1 /\ <<"/">>[1] = "/"
  BY DEF Letter
<1>6. /\ d \in Seq(Letter) /\ Len(d) = 1 + Len(n) /\ d[1] = "/"
      /\ \A k \in 1 .. Len(n) : d[1 + k] = n[k]
  BY <1>3, <1>4, <1>5
<1>7. Len(s) \in Nat /\ s \o d \in Seq(Letter) /\ Len(s \o d) = Len(s) + Len(d)
      /\ \A k \in 1 .. Len(s) + Len(d) : (s \o d)[k] = IF k =< Len(s) THEN s[k] ELSE d[k - Len(s)]
  BY <1>6
<1>8. \A k \in 1 .. Len(n) : (s \o d)[Len(s) + 1 + k] = n[k]
  <2>. TAKE k \in 1 .. Len(n)
  <2>1. Len(s) + 1 + k \in 1 .. Len(s) + Len(d) /\ ~(Len(s) + 1 + k =< Len(s))
        /\ (Len(s) + 1 + k) - Len(s) = 1 + k
    BY <1>3, <1>6, <1>7
  <2>2. (s \o d)[Len(s) + 1 + k] = d[(Len(s) + 1 + k) - Len(s)]
    BY <1>7, <2>1
  <2>. QED  BY <1>6, <2>1, <2>2
<1>9. (s \o d)[Len(s) + 1] = "/"
  <2>1. Len(s) + 1 \in 1 .. Len(s) + Len(d) /\ ~(Len(s) + 1 =< Len(s)) /\ (Len(s) + 1) - Len(s) = 1
    BY <1>3, <1>6, <1>7
  <2>2. (s \o d)[Len(s) + 1] = d[(Len(s) + 1) - Len(s)]
    BY <1>7, <2>1
  <2>. QED  BY <1>6, <2>1, <2>2
<1>10. Len(s \o d) = Len(s) + 1 + Len(n) /\ \A k \in 1 .. Len(s) : (s \o d)[k] = s[k]
  BY <1>3, <1>6, <1>7
<1>11. Prolongs(s \o d, s, n)
  BY <1>3, <1>7, <1>8, <1>9, <1>10 DEF Prolongs
<1>. QED  BY <1>11 DEF n, d

\* The flattening of the pieces, as the library has it.
Flat(p, u, i) == IF i = 1 THEN Piece(p, i) ELSE u[i - 1] \o Piece(p, i)

\* So far, the first k names are spelled.
Spelling(p, u, k) ==
  /\ u \in [0 .. Len(p) -> Seq(Letter)] /\ u[0] = <<>>
  /\ \A i \in 1 .. Len(p) : i =< k => u[i] = u[i - 1] \o Piece(p, i)

\* There is a function that spells the path.
LEMMA SpellingExists ==
  ASSUME NEW p \in Seq(Name)
  PROVE  \E u : Spells(p, u)
<1>. DEFINE N == Len(p)
            S == {k \in Nat : k =< N => \E u : Spelling(p, u, k)}
<1>1. N \in Nat
  OBVIOUS
<1>2. 0 \in S
  <2>. DEFINE u == [i \in 0 .. N |-> <<>>]
  <2>1. u \in [0 .. N -> Seq(Letter)] /\ u[0] = <<>>
    BY <1>1
  <2>. HIDE DEF u
  <2>2. Spelling(p, u, 0)
    BY <1>1, <2>1 DEF Spelling
  <2>. QED  BY <2>2
<1>3. ASSUME NEW k \in Nat, k \in S PROVE k + 1 \in S
  <2>. SUFFICES ASSUME k + 1 =< N PROVE \E u : Spelling(p, u, k + 1)
    OBVIOUS
  <2>1. PICK u : Spelling(p, u, k)
    BY <1>1, <1>3
  <2>2. k + 1 \in 1 .. Len(p) /\ k + 1 \in 0 .. N /\ k \in 0 .. N
    BY <1>1
  <2>9. u[k] \in Seq(Letter)
    BY <2>1, <2>2 DEF Spelling
  <2>. DEFINE s == u[k] \o Piece(p, k + 1)
              v == [u EXCEPT ![k + 1] = s]
  <2>3. s \in Seq(Letter)
    <3>1. Prolongs(u[k] \o Piece(p, k + 1), u[k], p[k + 1])
      BY <2>2, <2>9, PieceIs
    <3>. QED  BY <3>1 DEF Prolongs
  <2>. HIDE DEF s
  <2>4. /\ v \in [0 .. N -> Seq(Letter)] /\ v[k + 1] = s
        /\ \A i \in 0 .. N : i # k + 1 => v[i] = u[i]
    BY <2>1, <2>2, <2>3 DEF Spelling
  <2>. HIDE DEF v
  <2>5. v[0] = <<>>
    BY <1>1, <2>1, <2>4 DEF Spelling
  <2>6. ASSUME NEW i \in 1 .. N, i =< k + 1 PROVE v[i] = v[i - 1] \o Piece(p, i)
    <3>1. i - 1 \in 0 .. N /\ i - 1 # k + 1 /\ i \in 0 .. N
      BY <1>1, <2>6
    <3>2. v[i - 1] = u[i - 1]
      BY <2>4, <3>1
    <3>3. CASE i = k + 1
      <4>1. i - 1 = k
        BY <3>3
      <4>. QED  BY <2>4, <3>2, <3>3, <4>1 DEF s
    <3>4. CASE i # k + 1
      <4>1. i =< k
        BY <1>1, <2>6, <3>4
      <4>. QED  BY <2>1, <2>4, <3>1, <3>2, <3>4, <4>1 DEF Spelling
    <3>. QED  BY <3>3, <3>4
  <2>7. Spelling(p, v, k + 1)
    BY <2>4, <2>5, <2>6 DEF Spelling
  <2>. QED  BY <2>7
<1>. HIDE DEF S
<1>4. N \in S
  BY <1>1, <1>2, <1>3, SetInduction
<1>5. PICK u : Spelling(p, u, N)
  BY <1>1, <1>4 DEF S
<1>6. \A i \in 1 .. N : i =< N
  BY <1>1
<1>7. Spells(p, u)
  BY <1>5, <1>6 DEF Spells, Spelling
<1>. QED  BY <1>7

\* The text of a path gets longer name by name.
LEMMA SpellsStep ==
  ASSUME NEW p \in Seq(Name), NEW u, Spells(p, u), NEW i \in 1 .. Len(p)
  PROVE  Prolongs(u[i], u[i - 1], p[i])
<1>1. i - 1 \in 0 .. Len(p)
  OBVIOUS
<1>2. u[i - 1] \in Seq(Letter) /\ u[i] = u[i - 1] \o Piece(p, i)
  BY <1>1 DEF Spells
<1>3. Prolongs(u[i - 1] \o Piece(p, i), u[i - 1], p[i])
  BY <1>2, PieceIs
<1>. QED  BY <1>2, <1>3

\* What a text begins with, a longer one does as well.
LEMMA HeadsOn ==
  ASSUME NEW s, NEW t, NEW w, NEW n, Heads(s, t), Prolongs(w, t, n)
  PROVE  Heads(s, w) /\ Len(s) < Len(w)
<1>1. /\ Len(s) \in Nat /\ Len(t) \in Nat /\ Len(n) \in Nat \ {0} /\ Len(s) =< Len(t)
      /\ Len(w) = Len(t) + 1 + Len(n) /\ s \in Seq(Letter) /\ w \in Seq(Letter)
  BY DEF Heads, Prolongs
<1>2. Len(s) < Len(w) /\ Len(s) =< Len(w) /\ Len(w) \in Nat
  BY <1>1
<1>3. \A k \in 1 .. Len(s) : k \in 1 .. Len(t)
  BY <1>1
<1>4. \A k \in 1 .. Len(s) : w[k] = s[k]
  BY <1>3 DEF Heads, Prolongs
<1>. QED  BY <1>1, <1>2, <1>4 DEF Heads

\* The text of a path begins with the text of fewer names.
LEMMA SpellsOn ==
  ASSUME NEW p \in Seq(Name), NEW u, Spells(p, u),
         NEW j \in 0 .. Len(p), NEW i \in 0 .. j
  PROVE  Heads(u[i], u[j]) /\ (i < j => Len(u[i]) < Len(u[j]))
<1>. DEFINE On(m) == Heads(u[i], u[m]) /\ (i < m => Len(u[i]) < Len(u[m]))
            S == {n \in Nat : i + n =< Len(p) => On(i + n)}
<1>1. Len(p) \in Nat /\ i \in 0 .. Len(p) /\ i \in Nat
  OBVIOUS
<1>2. 0 \in S
  <2>1. u[i] \in Seq(Letter)
    BY <1>1 DEF Spells
  <2>2. Heads(u[i], u[i])
    BY <2>1 DEF Heads
  <2>3. i + 0 = i /\ ~(i < i)
    BY <1>1
  <2>. QED  BY <2>2, <2>3
<1>3. ASSUME NEW n \in Nat, n \in S PROVE n + 1 \in S
  <2>. SUFFICES ASSUME i + (n + 1) =< Len(p) PROVE On(i + (n + 1))
    OBVIOUS
  <2>. DEFINE m == i + (n + 1)
  <2>1. m \in 1 .. Len(p) /\ m - 1 = i + n /\ i + n =< Len(p)
    BY <1>1
  <2>2. Heads(u[i], u[m - 1])
    BY <1>3, <2>1
  <2>. HIDE DEF m
  <2>3. Prolongs(u[m], u[m - 1], p[m])
    BY <2>1, SpellsStep
  <2>4. On(m)
    BY <2>2, <2>3, HeadsOn
  <2>. QED  BY <2>4 DEF m
<1>. HIDE DEF S
<1>4. j - i \in Nat /\ i + (j - i) = j /\ j =< Len(p)
  BY <1>1
<1>5. j - i \in S
  BY <1>2, <1>3, <1>4, SetInduction
<1>. QED  BY <1>4, <1>5 DEF S

\* What is flattened is put together piece by piece.
LEMMA FlatIs ==
  ASSUME NEW q \in Seq(Seq(Letter)), q # <<>>, NEW u \in [0 .. Len(q) -> Seq(Letter)],
         u[0] = <<>>, \A i \in 1 .. Len(q) : u[i] = u[i - 1] \o q[i]
  PROVE  FlattenSeq(q) = u[Len(q)]
<1>. DEFINE N == Len(q)
            Next1(f, i) == IF i = 1 THEN q[i] ELSE f[i - 1] \o q[i]
            flat == CHOOSE f : f = [i \in 1 .. N |-> Next1(f, i)]
            w == [i \in 1 .. N |-> u[i]]
<1>1. N \in Nat \ {0} /\ \A i \in 1 .. N : q[i] \in Seq(Letter)
  OBVIOUS
<1>2. u[1] = q[1]
  <2>1. 1 \in 1 .. N /\ 1 - 1 = 0
    BY <1>1
  <2>2. u[1] = <<>> \o q[1]
    BY <2>1
  <2>. QED  BY <1>1, <2>1, <2>2
<1>3. ASSUME NEW i \in 1 .. N PROVE w[i] = Next1(w, i)
  <2>1. CASE i = 1
    BY <1>1, <1>2, <2>1
  <2>2. CASE i # 1
    <3>1. i - 1 \in 1 .. N
      BY <1>1, <2>2
    <3>2. w[i - 1] = u[i - 1] /\ w[i] = u[i]
      BY <3>1
    <3>. HIDE DEF w
    <3>. QED  BY <2>2, <3>2
  <2>. QED  BY <2>1, <2>2
<1>4. w = [i \in 1 .. N |-> Next1(w, i)]
  BY <1>3
<1>5. flat = [i \in 1 .. N |-> Next1(flat, i)]
  BY <1>4
<1>6. FlattenSeq(q) = flat[N]
  BY <1>1 DEF FlattenSeq
<1>. HIDE DEF flat
<1>7. \A i \in 1 .. N : flat[i] = Next1(flat, i)
  BY <1>5
<1>. DEFINE S == {n \in Nat : n + 1 =< N => flat[n + 1] = u[n + 1]}
<1>8. 0 \in S
  BY <1>1, <1>2, <1>7
<1>9. ASSUME NEW n \in Nat, n \in S PROVE n + 1 \in S
  <2>. SUFFICES ASSUME (n + 1) + 1 =< N PROVE flat[(n + 1) + 1] = u[(n + 1) + 1]
    OBVIOUS
  <2>. DEFINE m == (n + 1) + 1
  <2>1. m \in 1 .. N /\ m # 1 /\ m - 1 = n + 1 /\ n + 1 =< N
    BY <1>1
  <2>2. flat[m - 1] = u[m - 1]
    BY <1>9, <2>1
  <2>. HIDE DEF m
  <2>3. flat[m] = u[m]
    BY <1>7, <2>1, <2>2
  <2>. QED  BY <2>3 DEF m
<1>. HIDE DEF S
<1>10. N - 1 \in Nat /\ (N - 1) + 1 = N
  BY <1>1
<1>11. N - 1 \in S
  BY <1>8, <1>9, <1>10, SetInduction
<1>12. flat[N] = u[N]
  BY <1>10, <1>11 DEF S
<1>. QED  BY <1>6, <1>12

\* Text is what spells the path.
LEMMA TextIs ==
  ASSUME NEW p \in Seq(Name), p # <<>>, NEW u, Spells(p, u)
  PROVE  Text(p) = u[Len(p)]
<1>. DEFINE q == [i \in DOMAIN p |-> Piece(p, i)]
<1>1. Len(p) \in Nat /\ DOMAIN p = 1 .. Len(p)
  OBVIOUS
<1>2. \A i \in 1 .. Len(p) : Piece(p, i) \in Seq(Letter)
  <2>. TAKE i \in 1 .. Len(p)
  <2>1. p[i] \in Seq(Letter)
    <3>1. p[i] \in Name
      OBVIOUS
    <3>. QED  BY <3>1 DEF Name, Letter
  <2>2. <<"/">> \in Seq(Letter)
    BY DEF Letter
  <2>. QED  BY <2>1, <2>2 DEF Piece
<1>3. q \in Seq(Seq(Letter)) /\ Len(q) = Len(p) /\ q # <<>>
  BY <1>1, <1>2
<1>4. \A i \in 1 .. Len(p) : q[i] = Piece(p, i)
  BY <1>1
<1>5. Text(p) = FlattenSeq(q)
  BY DEF Text, Piece
<1>. HIDE DEF q
<1>6. u \in [0 .. Len(q) -> Seq(Letter)] /\ u[0] = <<>>
  BY <1>3 DEF Spells
<1>7. \A i \in 1 .. Len(q) : u[i] = u[i - 1] \o q[i]
  BY <1>3, <1>4 DEF Spells
<1>8. FlattenSeq(q) = u[Len(q)]
  BY <1>3, <1>6, <1>7, FlatIs
<1>. QED  BY <1>3, <1>5, <1>8

\* A slash follows every name but the last.
LEMMA SlashAfter ==
  ASSUME NEW p \in Seq(Name), NEW u, Spells(p, u), NEW i \in 0 .. Len(p), i < Len(p)
  PROVE  /\ Heads(u[i], u[Len(p)]) /\ Len(u[i]) < Len(u[Len(p)])
         /\ u[Len(p)][Len(u[i]) + 1] = "/"
<1>1. Len(p) \in Nat /\ Len(p) \in 0 .. Len(p) /\ i \in 0 .. Len(p)
      /\ i + 1 \in 1 .. Len(p) /\ i + 1 \in 0 .. Len(p) /\ (i + 1) - 1 = i
  OBVIOUS
<1>2. Heads(u[i], u[Len(p)]) /\ (i < Len(p) => Len(u[i]) < Len(u[Len(p)]))
  BY <1>1, SpellsOn
<1>3. Heads(u[i + 1], u[Len(p)])
  BY <1>1, SpellsOn
<1>4. Prolongs(u[i + 1], u[(i + 1) - 1], p[i + 1])
  BY <1>1, SpellsStep
<1>5. Prolongs(u[i + 1], u[i], p[i + 1])
  BY <1>1, <1>4
<1>. DEFINE s == u[i]
            t == u[i + 1]
            w == u[Len(p)]
<1>6. /\ Len(s) \in Nat /\ Len(p[i + 1]) \in Nat \ {0} /\ Len(t) = Len(s) + 1 + Len(p[i + 1])
      /\ t[Len(s) + 1] = "/"
  BY <1>5 DEF Prolongs
<1>7. \A k \in 1 .. Len(t) : w[k] = t[k]
  BY <1>3 DEF Heads
<1>. HIDE DEF s, t, w
<1>8. Len(s) + 1 \in 1 .. Len(t)
  <2>1. \A x, y, z \in Int : x >= 0 /\ y >= 1 /\ z = x + 1 + y => x + 1 \in 1 .. z
    OBVIOUS
  <2>2. Len(s) >= 0 /\ Len(p[i + 1]) >= 1 /\ Len(s) \in Int /\ Len(p[i + 1]) \in Int
    BY <1>6
  <2>3. Len(t) = Len(s) + 1 + Len(p[i + 1]) /\ Len(t) \in Int
    BY <1>6, <2>2
  <2>. QED  BY <2>1, <2>2, <2>3
<1>9. w[Len(s) + 1] = "/"
  BY <1>6, <1>7, <1>8
<1>. QED  BY <1>2, <1>9 DEF s, w

\* Two names at the same place in a text are the same, if both end with the text or
\* before a slash.
LEMMA SameName ==
  ASSUME NEW a \in Seq(Char), NEW b \in Seq(Char), NEW s, NEW t, NEW w, NEW q,
         Prolongs(t, s, a), Prolongs(w, s, b), Heads(t, q), Heads(w, q),
         Len(t) < Len(q), q[Len(t) + 1] = "/",
         Len(w) = Len(q) \/ q[Len(w) + 1] = "/"
  PROVE  a = b
<1>1. /\ Len(s) \in Nat /\ Len(a) \in Nat \ {0} /\ Len(b) \in Nat \ {0} /\ Len(q) \in Nat
      /\ Len(t) = Len(s) + 1 + Len(a) /\ Len(w) = Len(s) + 1 + Len(b)
      /\ Len(t) \in Nat /\ Len(w) \in Nat
  BY DEF Prolongs, Heads
<1>2. /\ \A k \in 1 .. Len(a) : a[k] # "/" /\ t[Len(s) + 1 + k] = a[k]
      /\ \A k \in 1 .. Len(b) : b[k] # "/" /\ w[Len(s) + 1 + k] = b[k]
      /\ \A k \in 1 .. Len(t) : q[k] = t[k]
      /\ \A k \in 1 .. Len(w) : q[k] = w[k]
  BY DEF Prolongs, Heads
<1>3. ASSUME NEW k \in 1 .. Len(a) PROVE q[Len(s) + 1 + k] = a[k]
  <2>1. Len(s) + 1 + k \in 1 .. Len(t)
    BY <1>1
  <2>. QED  BY <1>2, <2>1
<1>4. ASSUME NEW k \in 1 .. Len(b) PROVE q[Len(s) + 1 + k] = b[k]
  <2>1. Len(s) + 1 + k \in 1 .. Len(w)
    BY <1>1
  <2>. QED  BY <1>2, <2>1
<1>5. ~(Len(a) < Len(b))
  <2>. SUFFICES ASSUME Len(a) < Len(b) PROVE FALSE
    OBVIOUS
  <2>1. Len(a) + 1 \in 1 .. Len(b) /\ Len(s) + 1 + (Len(a) + 1) = Len(t) + 1
    BY <1>1
  <2>2. q[Len(s) + 1 + (Len(a) + 1)] = b[Len(a) + 1] /\ b[Len(a) + 1] # "/"
    BY <1>2, <1>4, <2>1
  <2>3. q[Len(t) + 1] = b[Len(a) + 1]
    BY <2>1, <2>2
  <2>. QED  BY <2>2, <2>3
<1>6. ~(Len(b) < Len(a))
  <2>. SUFFICES ASSUME Len(b) < Len(a) PROVE FALSE
    OBVIOUS
  <2>1. Len(b) + 1 \in 1 .. Len(a) /\ Len(s) + 1 + (Len(b) + 1) = Len(w) + 1
        /\ Len(w) # Len(q)
    BY <1>1
  <2>2. q[Len(s) + 1 + (Len(b) + 1)] = a[Len(b) + 1] /\ a[Len(b) + 1] # "/"
    BY <1>2, <1>3, <2>1
  <2>3. q[Len(w) + 1] = a[Len(b) + 1]
    BY <2>1, <2>2
  <2>. QED  BY <2>1, <2>2, <2>3
<1>7. Len(a) = Len(b)
  BY <1>1, <1>5, <1>6
<1>8. \A k \in 1 .. Len(a) : a[k] = b[k]
  BY <1>3, <1>4, <1>7
<1>. QED  BY <1>7, <1>8

\* How the text of q goes on after the text of a directory it is in.
Below(p, u, q, v) ==
  /\ Heads(u[Len(p)], v[Len(q)]) /\ Len(u[Len(p)]) < Len(v[Len(q)])
  /\ v[Len(q)][Len(u[Len(p)]) + 1] = "/"

\* The first k names of p and q are the same.
SameNames(p, u, q, v, k) ==
  k =< Len(q) /\ u[k] = v[k] /\ \A i \in 1 .. k : p[i] = q[i]

\* One name more.
LEMMA NextName ==
  ASSUME NEW p \in Seq(Name), NEW u, Spells(p, u), NEW q \in Seq(Name), NEW v, Spells(q, v),
         Below(p, u, q, v), NEW k \in Nat, k + 1 =< Len(p), SameNames(p, u, q, v, k)
  PROVE  SameNames(p, u, q, v, k + 1)
<1>. DEFINE P == u[Len(p)]
            Q == v[Len(q)]
            s == u[k]
            t == u[k + 1]
            w == v[k + 1]
<1>1. /\ Len(p) \in Nat /\ Len(q) \in Nat /\ k \in 0 .. Len(p) /\ k < Len(p)
      /\ k + 1 \in 1 .. Len(p) /\ k + 1 \in 0 .. Len(p) /\ (k + 1) - 1 = k
  OBVIOUS
<1>2. Heads(P, Q) /\ Len(P) < Len(Q) /\ Q[Len(P) + 1] = "/"
  BY DEF Below
<1>3. k =< Len(q) /\ s = v[k] /\ \A i \in 1 .. k : p[i] = q[i]
  BY DEF SameNames
<1>4. k + 1 =< Len(q)
  <2>1. Len(s) < Len(P)
    BY <1>1, SlashAfter
  <2>2. Len(s) \in Nat /\ Len(P) \in Nat /\ Len(Q) \in Nat
    <3>1. Heads(s, P)
      BY <1>1, SlashAfter
    <3>. QED  BY <1>2, <3>1 DEF Heads
  <2>3. k # Len(q)
    <3>1. Len(s) # Len(Q)
      BY <1>2, <2>1, <2>2
    <3>. QED  BY <1>3, <3>1
  <2>. QED  BY <1>1, <1>3, <2>3
<1>5. k + 1 \in 1 .. Len(q) /\ k + 1 \in 0 .. Len(q)
  BY <1>1, <1>4
<1>6. Prolongs(t, s, p[k + 1])
  <2>1. Prolongs(u[k + 1], u[(k + 1) - 1], p[k + 1])
    BY <1>1, SpellsStep
  <2>. QED  BY <1>1, <2>1
<1>7. Prolongs(w, s, q[k + 1])
  <2>1. Prolongs(v[k + 1], v[(k + 1) - 1], q[k + 1])
    BY <1>5, SpellsStep
  <2>. QED  BY <1>1, <1>3, <2>1
<1>8. Heads(t, P) /\ (k + 1 = Len(p) \/ (Len(t) < Len(P) /\ P[Len(t) + 1] = "/"))
  <2>1. CASE k + 1 = Len(p)
    <3>1. Heads(u[k + 1], u[Len(p)])
      <4>1. Len(p) \in 0 .. Len(p) /\ k + 1 \in 0 .. Len(p)
        BY <1>1
      <4>. QED  BY <4>1, SpellsOn
    <3>. QED  BY <2>1, <3>1
  <2>2. CASE k + 1 # Len(p)
    <3>1. k + 1 < Len(p)
      BY <1>1, <2>2
    <3>. QED  BY <1>1, <3>1, SlashAfter
  <2>. QED  BY <2>1, <2>2
<1>9. Heads(w, Q) /\ (k + 1 = Len(q) \/ Q[Len(w) + 1] = "/")
  <2>1. CASE k + 1 = Len(q)
    <3>1. Heads(v[k + 1], v[Len(q)])
      <4>1. Len(q) \in 0 .. Len(q) /\ k + 1 \in 0 .. Len(q)
        BY <1>1, <1>5
      <4>. QED  BY <4>1, SpellsOn
    <3>. QED  BY <2>1, <3>1
  <2>2. CASE k + 1 # Len(q)
    <3>1. k + 1 < Len(q)
      BY <1>1, <1>4, <2>2
    <3>. QED  BY <1>5, <3>1, SlashAfter
  <2>. QED  BY <2>1, <2>2
<1>10. Len(w) = Len(Q) \/ Q[Len(w) + 1] = "/"
  BY <1>9
<1>11. k + 1 = Len(p) => t = P
  OBVIOUS
<1>12. p[k + 1] \in Seq(Char) /\ q[k + 1] \in Seq(Char)
  <2>1. p[k + 1] \in Name /\ q[k + 1] \in Name
    BY <1>1, <1>5
  <2>. QED  BY <2>1 DEF Name
<1>13. u[k + 1] = u[k] \o Piece(p, k + 1) /\ v[k + 1] = v[k] \o Piece(q, k + 1)
  BY <1>1, <1>5 DEF Spells
<1>. HIDE DEF P, Q, s, t, w
<1>14. Heads(t, Q) /\ Len(t) < Len(Q) /\ Q[Len(t) + 1] = "/"
  <2>1. /\ Len(t) \in Nat /\ Len(P) \in Nat /\ Len(Q) \in Nat /\ Len(t) =< Len(P)
        /\ t \in Seq(Letter) /\ Q \in Seq(Letter)
        /\ \A i \in 1 .. Len(t) : P[i] = t[i]
        /\ \A i \in 1 .. Len(P) : Q[i] = P[i]
    BY <1>2, <1>8 DEF Heads
  <2>2. \A i \in 1 .. Len(t) : i \in 1 .. Len(P)
    BY <2>1
  <2>3. \A i \in 1 .. Len(t) : Q[i] = t[i]
    BY <2>1, <2>2
  <2>4. Len(t) < Len(Q) /\ Len(t) =< Len(Q)
    BY <1>2, <2>1
  <2>5. Heads(t, Q)
    BY <2>1, <2>3, <2>4 DEF Heads
  <2>6. CASE k + 1 = Len(p)
    BY <1>2, <1>11, <2>4, <2>5, <2>6
  <2>7. CASE k + 1 # Len(p)
    <3>1. Len(t) + 1 \in 1 .. Len(P)
      BY <1>8, <2>1, <2>7
    <3>. QED  BY <1>8, <2>1, <2>4, <2>5, <2>7, <3>1
  <2>. QED  BY <2>6, <2>7
<1>15. p[k + 1] = q[k + 1]
  BY <1>6, <1>7, <1>9, <1>10, <1>12, <1>14, SameName
<1>16. u[k + 1] = v[k + 1]
  BY <1>3, <1>13, <1>15 DEF Piece, s
<1>17. \A i \in 1 .. k + 1 : i \in 1 .. k \/ i = k + 1
  OBVIOUS
<1>18. \A i \in 1 .. k + 1 : p[i] = q[i]
  BY <1>3, <1>15, <1>17
<1>. QED  BY <1>4, <1>16, <1>18 DEF SameNames

\* A text is below that of a directory exactly when the directory is above in the
\* tree of files; the directory's text is then where the names say.
LEMMA BelowIs ==
  ASSUME NEW p \in Seq(Name), NEW u, Spells(p, u), NEW q \in Seq(Name), NEW v, Spells(q, v)
  PROVE  /\ Below(p, u, q, v) <=> Len(p) < Len(q) /\ \A i \in 1 .. Len(p) : p[i] = q[i]
         /\ Below(p, u, q, v) => u[Len(p)] = v[Len(p)]
<1>. DEFINE N == Len(p)
<1>1. N \in Nat /\ Len(q) \in Nat /\ u[0] = v[0]
  BY DEF Spells
<1>2. ASSUME Below(p, u, q, v)
      PROVE  SameNames(p, u, q, v, N) /\ N < Len(q)
  <2>. DEFINE S == {k \in Nat : k =< N => SameNames(p, u, q, v, k)}
  <2>1. 0 \in S
    BY <1>1 DEF SameNames
  <2>2. ASSUME NEW k \in Nat, k \in S PROVE k + 1 \in S
    <3>. SUFFICES ASSUME k + 1 =< Len(p) PROVE SameNames(p, u, q, v, k + 1)
      OBVIOUS
    <3>1. SameNames(p, u, q, v, k)
      BY <1>1, <2>2
    <3>. QED  BY <1>2, <3>1, NextName
  <2>. HIDE DEF S
  <2>3. N \in S
    BY <1>1, <2>1, <2>2, SetInduction
  <2>4. SameNames(p, u, q, v, N)
    BY <1>1, <2>3 DEF S
  <2>5. Len(u[N]) < Len(v[Len(q)]) /\ Len(u[N]) \in Nat
    BY <1>2 DEF Below, Heads
  <2>6. N # Len(q)
    BY <2>4, <2>5 DEF SameNames
  <2>. QED  BY <1>1, <2>4, <2>6 DEF SameNames
<1>3. ASSUME N < Len(q), \A i \in 1 .. N : p[i] = q[i]
      PROVE  Below(p, u, q, v)
  <2>. DEFINE S == {k \in Nat : k =< N => u[k] = v[k]}
  <2>1. 0 \in S
    BY <1>1
  <2>2. ASSUME NEW k \in Nat, k \in S PROVE k + 1 \in S
    <3>. SUFFICES ASSUME k + 1 =< N PROVE u[k + 1] = v[k + 1]
      OBVIOUS
    <3>1. k + 1 \in 1 .. Len(p) /\ k + 1 \in 1 .. Len(q) /\ (k + 1) - 1 = k /\ k =< N
      BY <1>1, <1>3
    <3>2. u[k + 1] = u[(k + 1) - 1] \o Piece(p, k + 1) /\ v[k + 1] = v[(k + 1) - 1] \o Piece(q, k + 1)
      BY <3>1 DEF Spells
    <3>3. u[k] = v[k] /\ p[k + 1] = q[k + 1]
      BY <1>3, <2>2, <3>1
    <3>. QED  BY <3>1, <3>2, <3>3 DEF Piece
  <2>. HIDE DEF S
  <2>3. N \in S
    BY <1>1, <2>1, <2>2, SetInduction
  <2>4. u[N] = v[N]
    BY <1>1, <2>3 DEF S
  <2>5. N \in 0 .. Len(q)
    BY <1>1, <1>3
  <2>6. Heads(v[N], v[Len(q)]) /\ Len(v[N]) < Len(v[Len(q)]) /\ v[Len(q)][Len(v[N]) + 1] = "/"
    BY <1>3, <2>5, SlashAfter
  <2>. QED  BY <2>4, <2>6 DEF Below
<1>4. SameNames(p, u, q, v, N) => u[N] = v[N] /\ \A i \in 1 .. N : p[i] = q[i]
  BY DEF SameNames
<1>. QED  BY <1>2, <1>3, <1>4

\* What a sequence begins with, element by element.
LEMMA PrefixIs ==
  ASSUME NEW A, NEW s \in Seq(A), NEW t \in Seq(A)
  PROVE  /\ IsPrefix(s, t) <=> Len(s) =< Len(t) /\ \A k \in 1 .. Len(s) : t[k] = s[k]
         /\ IsStrictPrefix(s, t) <=> Len(s) < Len(t) /\ \A k \in 1 .. Len(s) : t[k] = s[k]
<1>1. Len(s) \in Nat /\ Len(t) \in Nat
  OBVIOUS
<1>2. ASSUME Len(s) =< Len(t)
      PROVE  SubSeq(s, 1, Len(s)) = SubSeq(t, 1, Len(s)) <=> \A k \in 1 .. Len(s) : t[k] = s[k]
  <2>. DEFINE a == SubSeq(s, 1, Len(s))
              b == SubSeq(t, 1, Len(s))
  <2>1. /\ a \in Seq(A) /\ Len(a) = Len(s) /\ \A k \in 1 .. Len(s) : a[k] = s[k]
        /\ b \in Seq(A) /\ Len(b) = Len(s) /\ \A k \in 1 .. Len(s) : b[k] = t[k]
    BY <1>1, <1>2
  <2>. HIDE DEF a, b
  <2>2. a = b => \A k \in 1 .. Len(s) : t[k] = s[k]
    BY <2>1
  <2>3. (\A k \in 1 .. Len(s) : t[k] = s[k]) => a = b
    BY <2>1
  <2>. QED  BY <2>2, <2>3
<1>3. IsPrefix(s, t) <=> Len(s) =< Len(t) /\ \A k \in 1 .. Len(s) : t[k] = s[k]
  BY <1>2 DEF IsPrefix
<1>4. Len(s) = Len(t) /\ (\A k \in 1 .. Len(s) : t[k] = s[k]) => s = t
  OBVIOUS
<1>5. IsStrictPrefix(s, t) <=> IsPrefix(s, t) /\ s # t
  BY DEF IsStrictPrefix
<1>6. Len(s) < Len(t) <=> Len(s) =< Len(t) /\ Len(s) # Len(t)
  BY <1>1
<1>. QED  BY <1>3, <1>4, <1>5, <1>6

\* How much of the text of a file path_on_mountpoint finds in a mount point: what the
\* names of the mount point take, and the slash, if the file is below it.
LEMMA LookedUp ==
  ASSUME NEW f \in Seq(Name), f # <<>>, NEW v, Spells(f, v), NEW m \in Seq(Name)
  PROVE  PathOnMountpoint(Text(f), Text(m)) = IF IsStrictPrefix(m, f) THEN Len(v[Len(m)]) + 1 ELSE 0
<1>1. Len(f) \in Nat \ {0} /\ Len(m) \in Nat
  OBVIOUS
<1>2. IsStrictPrefix(m, f) <=> Len(m) < Len(f) /\ \A k \in 1 .. Len(m) : f[k] = m[k]
  BY PrefixIs
<1>3. CASE m = <<>>
  <2>1. Text(m) = <<"/">> /\ Len(m) = 0
    BY <1>3 DEF Text
  <2>2. v[0] = <<>> /\ Len(v[0]) = 0
    BY DEF Spells
  <2>3. IsStrictPrefix(m, f)
    BY <1>1, <1>2, <2>1
  <2>4. PathOnMountpoint(Text(f), Text(m)) = 1
    BY <2>1 DEF PathOnMountpoint
  <2>. QED  BY <2>1, <2>2, <2>3, <2>4
<1>4. CASE m # <<>>
  <2>1. PICK u : Spells(m, u)
    BY SpellingExists
  <2>2. Text(m) = u[Len(m)] /\ Text(f) = v[Len(f)]
    BY <1>4, <2>1, TextIs
  <2>3. Len(m) \in 1 .. Len(m) /\ Len(m) \in 0 .. Len(m) /\ Len(f) \in 0 .. Len(f)
    BY <1>1, <1>4
  <2>4. u[Len(m)] \in Seq(Letter) /\ v[Len(f)] \in Seq(Letter)
    BY <2>1, <2>3 DEF Spells
  <2>5. Text(m) # <<"/">>
    <3>1. Prolongs(u[Len(m)], u[Len(m) - 1], m[Len(m)])
      BY <2>1, <2>3, SpellsStep
    <3>. DEFINE a == u[Len(m) - 1]
                t == u[Len(m)]
                n == m[Len(m)]
    <3>2. Len(a) \in Nat /\ Len(n) \in Nat \ {0} /\ Len(t) = Len(a) + 1 + Len(n)
      BY <3>1 DEF Prolongs
    <3>. HIDE DEF a, t, n
    <3>3. Len(t) # 1
      BY <3>2
    <3>4. Len(<<"/">>) = 1
      OBVIOUS
    <3>5. t # <<"/">>
      BY <3>3, <3>4, Zenon
    <3>. QED  BY <2>2, <3>5 DEF t
  <2>. DEFINE P == u[Len(m)]
              Q == v[Len(f)]
  <2>6. IsStrictPrefix(P, Q) <=> Len(P) < Len(Q) /\ \A k \in 1 .. Len(P) : Q[k] = P[k]
    BY <2>4, PrefixIs
  <2>7. Below(m, u, f, v) <=> IsStrictPrefix(P, Q) /\ Q[Len(P) + 1] = "/"
    <3>1. P \in Seq(Letter) /\ Q \in Seq(Letter)
      BY <2>4
    <3>. HIDE DEF P, Q
    <3>2. Len(P) \in Nat /\ Len(Q) \in Nat /\ (Len(P) < Len(Q) => Len(P) =< Len(Q))
      BY <3>1
    <3>3. Heads(P, Q) <=> Len(P) =< Len(Q) /\ \A k \in 1 .. Len(P) : Q[k] = P[k]
      BY <3>1, <3>2 DEF Heads
    <3>4. Below(m, u, f, v) <=> Heads(P, Q) /\ Len(P) < Len(Q) /\ Q[Len(P) + 1] = "/"
      BY DEF Below, P, Q
    <3>. QED  BY <2>6, <3>2, <3>3, <3>4
  <2>8. /\ Below(m, u, f, v) <=> Len(m) < Len(f) /\ \A k \in 1 .. Len(m) : m[k] = f[k]
        /\ Below(m, u, f, v) => u[Len(m)] = v[Len(m)]
    BY <2>1, BelowIs
  <2>9. Below(m, u, f, v) <=> IsStrictPrefix(m, f)
    BY <1>2, <2>8
  <2>10. PathOnMountpoint(Text(f), Text(m)) = IF Below(m, u, f, v) THEN Len(P) + 1 ELSE 0
    BY <2>2, <2>5, <2>7 DEF PathOnMountpoint
  <2>. QED  BY <2>8, <2>9, <2>10
<1>. QED  BY <1>3, <1>4

\* More names take more of the text.
LEMMA MoreNames ==
  ASSUME NEW f \in Seq(Name), NEW v, Spells(f, v), NEW i \in 0 .. Len(f), NEW j \in 0 .. Len(f)
  PROVE  /\ Len(v[i]) \in Nat
         /\ Len(v[i]) =< Len(v[j]) <=> i =< j
<1>1. Len(f) \in Nat /\ i \in Nat /\ j \in Nat
  OBVIOUS
<1>2. v[i] \in Seq(Letter) /\ v[j] \in Seq(Letter)
  BY DEF Spells
<1>3. Len(v[i]) \in Nat /\ Len(v[j]) \in Nat
  BY <1>2
<1>4. CASE i =< j
  <2>1. i \in 0 .. j
    BY <1>1, <1>4
  <2>2. Heads(v[i], v[j])
    BY <2>1, SpellsOn
  <2>. QED  BY <1>3, <1>4, <2>2 DEF Heads
<1>5. CASE ~(i =< j)
  <2>1. j \in 0 .. i /\ j < i
    BY <1>1, <1>5
  <2>2. Len(v[j]) < Len(v[i])
    BY <2>1, SpellsOn
  <2>. QED  BY <1>3, <1>5, <2>2
<1>. QED  BY <1>4, <1>5

-----------------------------------------------------------------------------
(* nvmm_lookup_query.                                                      *)

Mount == [device : STRING, point : Seq(Name), options : STRING]

\* One entry of the table: the match of its path.
LEMMA EntryIs ==
  ASSUME NEW ms \in Seq(Mount), Plain(ms), NEW f \in Seq(Name), f # <<>>, NEW v, Spells(f, v),
         NEW i \in DOMAIN ms
  PROVE  /\ PathOnMountpoint(Text(f), Loaded(ms)[i].path) =
              IF Above(ms[i], f) THEN Len(v[Len(ms[i].point)]) + 1 ELSE 0
         /\ SaysDax(Loaded(ms)[i].options) <=> ms[i].options \in {"dax", "dax=always"}
<1>1. ms[i].point \in Seq(Name)
  <2>1. ms[i] \in Mount
    OBVIOUS
  <2>. QED  BY <2>1 DEF Mount
<1>2. Mangled(Text(ms[i].point)) = Text(ms[i].point) /\ ms[i].options \notin {"dax=inode", "dax=never"}
  BY DEF Plain
<1>3. Loaded(ms)[i].path = Text(ms[i].point) /\ Loaded(ms)[i].options = ms[i].options
  BY <1>2 DEF Loaded, Details
<1>4. PathOnMountpoint(Text(f), Text(ms[i].point)) =
        IF IsStrictPrefix(ms[i].point, f) THEN Len(v[Len(ms[i].point)]) + 1 ELSE 0
  BY <1>1, LookedUp
<1>5. PathOnMountpoint(Text(f), Loaded(ms)[i].path) =
        IF Above(ms[i], f) THEN Len(v[Len(ms[i].point)]) + 1 ELSE 0
  BY <1>3, <1>4 DEF Above
<1>6. SaysDax(Loaded(ms)[i].options) <=> ms[i].options \in {"dax", "dax=always"}
  BY <1>2, <1>3 DEF SaysDax
<1>. QED  BY <1>5, <1>6

\* Two mount points above a file that have as many names are the same.
LEMMA SamePoint ==
  ASSUME NEW f \in Seq(Name), NEW p \in Seq(Name), NEW q \in Seq(Name),
         IsStrictPrefix(p, f), IsStrictPrefix(q, f), Len(p) = Len(q)
  PROVE  IsPrefix(p, q)
<1>1. \A k \in 1 .. Len(p) : f[k] = p[k]
  BY PrefixIs
<1>2. \A k \in 1 .. Len(q) : f[k] = q[k]
  BY PrefixIs
<1>3. Len(p) =< Len(q) /\ \A k \in 1 .. Len(p) : q[k] = p[k]
  BY <1>1, <1>2
<1>. QED  BY <1>3, PrefixIs

\* The lookup finds the entry of the deepest mount above the file, if there is one.
LEMMA QueryIs ==
  ASSUME NEW ms \in Seq(Mount), Plain(ms), NEW f \in Seq(Name), f # <<>>, NEW i \in DOMAIN ms
  PROVE  i \in MountQuery(Loaded(ms), Text(f)) <=>
           /\ Above(ms[i], f)
           /\ \A j \in DOMAIN ms : Above(ms[j], f) => Len(ms[j].point) =< Len(ms[i].point)
<1>1. PICK v : Spells(f, v)
  BY SpellingExists
<1>. DEFINE match(j) == PathOnMountpoint(Text(f), Loaded(ms)[j].path)
            above(j) == Above(ms[j], f)
            text(j) == Len(v[Len(ms[j].point)])
            n(j) == Len(ms[j].point)
<1>2. DOMAIN Loaded(ms) = DOMAIN ms /\ \A j \in DOMAIN ms : ms[j] \in Mount
  BY DEF Loaded
<1>3. \A j \in DOMAIN ms : ms[j].point \in Seq(Name) /\ n(j) \in Nat
  BY <1>2 DEF Mount
<1>4. \A j \in DOMAIN ms : match(j) = IF above(j) THEN text(j) + 1 ELSE 0
  BY <1>1, EntryIs
<1>5. ASSUME NEW j \in DOMAIN ms, above(j) PROVE n(j) \in 0 .. Len(f)
  <2>1. IsStrictPrefix(ms[j].point, f) /\ ms[j].point \in Seq(Name)
    BY <1>3, <1>5 DEF Above
  <2>2. Len(ms[j].point) < Len(f)
    BY <2>1, PrefixIs
  <2>. QED  BY <1>3, <2>2
<1>6. \A j, k \in DOMAIN ms :
        above(j) /\ above(k) => text(j) \in Nat /\ text(k) \in Nat /\ (text(j) =< text(k) <=> n(j) =< n(k))
  BY <1>1, <1>5, MoreNames
<1>7. ASSUME NEW j \in DOMAIN ms, NEW k \in DOMAIN ms, j < k, above(j), above(k)
      PROVE  n(j) # n(k)
  <2>1. IsStrictPrefix(ms[j].point, f) /\ IsStrictPrefix(ms[k].point, f)
    BY <1>7 DEF Above
  <2>2. n(j) = n(k) => IsPrefix(ms[k].point, ms[j].point)
    BY <1>3, <2>1, SamePoint
  <2>3. ~IsPrefix(ms[k].point, ms[j].point)
    BY <1>7 DEF Plain
  <2>. QED  BY <2>2, <2>3
<1>8. i \in MountQuery(Loaded(ms), Text(f)) <=>
        /\ match(i) > 0
        /\ \A j \in DOMAIN ms : match(j) =< match(i) /\ (j < i => match(j) < match(i))
  BY <1>2 DEF MountQuery
<1>9. \A j \in DOMAIN ms : j \in Nat
  OBVIOUS
<1>. HIDE DEF match, above, text, n
<1>10. (\A j \in DOMAIN ms : above(j) => n(j) =< n(i)) /\ above(i) =>
         match(i) > 0 /\ \A j \in DOMAIN ms : match(j) =< match(i) /\ (j < i => match(j) < match(i))
  <2>. SUFFICES ASSUME \A j \in DOMAIN ms : above(j) => n(j) =< n(i), above(i)
                PROVE  match(i) > 0 /\ \A j \in DOMAIN ms : match(j) =< match(i) /\ (j < i => match(j) < match(i))
    OBVIOUS
  <2>1. text(i) \in Nat /\ match(i) = text(i) + 1
    BY <1>4, <1>6
  <2>2. ASSUME NEW j \in DOMAIN ms PROVE match(j) =< match(i) /\ (j < i => match(j) < match(i))
    <3>1. CASE above(j)
      <4>1. text(j) \in Nat /\ match(j) = text(j) + 1 /\ text(j) =< text(i)
        BY <1>4, <1>6, <3>1
      <4>2. j < i => n(j) # n(i)
        BY <1>7, <3>1
      <4>3. text(i) =< text(j) <=> n(i) =< n(j)
        BY <1>6, <3>1
      <4>4. n(j) =< n(i) /\ n(j) \in Nat /\ n(i) \in Nat
        BY <1>3, <3>1
      <4>5. j < i => text(j) < text(i)
        BY <2>1, <4>1, <4>2, <4>3, <4>4
      <4>. QED  BY <2>1, <4>1, <4>5
    <3>2. CASE ~above(j)
      <4>1. match(j) = 0
        BY <1>4, <3>2, Zenon
      <4>. QED  BY <2>1, <4>1
    <3>. QED  BY <3>1, <3>2
  <2>3. match(i) > 0
    BY <2>1
  <2>. QED  BY <2>2, <2>3, Zenon
<1>11. match(i) > 0 /\ (\A j \in DOMAIN ms : match(j) =< match(i)) =>
         above(i) /\ \A j \in DOMAIN ms : above(j) => n(j) =< n(i)
  <2>. SUFFICES ASSUME match(i) > 0, \A j \in DOMAIN ms : match(j) =< match(i)
                PROVE  above(i) /\ \A j \in DOMAIN ms : above(j) => n(j) =< n(i)
    OBVIOUS
  <2>1. above(i)
    <3>1. ~above(i) => match(i) = 0
      BY <1>4, Zenon
    <3>2. ~(0 > 0)
      OBVIOUS
    <3>. QED  BY <3>1, <3>2, Zenon
  <2>2. ASSUME NEW j \in DOMAIN ms, above(j) PROVE n(j) =< n(i)
    <3>1. match(j) = text(j) + 1 /\ match(i) = text(i) + 1 /\ text(j) \in Nat /\ text(i) \in Nat
      BY <1>4, <1>6, <2>1, <2>2
    <3>2. text(j) =< text(i)
      <4>1. match(j) =< match(i)
        OBVIOUS
      <4>. QED  BY <3>1, <4>1
    <3>. QED  BY <1>6, <2>1, <2>2, <3>2
  <2>. QED  BY <2>1, <2>2
<1>. QED  BY <1>8, <1>10, <1>11 DEF above, n

\* nvmm_lookup_query tells the files on DAX mounts from the others.
LEMMA LookupIs ==
  ASSUME NEW ms \in Seq(Mount), Plain(ms), NEW f \in Seq(Name), f # <<>>
  PROVE  NvmmLookupQuery(Loaded(ms), Text(f)) <=> OnDax(ms, f)
<1>1. PICK v : Spells(f, v)
  BY SpellingExists
<1>2. \A i \in MountQuery(Loaded(ms), Text(f)) : i \in DOMAIN ms
  BY DEF MountQuery, Loaded
<1>3. \A i \in DOMAIN ms :
        SaysDax(Loaded(ms)[i].options) <=> ms[i].options \in {"dax", "dax=always"}
  BY <1>1, EntryIs
<1>4. \A i \in DOMAIN ms :
        i \in MountQuery(Loaded(ms), Text(f)) <=>
          /\ Above(ms[i], f)
          /\ \A j \in DOMAIN ms : Above(ms[j], f) => Len(ms[j].point) =< Len(ms[i].point)
  BY QueryIs
<1>. QED  BY <1>2, <1>3, <1>4 DEF NvmmLookupQuery, OnDax

-----------------------------------------------------------------------------
(* The files of samples.                                                   *)

\* The inductive invariant: a file is only there while a sample is handled, and what
\* was found of it was found in the table of the mounts.
TableInv ==
  /\ mounts \in Mounts
  /\ table = <<>> \/ table = Loaded(mounts)
  /\ pc = "idle" => file = NoFile
  /\ file # NoFile =>
       phase = "run" /\ file \in Files /\ isNVMM = NvmmLookupQuery(table, Text(file))

\* Every step of main() and of the receiver keeps it.
LEMMA TableInvariance == RSpec => []TableInv
<1>1. RInit => TableInv
  BY DEF RInit, TableInv, NoFile
<1>2. TableInv /\ [RNext]_rvars => TableInv'
  <2>. SUFFICES ASSUME TableInv, [RNext]_rvars PROVE TableInv'
    OBVIOUS
  <2>1. CASE ReadMounts
    BY <2>1 DEF TableInv, ReadMounts, vars, sample
  <2>2. CASE RegisterCores
    BY <2>2 DEF TableInv, RegisterCores, vars, sample
  <2>3. CASE Run
    BY <2>3 DEF TableInv, Run, vars, sample
  <2>4. ASSUME NEW p \in Pid, Receive(p) PROVE TableInv'
    BY <2>4 DEF TableInv, Receive, ReceiverGet, ReceiverFails, Running, config, sample
  <2>5. ASSUME NEW f \in Files, Classify(f) PROVE TableInv'
    BY <2>5 DEF TableInv, Classify, Running, config, vars
  <2>6. CASE Drop
    BY <2>6 DEF TableInv, Drop, Running, config, sample
  <2>7. CASE Account
    BY <2>7 DEF TableInv, Account, AccountingGet, Running, config, sample
  <2>8. CASE Assign
    BY <2>8 DEF TableInv, Assign, Running, config
  <2>9. CASE End
    BY <2>9 DEF TableInv, End, Deinit, sample
  <2>10. CASE Time
    BY <2>10 DEF TableInv, Time, Tick, Running, config, sample
  <2>11. CASE UNCHANGED rvars
    BY <2>11 DEF TableInv, rvars, vars, config, sample
  <2>. QED  BY <2>1, <2>2, <2>3, <2>4, <2>5, <2>6, <2>7, <2>8, <2>9, <2>10, <2>11 DEF RNext
<1>. QED  BY <1>1, <1>2, PTL DEF RSpec

\* ClassifiedAsMounted, for any mounts, names and files: a store is taken for one to
\* NVMM exactly when the deepest mount above its file is a DAX mount.
THEOREM Classification == RSpec => []ClassifiedAsMounted
<1>1. TableInv => ClassifiedAsMounted
  <2>. SUFFICES ASSUME TableInv, file # NoFile, Plain(mounts)
                PROVE  isNVMM = (table # <<>> /\ OnDax(mounts, file))
    BY DEF ClassifiedAsMounted
  <2>1. mounts \in Seq(Mount) /\ file \in Seq(Name) /\ file # <<>>
    BY PathAssumption DEF TableInv, Mount, NoFile
  <2>2. isNVMM = NvmmLookupQuery(table, Text(file)) /\ (table = <<>> \/ table = Loaded(mounts))
    BY DEF TableInv
  <2>3. CASE table = <<>>
    <3>1. ~NvmmLookupQuery(table, Text(file))
      BY <2>3 DEF NvmmLookupQuery, MountQuery
    <3>2. NvmmLookupQuery(table, Text(file)) = FALSE
      BY <3>1 DEF NvmmLookupQuery
    <3>3. (table # <<>> /\ OnDax(mounts, file)) = FALSE
      BY <2>3
    <3>. QED  BY <2>2, <3>2, <3>3, Zenon
  <2>4. CASE table # <<>>
    <3>1. NvmmLookupQuery(Loaded(mounts), Text(file)) <=> OnDax(mounts, file)
      BY <2>1, LookupIs
    <3>2. NvmmLookupQuery(Loaded(mounts), Text(file)) = OnDax(mounts, file)
      BY <3>1 DEF NvmmLookupQuery, OnDax
    <3>3. OnDax(mounts, file) = (table # <<>> /\ OnDax(mounts, file))
      BY <2>4 DEF OnDax
    <3>. QED  BY <2>2, <2>4, <3>2, <3>3, Zenon
  <2>. QED  BY <2>3, <2>4
<1>. QED  BY <1>1, TableInvariance, PTL
=============================================================================
