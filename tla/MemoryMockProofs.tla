--------------------------- MODULE MemoryMockProofs ---------------------------
(***************************************************************************)
(* Theorems about the lookups of a memory mock, for any addresses, labels, *)
(* failures, and whatever the process maps and unmaps meanwhile.           *)
(***************************************************************************)
EXTENDS MemoryMock, FiniteSetTheorems, FunctionTheorems, TLAPS

Types ==
  /\ maps \subseteq Region /\ regions \subseteq Region
  /\ views \in Seq(Region)
  /\ pc \in {"idle", "label", "get", "read", "crashed"}
  /\ want \in Int /\ retry \in 0 .. 2
  /\ ip \in Int /\ read \in Int
  /\ steady \in BOOLEAN

\* An address that has been mapped all the time is in the regions as soon as they
\* were read again, which happens once.
SteadyFound == steady => Mapped(want) /\ retry # 2 /\ (retry > 0 => Found)

\* Views do not outlive the regions they were made of while one is looked for.
ViewsFresh == pc = "get" /\ retry > 0 => views = <<>>

MInv == Types /\ SteadyFound /\ ViewsFresh /\ EachViewNeeded

-----------------------------------------------------------------------------
\* Nothing is mapped, cached or looked for at the beginning.
LEMMA InitMInv == Init => MInv
<1>. SUFFICES ASSUME Init PROVE MInv
  OBVIOUS
<1>1. /\ maps = {} /\ regions = {} /\ views = <<>> /\ pc = "idle"
      /\ want = 0 /\ retry = 0 /\ ip = 0 /\ read = -1 /\ steady = FALSE
  BY DEF Init
<1>2. steady \in BOOLEAN
  BY <1>1, Zenon
<1>. QED
  BY <1>1, <1>2 DEF MInv, Types, SteadyFound, ViewsFresh, EachViewNeeded

\* A lookup of another address begins.
LEMMA LookInv ==
  ASSUME MInv, NEW a \in Int, Look(a), UNCHANGED maps,
         pc' \in {"label", "get"}
  PROVE  /\ want' \in Int /\ retry' \in 0 .. 2 /\ steady' \in BOOLEAN
         /\ SteadyFound' /\ ViewsFresh'
<1>1. want' = a /\ retry' = 0 /\ steady' = Mapped(a)
  BY DEF Look
<1>2. Mapped(a) \in BOOLEAN
  BY Zenon DEF Mapped
<1>3. SteadyFound'
  <2>. SUFFICES ASSUME steady' PROVE Mapped(want)' /\ retry' # 2 /\ ~ (retry' > 0)
    BY DEF SteadyFound
  <2>1. Mapped(a)
    BY <1>1
  <2>2. \E r \in maps' : Covers(r, want')
    BY <1>1, <2>1 DEF Mapped
  <2>. QED  BY <1>1, <2>2 DEF Mapped
<1>. QED  BY <1>1, <1>2, <1>3 DEF ViewsFresh

\* The call is over.
LEMMA LeaveInv ==
  ASSUME MInv, Leave
  PROVE  /\ pc' = "idle" /\ want' \in Int /\ retry' \in 0 .. 2 /\ steady' \in BOOLEAN
         /\ ip' \in Int /\ read' \in Int
         /\ SteadyFound' /\ ViewsFresh'
<1>1. steady' = FALSE /\ pc' = "idle"
  BY DEF Leave
<1>2. steady' \in BOOLEAN
  BY <1>1, Zenon
<1>. QED  BY <1>1, <1>2 DEF Leave, SteadyFound, ViewsFresh

\* memmock_get returns: what follows depends on whether insn_ptr or the bytes
\* behind it were looked up.
LEMMA ReturnInv ==
  ASSUME MInv, NEW r, Return(r), pc = "get", UNCHANGED <<maps, regions>>,
         views' \in Seq(Region), EachViewNeeded'
  PROVE  MInv'
<1>. Step \in Nat
  BY SizeAssumption
<1>1. CASE read = -1 /\ NextStep(0)
  <2>1. Look(ip + 0 + Step - 1) /\ ip + 0 + Step - 1 \in Int
    BY <1>1 DEF NextStep, MInv, Types
  <2>2. pc' = "get" /\ read' = 0 /\ ip' = ip
    BY <1>1 DEF NextStep
  <2>. QED  BY <2>1, <2>2, LookInv DEF MInv, Types
<1>2. CASE Leave
  BY <1>2, LeaveInv DEF MInv, Types
<1>3. CASE pc' = "read" /\ UNCHANGED <<want, retry, insn, steady>>
  BY <1>3 DEF MInv, Types, SteadyFound, ViewsFresh, insn, Mapped, Found
<1>. QED  BY <1>1, <1>2, <1>3 DEF Return

\* The regions are read again: what is mapped is found then.
LEMMA UpdateInv ==
  ASSUME MInv, Update, ~Found, retry # 2, retry' = retry + 1,
         UNCHANGED <<maps, pc, want, ip, read>>,
         views' = views \/ views' = <<>>, pc = "get" => views' = <<>>
  PROVE  MInv'
<1>0. views' \in Seq(Region) /\ ViewsFresh' /\ EachViewNeeded'
  <2>1. ViewsFresh'
    BY DEF ViewsFresh
  <2>2. CASE views' = views
    <3>1. views' \in Seq(Region)
      BY <2>2 DEF MInv, Types
    <3>2. EachViewNeeded'
      BY <2>2 DEF MInv, EachViewNeeded
    <3>. QED  BY <2>1, <3>1, <3>2
  <2>3. CASE views' = <<>>
    <3>1. views' \in Seq(Region)
      BY <2>3
    <3>2. EachViewNeeded'
      BY <2>3 DEF EachViewNeeded
    <3>. QED  BY <2>1, <3>1, <3>2
  <2>. QED  BY <2>2, <2>3
<1>1. steady => retry = 0
  BY DEF MInv, SteadyFound, Types
<1>2. retry' \in 1 .. 2 /\ (steady => retry' = 1)
  BY <1>1 DEF MInv, Types
<1>3. CASE regions' = maps /\ UNCHANGED steady
  <2>1. SteadyFound'
    BY <1>2, <1>3 DEF MInv, SteadyFound, Mapped, Found
  <2>. QED  BY <1>0, <1>2, <1>3, <2>1 DEF MInv, Types
<1>4. CASE regions' \in {regions, {}} /\ steady' = FALSE
  <2>1. steady' \in BOOLEAN
    BY <1>4, Zenon
  <2>2. SteadyFound'
    BY <1>4 DEF SteadyFound
  <2>. QED  BY <1>0, <1>2, <1>4, <2>1, <2>2 DEF MInv, Types
<1>. QED  BY <1>3, <1>4 DEF Update

-----------------------------------------------------------------------------
(* Every step keeps the invariant.                                         *)

\* The process maps and unmaps: an address that is unmapped is not steady any more.
LEMMA ProcessStep ==
  ASSUME MInv, (\E r \in Region : Map(r)) \/ (\E r \in maps : Unmap(r))
  PROVE  MInv'
<1>1. CASE \E r \in Region : Map(r)
  <2>. PICK r \in Region : Map(r)
    BY <1>1
  <2>1. /\ maps' = maps \cup {r}
        /\ UNCHANGED <<regions, views, pc, want, retry, ip, read, steady>>
    BY DEF Map, call, insn
  <2>. QED
    BY <2>1 DEF MInv, Types, SteadyFound, ViewsFresh, EachViewNeeded, Mapped, Found
<1>2. CASE \E r \in maps : Unmap(r)
  <2>. PICK r \in maps : Unmap(r)
    BY <1>2
  <2>1. /\ maps' = maps \ {r} /\ steady' = (steady /\ ~Covers(r, want))
        /\ UNCHANGED <<regions, views, pc, want, retry, ip, read>>
    BY DEF Unmap, call, insn
  <2>2. steady' \in BOOLEAN
    BY <2>1, Zenon
  <2>3. SteadyFound'
    BY <2>1 DEF MInv, SteadyFound, Mapped, Found
  <2>. QED
    BY <2>1, <2>2, <2>3 DEF MInv, Types, ViewsFresh, EachViewNeeded
<1>. QED  BY <1>1, <1>2

\* A call of memmock_get_label or get_instruction begins.
LEMMA StartStep ==
  ASSUME MInv, NEW a \in Addr, StartLabel(a) \/ StartRead(a)
  PROVE  MInv'
<1>. a \in Int
  BY SizeAssumption DEF Addr
<1>1. Look(a) /\ pc' \in {"label", "get"} /\ UNCHANGED <<memory, read>> /\ ip' \in {ip, a}
  BY DEF StartLabel, StartRead, insn
<1>. QED
  BY <1>1, LookInv DEF MInv, Types, EachViewNeeded, memory

\* The view is appended for an address that no view has.
LEMMA PopulateStep ==
  ASSUME MInv, Populate
  PROVE  MInv'
<1>1. RegionOf \in regions /\ Covers(RegionOf, want)
  BY DEF Populate, Found, RegionOf
<1>2. CASE views' = Append(views, RegionOf) /\ Return(RegionOf)
  <2>. DEFINE n == Len(views)
  <2>1. RegionOf \in Region /\ views \in Seq(Region) /\ want \in Int
    BY <1>1 DEF MInv, Types
  <2>2. want \in Addr
    BY <1>1, <2>1, SizeAssumption DEF Region, Addr, Covers
  <2>3. \A j \in 1 .. n : ~ Covers(views[j], want)
    <3>1. CASE retry = 0
      BY <3>1, <2>1 DEF Populate, InView, ViewHit
    <3>2. CASE retry # 0
      BY <3>2 DEF Populate, MInv, Types, ViewsFresh
    <3>. QED  BY <3>1, <3>2
  <2>4. /\ views' \in Seq(Region) /\ DOMAIN views' = 1 .. n + 1
        /\ views'[n + 1] = RegionOf
        /\ \A j \in 1 .. n : views'[j] = views[j]
        /\ n \in Nat /\ DOMAIN views = 1 .. n
    BY <1>2, <2>1
  <2>. HIDE DEF n
  <2>5. EachViewNeeded'
    <3>. SUFFICES ASSUME NEW i \in DOMAIN views'
                  PROVE  \E a \in Addr : /\ Covers(views'[i], a)
                                         /\ \A j \in 1 .. i - 1 : ~Covers(views'[j], a)
      BY DEF EachViewNeeded
    <3>1. CASE i = n + 1
      BY <1>1, <2>2, <2>3, <2>4, <3>1
    <3>2. CASE i \in 1 .. n
      <4>1. PICK a \in Addr : /\ Covers(views[i], a)
                              /\ \A j \in 1 .. i - 1 : ~Covers(views[j], a)
        BY <2>4, <3>2 DEF MInv, EachViewNeeded
      <4>2. \A j \in 1 .. i - 1 : views'[j] = views[j]
        BY <2>4, <3>2
      <4>. QED  BY <2>4, <3>2, <4>1, <4>2
    <3>. QED  BY <2>4, <3>1, <3>2
  <2>. QED  BY <1>2, <2>4, <2>5, ReturnInv DEF Populate
<1>3. CASE Return(NoRegion) /\ UNCHANGED views
  <2>1. views' \in Seq(Region) /\ EachViewNeeded'
    BY <1>3 DEF MInv, Types, EachViewNeeded
  <2>. QED  BY <1>3, <2>1, ReturnInv DEF Populate
<1>. QED  BY <1>2, <1>3 DEF Populate

\* The other steps of a call, and what is left alone.
LEMMA LookupStep ==
  ASSUME MInv,
         \/ EndLabel \/ UpdateLabel \/ GetView \/ UpdateGet \/ GiveUpGet
         \/ ReadStep \/ Fault \/ UNCHANGED vars
  PROVE  MInv'
<1>. Step \in Nat
  BY SizeAssumption
<1>1. CASE EndLabel
  <2>1. Leave /\ UNCHANGED memory
    BY <1>1 DEF EndLabel
  <2>. QED  BY <2>1, LeaveInv DEF MInv, Types, EachViewNeeded, memory
<1>2. CASE UpdateLabel
  BY <1>2, UpdateInv DEF UpdateLabel, GivenUp, insn
<1>3. CASE GetView \/ GiveUpGet
  <2>1. PICK r : Return(r)
    BY <1>3 DEF GetView, GiveUpGet
  <2>2. pc = "get" /\ UNCHANGED <<maps, regions, views>>
    BY <1>3 DEF GetView, GiveUpGet, memory
  <2>3. views' \in Seq(Region) /\ EachViewNeeded'
    BY <2>2 DEF MInv, Types, EachViewNeeded
  <2>. QED  BY <2>1, <2>2, <2>3, ReturnInv
<1>4. CASE UpdateGet
  BY <1>4, UpdateInv DEF UpdateGet, GivenUp
<1>5. CASE ReadStep
  <2>1. UNCHANGED memory
    BY <1>5 DEF ReadStep
  <2>2. CASE NextStep(read + Step)
    <3>1. /\ Look(ip + (read + Step) + Step - 1) /\ ip + (read + Step) + Step - 1 \in Int
          /\ pc' = "get" /\ read' = read + Step /\ ip' = ip
      BY <2>2 DEF NextStep, MInv, Types
    <3>. QED  BY <2>1, <3>1, LookInv DEF MInv, Types, EachViewNeeded, memory
  <2>3. CASE Leave
    BY <2>1, <2>3, LeaveInv DEF MInv, Types, EachViewNeeded, memory
  <2>. QED  BY <1>5, <2>2, <2>3 DEF ReadStep
<1>6. CASE Fault
  <2>1. pc' = "crashed" /\ UNCHANGED <<maps, regions, views, want, retry, ip, read, steady>>
    BY <1>6 DEF Fault, memory, insn
  <2>. QED
    BY <2>1 DEF MInv, Types, SteadyFound, ViewsFresh, EachViewNeeded, Mapped, Found
<1>7. CASE UNCHANGED vars
  <2>1. UNCHANGED <<maps, regions, views, pc, want, retry, ip, read, steady>>
    BY <1>7 DEF vars, memory, call, insn
  <2>. QED
    BY <2>1 DEF MInv, Types, SteadyFound, ViewsFresh, EachViewNeeded, Mapped, Found
<1>. QED  BY <1>1, <1>2, <1>3, <1>4, <1>5, <1>6, <1>7

-----------------------------------------------------------------------------
(* The theorems.                                                           *)

\* The invariant holds in every state of the mock.
THEOREM MInvariance == Spec => []MInv
<1>1. MInv /\ [Next]_vars => MInv'
  BY ProcessStep, StartStep, PopulateStep, LookupStep DEF Next, Lookup
<1>. QED  BY InitMInv, <1>1, PTL DEF Spec

\* One look at /proc/<pid>/maps is enough for an address that stays mapped: the
\* lookup never gives up on it.
THEOREM SteadyIsFound == Spec => []MappedIsFound
<1>1. MInv => MappedIsFound
  BY DEF MInv, SteadyFound, MappedIsFound, GivenUp
<1>. QED  BY <1>1, MInvariance, PTL

\* No view is made of what an earlier view has, although the regions are renewed
\* under the views by memmock_get_label.
THEOREM ViewsNeeded == Spec => []EachViewNeeded
<1>1. MInv => EachViewNeeded
  BY DEF MInv
<1>. QED  BY <1>1, MInvariance, PTL

\* The list of views, which nothing ever shortens while addresses are found in the
\* regions, is never longer than there are addresses.
THEOREM ViewsBounded == Spec => [](Len(views) =< Top)
<1>1. MInv => Len(views) =< Top
  <2>. SUFFICES ASSUME MInv PROVE Len(views) =< Top
    OBVIOUS
  <2>. DEFINE n == Len(views)
              Own(i, a) == /\ Covers(views[i], a)
                           /\ \A j \in 1 .. i - 1 : ~Covers(views[j], a)
              f == [i \in 1 .. n |-> CHOOSE a \in Addr : Own(i, a)]
  <2>1. n \in Nat /\ DOMAIN views = 1 .. n
    BY DEF MInv, Types
  <2>2. \A i \in 1 .. n : \E a \in Addr : Own(i, a)
    BY <2>1 DEF MInv, EachViewNeeded
  <2>3. \A i \in 1 .. n : f[i] \in Addr /\ Own(i, f[i])
    BY <2>2, Zenon
  <2>4. \A i, j \in 1 .. n : i < j => f[i] # f[j]
    <3>. SUFFICES ASSUME NEW i \in 1 .. n, NEW j \in 1 .. n, i < j, f[i] = f[j]
                  PROVE  FALSE
      OBVIOUS
    <3>. HIDE DEF f
    <3>. QED  BY <2>1, <2>3
  <2>5. f \in [1 .. n -> Addr]
    BY <2>3
  <2>. HIDE DEF f
  <2>6. \A i, j \in 1 .. n : f[i] = f[j] => i = j
    BY <2>1, <2>4
  <2>7. f \in Injection(1 .. n, Addr)
    BY <2>5, <2>6, Fun_IsInj
  <2>8. IsFiniteSet(Addr) /\ Cardinality(Addr) = Top
    BY FS_Interval, SizeAssumption DEF Addr
  <2>9. Cardinality(1 .. n) =< Top
    BY <2>7, <2>8, FS_Injection
  <2>10. Cardinality(1 .. n) = n
    <3>1. Cardinality(1 .. n) = IF 1 > n THEN 0 ELSE n - 1 + 1
      <4>. HIDE DEF n
      <4>. QED  BY <2>1, FS_Interval
    <3>. QED  BY <2>1, <3>1
  <2>. QED  BY <2>9, <2>10
<1>. QED  BY <1>1, MInvariance, PTL
=============================================================================
