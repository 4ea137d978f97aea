---------------------------- MODULE ProcaffProofs ----------------------------
(* Proofs about Procaff, for any threads, groups, CPUs and expiries.       *)
EXTENDS Procaff, TLAPS

\* The inductive invariant.  MaskFollowsRecord needs RecordsResolve: a group
\* id can be created again, and a record left behind would then name CPUs
\* its thread was never given.
IInv == TypeOK /\ RecordsResolve /\ CoresDisjoint /\ MaskFollowsRecord

-----------------------------------------------------------------------------
(* The kernel's step.                                                      *)

\* sched_setaffinity leaves every live thread it does not stray with the mask
\* asked for, or with its old mask when it was not called for it.
LEMMA SetAffinityEffect ==
  ASSUME TypeOK, NEW calls \in SUBSET Tid,
         NEW want \in [Tid -> SUBSET Cpu], SetAffinity(calls, want)
  PROVE  /\ mask' \in [Tid -> SUBSET Cpu]
         /\ strayed' \subseteq Alive'
         /\ \A t \in Alive' \ strayed' :
              /\ t \in Alive
              /\ t \in calls => mask'[t] = want[t]
              /\ t \notin calls => t \notin strayed /\ mask'[t] = mask[t]
  BY DEF TypeOK, SetAffinity, Alive

-----------------------------------------------------------------------------
(* Every operation keeps the inductive invariant.                          *)

\* There is no group and no record at first.
LEMMA InitIInv == Init => IInv
  BY GidAssumption, CpuAssumption
     DEF Init, IInv, TypeOK, RecordsResolve, CoresDisjoint, MaskFollowsRecord,
         Alive, Tracked, NoGroup

\* A new group has no CPU and no thread.
LEMMA CreateGroupIInv ==
  ASSUME IInv, NEW g \in Gid, NEW e \in Ext, NEW s \in BOOLEAN,
         CreateGroup(g, e, s)
  PROVE  IInv'
<1>1. TypeOK'
  BY ExtAssumption DEF IInv, TypeOK, CreateGroup, records, kernel, Alive
<1>2. RecordsResolve'
  BY DEF IInv, RecordsResolve, CreateGroup, records, kernel, Tracked
<1>3. CoresDisjoint'
  BY DEF IInv, TypeOK, CoresDisjoint, CreateGroup
<1>4. MaskFollowsRecord'
  BY DEF IInv, TypeOK, RecordsResolve, MaskFollowsRecord, CreateGroup,
         records, kernel, Alive, Tracked
<1> QED
  BY <1>1, <1>2, <1>3, <1>4 DEF IInv

\* Groups go with their records, whose threads get all CPUs back.
LEMMA DestroyGroupsIInv ==
  ASSUME IInv, NEW S \in SUBSET Gid, DestroyGroups(S)
  PROVE  IInv'
<1> DEFINE gone == {t \in Tid : group[t] \in S}
<1> DEFINE every == [t \in Tid |-> Cpu]
<1>1. SetAffinity(gone, every)
  BY DEF DestroyGroups, DestroyProcesses, Reset
<1>2. /\ mask' \in [Tid -> SUBSET Cpu]
      /\ strayed' \subseteq Alive'
      /\ \A t \in Alive' \ strayed' :
           /\ t \in Alive
           /\ t \in gone => mask'[t] = Cpu
           /\ t \notin gone => t \notin strayed /\ mask'[t] = mask[t]
  <2>1. gone \in SUBSET Tid /\ every \in [Tid -> SUBSET Cpu]
    OBVIOUS
  <2>2. TypeOK
    BY DEF IInv
  <2> HIDE DEF gone
  <2>3. \A t \in Tid : every[t] = Cpu
    OBVIOUS
  <2> HIDE DEF every
  <2> QED
    BY <1>1, <2>1, <2>2, <2>3, SetAffinityEffect DEF Alive
<1>3. TypeOK'
  BY <1>2 DEF IInv, TypeOK, DestroyGroups, DestroyProcesses, NoGroup
<1>4. RecordsResolve'
  BY DEF IInv, TypeOK, RecordsResolve, DestroyGroups, DestroyProcesses, Tracked
<1>5. CoresDisjoint'
  BY DEF IInv, TypeOK, CoresDisjoint, DestroyGroups
<1>6. MaskFollowsRecord'
  <2> SUFFICES ASSUME NEW t \in Alive' \ strayed'
               PROVE  IF t \in Tracked' THEN mask'[t] \subseteq cores'[group'[t]]
                                        ELSE mask'[t] = Cpu
    BY DEF MaskFollowsRecord
  <2> t \in Tid
    BY DEF Alive
  <2>1. CASE t \in gone
    BY <2>1, <1>2 DEF DestroyGroups, DestroyProcesses, Tracked
  <2>2. CASE t \notin gone
    <3>1. group'[t] = group[t] /\ mask'[t] = mask[t] /\ t \in Alive \ strayed
      BY <2>2, <1>2 DEF DestroyGroups, DestroyProcesses
    <3>2. t \in Tracked => cores'[group[t]] = cores[group[t]]
      BY <2>2 DEF IInv, TypeOK, DestroyGroups, Tracked
    <3> QED
      BY <3>1, <3>2 DEF IInv, MaskFollowsRecord, Tracked
  <2> QED
    BY <2>1, <2>2
<1> QED
  BY <1>3, <1>4, <1>5, <1>6 DEF IInv

\* The default is a group that exists.
LEMMA DefaultGroupIInv ==
  ASSUME IInv, NEW g \in Gid, DefaultGroup(g)
  PROVE  IInv'
  BY DEF IInv, TypeOK, RecordsResolve, CoresDisjoint, MaskFollowsRecord,
         DefaultGroup, records, kernel, Alive, Tracked

\* A CPU is given to a group while no other has it.
LEMMA AssignCoreIInv ==
  ASSUME IInv, NEW g \in Gid, NEW c \in Cpu, AssignCore(g, c)
  PROVE  IInv'
<1>1. TypeOK'
  BY DEF IInv, TypeOK, AssignCore, records, kernel, Alive
<1>2. RecordsResolve'
  BY DEF IInv, RecordsResolve, AssignCore, records, Tracked
<1>3. CoresDisjoint'
  BY DEF IInv, TypeOK, CoresDisjoint, AssignCore, Assigned
<1>4. MaskFollowsRecord'
  BY DEF IInv, TypeOK, MaskFollowsRecord, AssignCore, records, kernel, Alive,
         Tracked
<1> QED
  BY <1>1, <1>2, <1>3, <1>4 DEF IInv

\* procaff_unassign_core changes nothing: a CPU that the group does have is
\* refused as already assigned, and another is not in the group's set.
THEOREM UnassignCoreIsIdle ==
  ASSUME TypeOK, NEW g \in Gid, NEW c \in Cpu, UnassignCore(g, c)
  PROVE  UNCHANGED vars
<1>1. CASE Assigned(c)
  BY <1>1 DEF UnassignCore, vars, config
<1>2. CASE ~Assigned(c)
  <2>1. c \notin cores[g]
    BY <1>2 DEF UnassignCore, Assigned
  <2>2. [cores EXCEPT ![g] = @ \ {c}] = cores
    BY <2>1 DEF TypeOK
  <2> QED
    BY <1>2, <2>2 DEF UnassignCore, vars, config
<1> QED
  BY <1>1, <1>2

\* A thread gets a record and the mask of its group.
LEMMA ProcessAssignIInv ==
  ASSUME IInv, NEW g \in Gid, NEW t \in Tid, NEW mem \in BOOLEAN,
         ProcessAssign(g, t, mem)
  PROVE  IInv'
<1> DEFINE entered == IF Held(g, t) \/ (t \notin Tracked /\ ~mem) THEN {} ELSE {t}
<1> DEFINE moved == {u \in entered : group[u] # g}
<1> DEFINE demoted == Demoted(Lapsed(t))
<1> DEFINE dropped == Lapsed(t) \ demoted
<1> DEFINE target(u) == IF u \in entered THEN g
                        ELSE IF u \in demoted THEN default
                        ELSE IF u \in dropped THEN NoGroup
                        ELSE group[u]
<1> DEFINE calls == moved \cup demoted \cup dropped
<1> DEFINE want == [u \in Tid |-> IF u \in dropped THEN Cpu
                                  ELSE IF u \in moved \cup demoted
                                  THEN cores[target(u)] ELSE mask[u]]
<1>1. /\ g \in groups
      /\ UNCHANGED config
      /\ group' = [u \in Tid |-> target(u)]
      /\ left' = [u \in Tid |-> IF u \in entered \cup demoted
                                THEN expiry[target(u)] ELSE left[u]]
      /\ SetAffinity(calls, want)
  BY DEF ProcessAssign, GroupChanged
<1>2. /\ entered \subseteq Tid
      /\ t \notin demoted /\ t \notin dropped
      /\ entered \subseteq {t}
      /\ demoted \subseteq Tracked /\ dropped \subseteq Tracked
      /\ default # NoGroup \/ demoted = {}
  BY DEF Demoted, Lapsed
<1>3. \A u \in Tid : target(u) \in groups \cup {NoGroup}
  BY <1>1, <1>2 DEF IInv, TypeOK, RecordsResolve, Tracked
<1>4. \A u \in entered \cup demoted : target(u) \in groups
  BY <1>1, <1>2 DEF IInv, TypeOK, RecordsResolve, Tracked
<1>5. calls \in SUBSET Tid /\ want \in [Tid -> SUBSET Cpu]
  <2>1. calls \in SUBSET Tid
    BY <1>2 DEF Tracked
  <2>2. \A u \in moved \cup demoted : cores[target(u)] \in SUBSET Cpu
    BY <1>4 DEF IInv, TypeOK
  <2> QED
    BY <2>1, <2>2 DEF IInv, TypeOK
<1>6. /\ mask' \in [Tid -> SUBSET Cpu]
      /\ strayed' \subseteq Alive'
      /\ \A u \in Alive' \ strayed' :
           /\ u \in Alive
           /\ u \in calls => mask'[u] = want[u]
           /\ u \notin calls => u \notin strayed /\ mask'[u] = mask[u]
  <2> TypeOK
    BY DEF IInv
  <2> HIDE DEF calls, want
  <2> QED
    BY <1>1, <1>5, SetAffinityEffect
<1>7. TypeOK'
  <2>1. group' \in [Tid -> Gid \cup {NoGroup}]
    BY <1>1, <1>3 DEF IInv, TypeOK
  <2>2. \A u \in entered \cup demoted : expiry[target(u)] \in Nat
    BY <1>4 DEF IInv, TypeOK
  <2>3. left' \in [Tid -> Nat]
    BY <1>1, <2>2 DEF IInv, TypeOK
  <2> QED
    BY <1>1, <1>6, <2>1, <2>3 DEF IInv, TypeOK, config
<1>8. RecordsResolve'
  BY <1>1, <1>3 DEF IInv, RecordsResolve, Tracked, config
<1>9. CoresDisjoint'
  BY <1>1 DEF IInv, CoresDisjoint, config
<1>10. MaskFollowsRecord'
  <2> SUFFICES ASSUME NEW u \in Alive' \ strayed'
               PROVE  IF u \in Tracked' THEN mask'[u] \subseteq cores[group'[u]]
                                        ELSE mask'[u] = Cpu
    BY <1>1 DEF MaskFollowsRecord, config
  <2> u \in Tid
    BY DEF Alive
  <2>1. u \in Alive /\ group'[u] = target(u)
    BY <1>1, <1>6
  <2>2. CASE u \in moved \cup demoted
    <3>1. mask'[u] = cores[target(u)]
      BY <1>2, <1>6, <2>2
    <3>2. target(u) # NoGroup
      BY <1>4, <2>2, GidAssumption DEF IInv, TypeOK, NoGroup
    <3> QED
      BY <2>1, <3>1, <3>2 DEF Tracked
  <2>3. CASE u \in dropped
    <3>1. mask'[u] = Cpu /\ target(u) = NoGroup
      BY <1>2, <1>6, <2>3
    <3> QED
      BY <2>1, <3>1 DEF Tracked
  <2>4. CASE u \notin calls
    <3>1. target(u) = group[u] /\ mask'[u] = mask[u] /\ u \notin strayed
      BY <1>6, <2>4
    <3> QED
      BY <2>1, <3>1 DEF IInv, MaskFollowsRecord, Tracked
  <2> QED
    BY <2>2, <2>3, <2>4
<1> QED
  BY <1>7, <1>8, <1>9, <1>10 DEF IInv

\* A record goes, its thread gets all CPUs back.
LEMMA ProcessUnassignIInv ==
  ASSUME IInv, NEW t \in Tid, ProcessUnassign(t)
  PROVE  IInv'
<1>1. /\ UNCHANGED config
      /\ group' = [u \in Tid |-> IF u \in {t} THEN NoGroup ELSE group[u]]
      /\ left' = [u \in Tid |-> IF u \in {t} THEN 0 ELSE left[u]]
      /\ SetAffinity({t}, [u \in Tid |-> Cpu])
  BY DEF ProcessUnassign, DestroyProcesses, Reset
<1>2. /\ mask' \in [Tid -> SUBSET Cpu]
      /\ strayed' \subseteq Alive'
      /\ \A u \in Alive' \ strayed' :
           /\ u \in Alive
           /\ u = t => mask'[u] = Cpu
           /\ u # t => u \notin strayed /\ mask'[u] = mask[u]
  BY <1>1 DEF IInv, TypeOK, SetAffinity, Alive
<1>3. TypeOK' /\ RecordsResolve' /\ CoresDisjoint'
  BY <1>1, <1>2 DEF IInv, TypeOK, RecordsResolve, CoresDisjoint, config, Tracked
<1>4. MaskFollowsRecord'
  BY <1>1, <1>2 DEF IInv, MaskFollowsRecord, Tracked, Alive, config
<1> QED
  BY <1>3, <1>4 DEF IInv

\* A new thread may have any id that is free.
LEMMA SpawnIInv ==
  ASSUME IInv, NEW t \in Tid, NEW m \in SUBSET Cpu, Spawn(t, m)
  PROVE  IInv'
<1>1. m # {}
  BY CpuAssumption DEF Spawn, Alive
<1>2. TypeOK' /\ RecordsResolve' /\ CoresDisjoint'
  BY <1>1 DEF IInv, TypeOK, RecordsResolve, CoresDisjoint, Spawn, config,
              records, Alive, Tracked
<1>3. MaskFollowsRecord'
  BY DEF IInv, TypeOK, MaskFollowsRecord, Spawn, config, records, Alive, Tracked
<1> QED
  BY <1>2, <1>3 DEF IInv

\* A thread exits and leaves its record behind.
LEMMA ExitIInv ==
  ASSUME IInv, NEW t \in Tid, Exit(t)
  PROVE  IInv'
  BY DEF IInv, TypeOK, RecordsResolve, CoresDisjoint, MaskFollowsRecord, Exit,
         config, records, Alive, Tracked

\* Time goes on.
LEMMA TickIInv == IInv /\ Tick => IInv'
<1> SUFFICES ASSUME IInv, Tick PROVE IInv'
  OBVIOUS
<1>1. left' \in [Tid -> Nat]
  BY DEF IInv, TypeOK, Tick, Age
<1> QED
  BY <1>1 DEF IInv, TypeOK, RecordsResolve, CoresDisjoint, MaskFollowsRecord,
              Tick, config, kernel, Alive, Tracked

\* Nothing happens.
LEMMA StutterIInv == IInv /\ UNCHANGED vars => IInv'
  BY DEF IInv, TypeOK, RecordsResolve, CoresDisjoint, MaskFollowsRecord, vars,
         config, records, kernel, Alive, Tracked

\* Every operation of the API, and what the kernel does, keeps the invariant.
LEMMA NextIInv == IInv /\ [Next]_vars => IInv'
<1> SUFFICES ASSUME IInv, [Next]_vars PROVE IInv'
  OBVIOUS
<1>1. ASSUME NEW g \in Gid, NEW e \in Ext, NEW s \in BOOLEAN, CreateGroup(g, e, s)
      PROVE  IInv'
  BY <1>1, CreateGroupIInv
<1>2. ASSUME NEW g \in Gid, DestroyGroup(g) PROVE IInv'
  <2>1. DestroyGroups({g}) /\ {g} \in SUBSET Gid
    BY <1>2 DEF DestroyGroup
  <2> QED
    BY <2>1, DestroyGroupsIInv
<1>3. CASE Deinit
  <2>1. DestroyGroups(groups) /\ groups \in SUBSET Gid
    BY <1>3 DEF Deinit, IInv, TypeOK
  <2> QED
    BY <2>1, DestroyGroupsIInv
<1>4. ASSUME NEW g \in Gid, DefaultGroup(g) PROVE IInv'
  BY <1>4, DefaultGroupIInv
<1>5. ASSUME NEW g \in Gid, NEW c \in Cpu, AssignCore(g, c) PROVE IInv'
  BY <1>5, AssignCoreIInv
<1>6. ASSUME NEW g \in Gid, NEW c \in Cpu, UnassignCore(g, c) PROVE IInv'
  BY <1>6, UnassignCoreIsIdle, StutterIInv DEF IInv
<1>7. ASSUME NEW g \in Gid, NEW t \in Tid, NEW mem \in BOOLEAN,
             ProcessAssign(g, t, mem)
      PROVE  IInv'
  BY <1>7, ProcessAssignIInv
<1>8. ASSUME NEW t \in Tid, ProcessUnassign(t) PROVE IInv'
  BY <1>8, ProcessUnassignIInv
<1>9. ASSUME NEW t \in Tid, NEW m \in SUBSET Cpu, Spawn(t, m) PROVE IInv'
  BY <1>9, SpawnIInv
<1>10. ASSUME NEW t \in Tid, Exit(t) PROVE IInv'
  BY <1>10, ExitIInv
<1>11. CASE Tick
  BY <1>11, TickIInv
<1>12. CASE UNCHANGED vars
  BY <1>12, StutterIInv
<1> QED
  BY <1>1, <1>2, <1>3, <1>4, <1>5, <1>6, <1>7, <1>8, <1>9, <1>10, <1>11, <1>12
     DEF Next, Api, Environment

-----------------------------------------------------------------------------
(* The theorems.                                                           *)

\* The inductive invariant holds for every sequence of calls.
THEOREM Invariance == Spec => []IInv
  BY InitIInv, NextIInv, PTL DEF Spec

\* Every state is well typed.
THEOREM TypeCorrect == Spec => []TypeOK
<1>1. IInv => TypeOK
  BY DEF IInv
<1> QED
  BY <1>1, Invariance, PTL

\* No operation ever dereferences a group that was destroyed.
THEOREM NoDanglingGroup == Spec => []RecordsResolve
<1>1. IInv => RecordsResolve
  BY DEF IInv
<1> QED
  BY <1>1, Invariance, PTL

\* No sequence of calls puts a CPU in two groups.
THEOREM Disjointness == Spec => []CoresDisjoint
<1>1. IInv => CoresDisjoint
  BY DEF IInv
<1> QED
  BY <1>1, Invariance, PTL

\* The masks the kernel holds agree with the records.
THEOREM MasksAgree == Spec => []MaskFollowsRecord
<1>1. IInv => MaskFollowsRecord
  BY DEF IInv
<1> QED
  BY <1>1, Invariance, PTL

\* Core specialization holds for any number of threads, groups and CPUs:
\* it follows from the disjoint groups and the masks that agree with them.
THEOREM Specialization == Spec => []Specialized
<1>1. IInv => Specialized
  <2> SUFFICES ASSUME IInv,
                      NEW t \in (Alive \ strayed) \cap Tracked,
                      NEW u \in (Alive \ strayed) \cap Tracked,
                      group[t] # group[u]
               PROVE  mask[t] \cap mask[u] = {}
    BY DEF Specialized
  <2>1. group[t] \in groups /\ group[u] \in groups
    BY DEF IInv, RecordsResolve
  <2>2. mask[t] \subseteq cores[group[t]] /\ mask[u] \subseteq cores[group[u]]
    BY DEF IInv, MaskFollowsRecord
  <2> QED
    BY <2>1, <2>2 DEF IInv, CoresDisjoint
<1> QED
  BY <1>1, Invariance, PTL
=============================================================================
