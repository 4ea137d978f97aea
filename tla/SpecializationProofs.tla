------------------------- MODULE SpecializationProofs -------------------------
(***************************************************************************)
(* Theorems about the running program, for any threads, CPUs, lists of     *)
(* CPUs and expiries.                                                      *)
(***************************************************************************)
EXTENDS Specialization, ProcaffProofs

\* What main() has set up when it is where it is.
Config ==
  /\ pc = "create_default" => groups = {}
  /\ pc = "create_nvmm" => groups = {DefaultGid} /\ sticky = {}
  /\ pc \in {"set_default", "register", "assign", "running", "joining", "deinit"} =>
       /\ groups = {DefaultGid, NvmmGid}
       /\ sticky = {NvmmGid}
       /\ expiry[NvmmGid] = NvmmExt
  /\ pc = "done" => groups = {}

\* No sample arrives before the first perf event is open.
Startup ==
  /\ pc \in {"create_default", "create_nvmm", "set_default"} =>
       core = -1 /\ pending = {} /\ Tracked = {}
  /\ pc = "assign" => core \in Cpu

\* The record of a recent writer outlives the time it is to be held for.
WritersKept ==
  pc # "done" =>
    \A t \in Tid : quiet[t] < NvmmExt => group[t] = NvmmGid /\ left[t] + quiet[t] >= NvmmExt

\* While groups still get CPUs, every record is one made or moved meanwhile.
EarlyOnly == pc \in {"register", "assign"} => Tracked \subseteq early

SInv ==
  /\ IInv /\ STypeOK
  /\ Config /\ Startup /\ WritersKept /\ EarlyOnly /\ ExactAfterStartup

-----------------------------------------------------------------------------
(* The initial state.                                                      *)

\* Nothing is started, recorded or held at the beginning.
LEMMA InitSInv == SInit => SInv
<1>. SUFFICES ASSUME SInit PROVE SInv
  OBVIOUS
<1>1. IInv
  BY InitIInv DEF SInit
<1>2. /\ pc = "create_default" /\ core = -1 /\ sampling = TRUE /\ terminated = FALSE
      /\ pending = {} /\ early = {} /\ quiet = [t \in Tid |-> NvmmExt]
      /\ Tracked = {} /\ groups = {}
  BY DEF SInit, Init, Tracked
<1>3. STypeOK
  <2>1. sampling \in BOOLEAN /\ terminated \in BOOLEAN
    BY <1>2, Zenon
  <2>2. NvmmExt \in Nat
    BY ExpiryAssumption, ExtAssumption
  <2>. QED  BY <1>1, <1>2, <2>1, <2>2 DEF STypeOK, IInv
<1>4. Config /\ Startup /\ EarlyOnly
  BY <1>2 DEF Config, Startup, EarlyOnly
<1>5. WritersKept
  <2>1. NvmmExt \in Nat
    BY ExpiryAssumption, ExtAssumption
  <2>. QED  BY <1>2, <2>1 DEF WritersKept
<1>6. ExactAfterStartup
  BY <1>2 DEF ExactAfterStartup
<1>. QED  BY <1>1, <1>3, <1>4, <1>5, <1>6 DEF SInv

-----------------------------------------------------------------------------
(* Every step of the program is a call of the affinity manager, a step of   *)
(* the kernel or of the clock, or leaves them alone.                        *)

\* A step of the program is one of the affinity manager's, or leaves it alone.
LEMMA StepImplements ==
  ASSUME SInv, [SNext]_allVars
  PROVE  [Next]_vars
<1>. {DefaultGid, NvmmGid} \subseteq Gid /\ DefaultExt \in Ext /\ NvmmExt \in Ext
  BY GroupAssumption, ExpiryAssumption
<1>1. CASE CreateDefault
  BY <1>1 DEF CreateDefault, Next, Api
<1>2. CASE CreateNvmm
  BY <1>2 DEF CreateNvmm, Next, Api
<1>3. CASE SetDefault
  BY <1>3 DEF SetDefault, Next, Api
<1>4. CASE RegisterCore \/ EndLoop \/ SignalStop \/ JoinSampler
  BY <1>4 DEF RegisterCore, EndLoop, SignalStop, JoinSampler
<1>5. CASE AssignRegistered
  <2>1. core \in Cpu /\ AssignCore(GroupOf(core \in NvmmCores), core)
    BY <1>5 DEF AssignRegistered, Goto, SInv, Startup
  <2>2. GroupOf(core \in NvmmCores) \in Gid
    BY DEF GroupOf
  <2>. QED  BY <2>1, <2>2 DEF Next, Api
<1>6. CASE Release
  BY <1>6 DEF Release, Next, Api
<1>7. ASSUME NEW t \in Tid, NEW nvmm \in BOOLEAN, HandleSample(t, nvmm)
      PROVE  [Next]_vars
  <2>1. PICK mem \in BOOLEAN : ProcessAssign(GroupOf(nvmm), t, mem)
    BY <1>7 DEF HandleSample
  <2>2. GroupOf(nvmm) \in Gid
    BY DEF GroupOf
  <2>. QED  BY <2>1, <2>2 DEF Next, Api
<1>8. CASE \E s \in pending : LoseSample(s)
  BY <1>8 DEF LoseSample
<1>9. CASE \E t \in Tid, nvmm \in BOOLEAN : Store(t, nvmm)
  BY <1>9 DEF Store
<1>10. CASE StopSampling \/ Signal
  BY <1>10 DEF StopSampling, Signal
<1>11. CASE Clock
  BY <1>11 DEF Clock, Next, Environment
<1>12. CASE Threads
  BY <1>12 DEF Threads, Next, Environment
<1>13. CASE UNCHANGED allVars
  BY <1>13 DEF allVars
<1>. QED
  BY <1>1, <1>2, <1>3, <1>4, <1>5, <1>6, <1>7, <1>8, <1>9, <1>10, <1>11, <1>12, <1>13
     DEF SNext, Main

-----------------------------------------------------------------------------
(* Every step keeps the invariant.                                         *)

\* main() moves on, samples come and go, and the affinity manager stays as it is.
LEMMA QuietStep ==
  ASSUME SInv,
         \/ RegisterCore \/ EndLoop \/ SignalStop \/ JoinSampler
         \/ \E s \in pending : LoseSample(s)
         \/ \E t \in Tid, nvmm \in BOOLEAN : Store(t, nvmm)
         \/ StopSampling \/ Signal
         \/ UNCHANGED allVars
  PROVE  SInv'
<1>. USE DEF SInv, STypeOK, Config, Startup, WritersKept, EarlyOnly, ExactAfterStartup,
             Tracked, Alive, main, aux
<1>1. UNCHANGED vars /\ UNCHANGED aux
  BY DEF RegisterCore, EndLoop, SignalStop, JoinSampler, Goto, LoseSample, Store,
         StopSampling, Signal, allVars
<1>2. UNCHANGED <<groups, expiry, sticky, cores, default, group, left, mask, strayed>>
  BY <1>1 DEF vars, config, records, kernel
<1>3. IInv'
  BY <1>1, StutterIInv
<1>4. TypeOK'
  BY <1>3 DEF IInv
<1>. HIDE DEF IInv, TypeOK
<1>5. CASE RegisterCore
  BY <1>2, <1>3, <1>4, <1>5 DEF RegisterCore, Goto, Remaining
<1>6. CASE EndLoop
  BY <1>2, <1>3, <1>4, <1>6 DEF EndLoop, Goto
<1>7. CASE SignalStop \/ JoinSampler
  BY <1>2, <1>3, <1>4, <1>7 DEF SignalStop, JoinSampler, Goto
<1>8. CASE \E s \in pending : LoseSample(s)
  BY <1>2, <1>3, <1>4, <1>8 DEF LoseSample
<1>9. CASE \E t \in Tid, nvmm \in BOOLEAN : Store(t, nvmm)
  <2>. PICK t \in Tid, nvmm \in BOOLEAN : Store(t, nvmm)
    BY <1>9
  <2>1. Sampled # {} /\ pending' = pending \cup {<<t, nvmm>>} /\ UNCHANGED main
    BY DEF Store
  <2>2. core # -1
    <3>1. PICK c \in AllCores \cap Cpu : c =< core
      BY <2>1 DEF Sampled
    <3>2. c \in Nat
      BY <3>1, CoreAssumption
    <3>. QED  BY <3>1, <3>2
  <2>3. pending' \subseteq Tid \X BOOLEAN
    BY <2>1
  <2>4. STypeOK'
    BY <1>1, <1>2, <1>4, <2>1, <2>3
  <2>5. pc \notin {"create_default", "create_nvmm", "set_default"}
    BY <2>2
  <2>6. Startup'
    BY <1>2, <2>1, <2>5
  <2>7. Config' /\ WritersKept' /\ EarlyOnly' /\ ExactAfterStartup'
    BY <1>1, <1>2, <2>1
  <2>. QED  BY <1>3, <2>4, <2>6, <2>7
<1>10. CASE StopSampling
  <2>1. sampling' \in BOOLEAN
    BY <1>10, Zenon DEF StopSampling
  <2>. QED  BY <1>2, <1>3, <1>4, <1>10, <2>1 DEF StopSampling
<1>11. CASE Signal
  <2>1. terminated' \in BOOLEAN
    BY <1>11, Zenon DEF Signal
  <2>. QED  BY <1>2, <1>3, <1>4, <1>11, <2>1 DEF Signal
<1>12. CASE UNCHANGED allVars
  BY <1>2, <1>3, <1>4, <1>12 DEF allVars
<1>. QED  BY <1>5, <1>6, <1>7, <1>8, <1>9, <1>10, <1>11, <1>12

\* The steps of main() that change the affinity manager.
LEMMA CreateStep ==
  ASSUME SInv, IInv', CreateDefault \/ CreateNvmm \/ SetDefault
  PROVE  SInv'
<1>. USE DEF SInv, STypeOK, Config, Startup, WritersKept, EarlyOnly, ExactAfterStartup
<1>1. /\ pc \in {"create_default", "create_nvmm", "set_default"}
      /\ pc' \in {"create_nvmm", "set_default", "register"}
      /\ UNCHANGED <<core, sampling, terminated, pending, quiet, early, records, kernel>>
  BY DEF CreateDefault, CreateNvmm, SetDefault, Goto, aux, CreateGroup, DefaultGroup
<1>2. Tracked' = {} /\ STypeOK' /\ Startup' /\ WritersKept' /\ EarlyOnly' /\ ExactAfterStartup'
  BY <1>1 DEF IInv, Tracked, records
<1>3. CASE CreateDefault
  <2>1. /\ pc' = "create_nvmm" /\ groups' = {DefaultGid} /\ sticky' \subseteq sticky
        /\ sticky = {}
    BY <1>3 DEF CreateDefault, Goto, CreateGroup, IInv, TypeOK
  <2>. QED  BY <1>2, <2>1
<1>4. CASE CreateNvmm
  <2>1. /\ pc' = "set_default" /\ groups' = {DefaultGid, NvmmGid} /\ sticky' = {NvmmGid}
        /\ expiry' = [expiry EXCEPT ![NvmmGid] = NvmmExt]
    BY <1>4 DEF CreateNvmm, Goto, CreateGroup
  <2>2. expiry'[NvmmGid] = NvmmExt
    BY <2>1, GroupAssumption DEF IInv, TypeOK
  <2>. QED  BY <1>2, <2>1, <2>2
<1>5. CASE SetDefault
  <2>1. pc = "set_default" /\ pc' = "register" /\ UNCHANGED <<groups, sticky, expiry>>
    BY <1>5 DEF SetDefault, Goto, DefaultGroup
  <2>. QED  BY <1>2, <2>1
<1>. QED  BY <1>3, <1>4, <1>5

\* main() hands a CPU to a group, or the program stops where one cannot be.
LEMMA AssignStep ==
  ASSUME SInv, IInv', AssignRegistered
  PROVE  SInv'
<1>1. /\ pc = "assign" /\ pc' = "register"
      /\ UNCHANGED <<core, sampling, terminated, pending, quiet, early>>
      /\ UNCHANGED <<groups, sticky, expiry, records, kernel>>
  BY DEF AssignRegistered, Goto, aux, AssignCore
<1>2. UNCHANGED <<group, left>>
  BY <1>1 DEF records
<1>. QED
  BY <1>1, <1>2 DEF SInv, STypeOK, Config, Startup, WritersKept, EarlyOnly,
     ExactAfterStartup, IInv, Tracked

\* Every record names a group, so that all of them are dropped with the groups.
LEMMA ReleaseStep ==
  ASSUME SInv, IInv', Release
  PROVE  SInv'
<1>1. /\ pc = "deinit" /\ pc' = "done"
      /\ UNCHANGED <<core, sampling, terminated, pending, quiet, early>>
      /\ groups' = {}
      /\ group' = [t \in Tid |-> IF group[t] \in groups THEN NoGroup ELSE group[t]]
  BY DEF Release, Goto, aux, Deinit, DestroyGroups, DestroyProcesses
<1>2. Tracked' = {}
  BY <1>1 DEF SInv, IInv, RecordsResolve, Tracked
<1>. QED
  BY <1>1, <1>2 DEF SInv, STypeOK, Config, Startup, WritersKept, EarlyOnly,
     ExactAfterStartup, IInv

\* Time passes; no record is older than the clock.
LEMMA ClockStep ==
  ASSUME SInv, IInv', Clock
  PROVE  SInv'
<1>. NvmmExt \in Nat
  BY ExpiryAssumption, ExtAssumption
<1>1. /\ UNCHANGED <<pc, core, sampling, terminated, pending, early, config, group, kernel>>
      /\ left' = [t \in Tid |-> Age(left[t])]
      /\ quiet' = [t \in Tid |-> IF quiet[t] < NvmmExt THEN quiet[t] + 1 ELSE NvmmExt]
  BY DEF Clock, Tick, main
<1>2. left \in [Tid -> Nat] /\ quiet \in [Tid -> 0 .. NvmmExt]
  BY DEF SInv, IInv, TypeOK, STypeOK
<1>3. WritersKept'
  <2>. SUFFICES ASSUME pc # "done", NEW t \in Tid, quiet'[t] < NvmmExt
                PROVE  group[t] = NvmmGid /\ left'[t] + quiet'[t] >= NvmmExt
    BY <1>1 DEF WritersKept
  <2>1. quiet[t] < NvmmExt /\ quiet'[t] = quiet[t] + 1 /\ left'[t] = Age(left[t])
    BY <1>1, <1>2
  <2>2. group[t] = NvmmGid /\ left[t] + quiet[t] >= NvmmExt
    BY <2>1 DEF SInv, WritersKept
  <2>. QED  BY <1>2, <2>1, <2>2 DEF Age
<1>4. quiet' \in [Tid -> 0 .. NvmmExt]
  BY <1>1, <1>2
<1>. QED
  BY <1>1, <1>3, <1>4 DEF SInv, STypeOK, Config, Startup, EarlyOnly,
     ExactAfterStartup, IInv, Tracked, Alive, config, kernel

\* A thread that starts has no mask of its own; one that exits has none at all.
LEMMA ThreadsStep ==
  ASSUME SInv, IInv', Threads
  PROVE  SInv'
<1>1. /\ UNCHANGED <<pc, core, sampling, terminated, pending, quiet, early>>
      /\ UNCHANGED <<config, records>>
  BY DEF Threads, main, aux, Spawn, Exit
<1>2. ExactAfterStartup'
  <2>. SUFFICES ASSUME pc \notin {"register", "assign"},
                       NEW t \in Alive' \ strayed', t \in Tracked, t \notin early
                PROVE  mask'[t] = cores[group[t]]
    BY <1>1 DEF ExactAfterStartup, config, records, Tracked
  <2>1. t \in Alive \ strayed /\ mask'[t] = mask[t]
    BY DEF Threads, Spawn, Exit, Alive, SInv, IInv, TypeOK
  <2>. QED  BY <2>1 DEF SInv, ExactAfterStartup
<1>. QED
  BY <1>1, <1>2 DEF SInv, STypeOK, Config, Startup, WritersKept, EarlyOnly,
     IInv, Tracked, config, records

\* What procaff_process_assign writes: the record of the thread of the sample, and
\* those of the others that have expired.
LEMMA AssignEffect ==
  ASSUME IInv, NEW g \in Gid, NEW t \in Tid, NEW mem \in BOOLEAN, ProcessAssign(g, t, mem)
  PROVE  /\ g \in groups
         /\ UNCHANGED config
         /\ Held(g, t) \/ (t \notin Tracked /\ ~mem) =>
              group'[t] = group[t] /\ left'[t] = left[t]
         /\ ~ (Held(g, t) \/ (t \notin Tracked /\ ~mem)) =>
              group'[t] = g /\ left'[t] = expiry[g]
         /\ \A u \in Tid \ {t} : u \notin Lapsed(t) =>
              group'[u] = group[u] /\ left'[u] = left[u]
         /\ \A u \in Alive' \ strayed' :
              u \in Tracked' =>
                \/ mask'[u] = cores[group'[u]]
                \/ /\ u \in Alive \ strayed /\ mask'[u] = mask[u] /\ group'[u] = group[u]
<1>. DEFINE entered == IF Held(g, t) \/ (t \notin Tracked /\ ~mem) THEN {} ELSE {t}
            moved == GroupChanged(entered, g)
            demoted == Demoted(Lapsed(t))
            dropped == Lapsed(t) \ demoted
            target(u) == IF u \in entered THEN g
                         ELSE IF u \in demoted THEN default
                         ELSE IF u \in dropped THEN NoGroup
                         ELSE group[u]
            calls == moved \cup demoted \cup dropped
            want == [u \in Tid |-> IF u \in dropped THEN Cpu
                                   ELSE IF u \in moved \cup demoted
                                   THEN cores[target(u)] ELSE mask[u]]
<1>1. /\ g \in groups /\ UNCHANGED config
      /\ group' = [u \in Tid |-> target(u)]
      /\ left' = [u \in Tid |-> IF u \in entered \cup demoted THEN expiry[target(u)]
                                ELSE left[u]]
      /\ SetAffinity(calls, want)
  BY DEF ProcessAssign
<1>2. /\ entered \subseteq {t} /\ moved = {u \in entered : group[u] # g}
      /\ demoted \subseteq Lapsed(t) /\ t \notin Lapsed(t) /\ Lapsed(t) \subseteq Tid
      /\ \A u \in demoted : default # NoGroup
  BY DEF GroupChanged, Demoted, Lapsed, Tracked
<1>3. entered = IF Held(g, t) \/ (t \notin Tracked /\ ~mem) THEN {} ELSE {t}
  OBVIOUS
<1>4. /\ TypeOK /\ default \in groups \cup {NoGroup}
  BY DEF IInv, RecordsResolve
<1>5. want \in [Tid -> SUBSET Cpu] /\ calls \in SUBSET Tid
  <2>1. \A u \in Tid : u \in moved \cup demoted => target(u) \in Gid
    BY <1>2, <1>4 DEF TypeOK
  <2>. QED  BY <1>2, <1>4, <2>1 DEF TypeOK
<1>6. \A u \in Alive' \ strayed' :
        /\ u \in Alive
        /\ u \in calls => mask'[u] = want[u]
        /\ u \notin calls => u \notin strayed /\ mask'[u] = mask[u]
  <2>. HIDE DEF calls, want
  <2>. QED  BY <1>1, <1>4, <1>5, SetAffinityEffect
<1>7. ASSUME NEW u \in Alive' \ strayed', u \in Tracked'
      PROVE  \/ mask'[u] = cores[group'[u]]
             \/ /\ u \in Alive \ strayed /\ mask'[u] = mask[u] /\ group'[u] = group[u]
  <2>. u \in Tid
    BY DEF Alive
  <2>1. group'[u] = target(u) /\ group'[u] # NoGroup
    BY <1>1, <1>7 DEF Tracked
  <2>2. u \notin dropped
    BY <1>2, <2>1
  <2>3. CASE u \in calls
    BY <1>6, <2>1, <2>2, <2>3
  <2>4. CASE u \notin calls
    BY <1>2, <1>6, <2>1, <2>4
  <2>. QED  BY <2>3, <2>4
<1>8. ASSUME NEW u \in Tid, u \notin entered, u \notin Lapsed(t)
      PROVE  group'[u] = group[u] /\ left'[u] = left[u]
  <2>. u \notin demoted /\ u \notin dropped
    BY <1>2, <1>8
  <2>. HIDE DEF entered, demoted, dropped
  <2>. QED  BY <1>1, <1>8
<1>9. ASSUME t \in entered
      PROVE  group'[t] = g /\ left'[t] = expiry[g]
  <2>. HIDE DEF entered, demoted, dropped
  <2>. QED  BY <1>1, <1>9
<1>. HIDE DEF entered, calls, want
<1>. QED  BY <1>1, <1>2, <1>3, <1>7, <1>8, <1>9

\* A sample is handled.
LEMMA SampleStep ==
  ASSUME SInv, IInv', NEW t \in Tid, NEW nvmm \in BOOLEAN, HandleSample(t, nvmm)
  PROVE  SInv'
<1>. NvmmExt \in Nat \ {0} /\ NvmmGid \in Gid /\ DefaultGid \in Gid /\ NvmmGid # DefaultGid
  BY ExpiryAssumption, ExtAssumption, GroupAssumption DEF NvmmGid, DefaultGid
<1>. DEFINE g == GroupOf(nvmm)
            moved == {u \in Tid : group'[u] # group[u]}
<1>1. /\ UNCHANGED <<pc, core, sampling, terminated>>
      /\ pending # {} /\ pending' \subseteq pending
      /\ quiet' = IF nvmm /\ t \in Tracked' THEN [quiet EXCEPT ![t] = 0] ELSE quiet
      /\ early' = IF pc \in {"register", "assign"} THEN early \cup moved
                  ELSE early \ moved
  BY DEF HandleSample, main
<1>2. PICK mem \in BOOLEAN : ProcessAssign(g, t, mem)
  BY DEF HandleSample
<1>3. g \in Gid /\ g = IF nvmm THEN NvmmGid ELSE DefaultGid
  BY DEF GroupOf
<1>4. /\ g \in groups
      /\ UNCHANGED config
      /\ Held(g, t) \/ (t \notin Tracked /\ ~mem) =>
           group'[t] = group[t] /\ left'[t] = left[t]
      /\ ~ (Held(g, t) \/ (t \notin Tracked /\ ~mem)) =>
           group'[t] = g /\ left'[t] = expiry[g]
      /\ \A u \in Tid \ {t} : u \notin Lapsed(t) =>
           group'[u] = group[u] /\ left'[u] = left[u]
      /\ \A u \in Alive' \ strayed' :
           u \in Tracked' =>
             \/ mask'[u] = cores[group'[u]]
             \/ /\ u \in Alive \ strayed /\ mask'[u] = mask[u] /\ group'[u] = group[u]
  <2>. HIDE DEF g
  <2>. QED  BY <1>2, <1>3, AssignEffect DEF SInv
<1>. HIDE DEF g
<1>5. /\ pc \in {"register", "assign", "running", "joining", "deinit"}
      /\ sticky = {NvmmGid} /\ expiry[NvmmGid] = NvmmExt
  BY <1>1, <1>4 DEF SInv, Config, Startup, STypeOK
<1>6. quiet \in [Tid -> 0 .. NvmmExt] /\ left \in [Tid -> Nat]
  BY DEF SInv, STypeOK, IInv, TypeOK
<1>7. WritersKept'
  <2>. SUFFICES ASSUME NEW u \in Tid, quiet'[u] < NvmmExt
                PROVE  group'[u] = NvmmGid /\ left'[u] + quiet'[u] >= NvmmExt
    BY DEF WritersKept
  <2>1. quiet[u] < NvmmExt => group[u] = NvmmGid /\ left[u] + quiet[u] >= NvmmExt
    BY <1>5 DEF SInv, WritersKept
  <2>2. CASE u = t /\ nvmm
    <3>1. ~ Held(g, t)
      BY <1>3, <1>5, <2>2 DEF Held
    <3>2. CASE t \notin Tracked /\ ~mem
      <4>1. group[t] = NoGroup /\ group'[t] = NoGroup
        BY <1>4, <3>2 DEF Tracked
      <4>2. quiet'[t] = quiet[t]
        BY <1>1, <4>1 DEF Tracked
      <4>. QED  BY <2>1, <2>2, <4>1, <4>2 DEF NoGroup, NvmmGid
    <3>3. CASE ~ (t \notin Tracked /\ ~mem)
      <4>1. group'[t] = NvmmGid /\ left'[t] = NvmmExt
        BY <1>3, <1>4, <1>5, <2>2, <3>1, <3>3
      <4>2. t \in Tracked'
        BY <4>1 DEF Tracked, NoGroup, NvmmGid
      <4>. QED  BY <1>1, <1>6, <2>2, <4>1, <4>2
    <3>. QED  BY <3>2, <3>3
  <2>3. CASE ~ (u = t /\ nvmm)
    <3>1. quiet'[u] = quiet[u]
      BY <1>1, <1>6, <2>3
    <3>2. group[u] = NvmmGid /\ left[u] + quiet[u] >= NvmmExt /\ left[u] # 0
      BY <1>6, <2>1, <3>1
    <3>3. CASE u = t
      <4>1. Held(g, t)
        BY <1>3, <1>5, <2>3, <3>2, <3>3
           DEF Held, Expired, Tracked, NoGroup, NvmmGid, DefaultGid
      <4>. QED  BY <1>4, <3>1, <3>2, <3>3, <4>1
    <3>4. CASE u # t
      <4>1. u \notin Lapsed(t)
        BY <3>2 DEF Lapsed, Expired
      <4>. QED  BY <1>4, <3>1, <3>2, <3>4, <4>1
    <3>. QED  BY <3>3, <3>4
  <2>. QED  BY <2>2, <2>3
<1>8. EarlyOnly'
  BY <1>1 DEF SInv, EarlyOnly, Tracked
<1>9. ExactAfterStartup'
  <2>. SUFFICES ASSUME pc \notin {"register", "assign"},
                       NEW u \in Alive' \ strayed', u \in Tracked', u \notin early'
                PROVE  mask'[u] = cores[group'[u]]
    BY <1>1, <1>4 DEF ExactAfterStartup, config
  <2>1. CASE mask'[u] = mask[u] /\ group'[u] = group[u] /\ u \in Alive \ strayed
    <3>1. u \in Tracked /\ u \notin early
      BY <1>1, <2>1 DEF Tracked, Alive
    <3>. QED  BY <2>1, <3>1 DEF SInv, ExactAfterStartup
  <2>. QED  BY <1>4, <2>1
<1>10. STypeOK'
  <2>1. quiet' \in [Tid -> 0 .. NvmmExt]
    BY <1>1, <1>6
  <2>. QED  BY <1>1, <2>1 DEF SInv, STypeOK, IInv
<1>11. Config' /\ Startup'
  BY <1>1, <1>4, <1>5 DEF SInv, Config, Startup, config
<1>. QED  BY <1>7, <1>8, <1>9, <1>10, <1>11 DEF SInv

\* Every step of the program keeps the invariant.
LEMMA NextSInv == SInv /\ [SNext]_allVars => SInv'
<1>. SUFFICES ASSUME SInv, [SNext]_allVars PROVE SInv'
  OBVIOUS
<1>1. IInv'
  BY StepImplements, NextIInv DEF SInv
<1>2. ASSUME NEW t \in Tid, NEW nvmm \in BOOLEAN, HandleSample(t, nvmm)
      PROVE  SInv'
  BY <1>1, <1>2, SampleStep
<1>3. CASE Main
  BY <1>1, <1>3, QuietStep, CreateStep, AssignStep, ReleaseStep DEF Main
<1>4. CASE Clock
  BY <1>1, <1>4, ClockStep
<1>5. CASE Threads
  BY <1>1, <1>5, ThreadsStep
<1>6. CASE \/ \E s \in pending : LoseSample(s)
           \/ \E t \in Tid, nvmm \in BOOLEAN : Store(t, nvmm)
           \/ StopSampling \/ Signal \/ UNCHANGED allVars
  BY <1>6, QuietStep
<1>. QED  BY <1>2, <1>3, <1>4, <1>5, <1>6 DEF SNext

-----------------------------------------------------------------------------
(* The theorems.                                                           *)

\* The invariant holds in every state of the program.
THEOREM SInvariance == SSpec => []SInv
BY InitSInv, NextSInv, PTL DEF SSpec

\* The running program uses the affinity manager as its API allows, with the kernel,
\* the clock, the sampler thread and main() interleaved in any way: what is proved
\* of any sequence of calls holds of the program.
THEOREM Implementation == SSpec => Spec
<1>1. SInit => Init
  BY DEF SInit
<1>2. SInv /\ [SNext]_allVars => [Next]_vars
  BY StepImplements
<1>. QED  BY <1>1, <1>2, SInvariance, PTL DEF SSpec, Spec

\* Threads of the program that are tracked in different groups share no CPU, also
\* while main() is still handing out CPUs and the sampler moves threads.
THEOREM ProgramSpecialized == SSpec => []Specialized
BY Implementation, Specialization, PTL

\* A recent writer is not moved out of the NVMM group by any sample, its own of
\* another file, a stale one or another thread's, nor by an expiry.
THEOREM RecentWriters == SSpec => []RecentWritersHeld
<1>1. SInv => RecentWritersHeld
  BY DEF SInv, WritersKept, RecentWritersHeld
<1>. QED  BY <1>1, SInvariance, PTL

\* A thread that is moved after start-up gets the CPUs of its group and no others.
THEOREM Exactness == SSpec => []ExactAfterStartup
<1>1. SInv => ExactAfterStartup
  BY DEF SInv
<1>. QED  BY <1>1, SInvariance, PTL

\* When the program has ended, no thread is left confined by it.
THEOREM Released == SSpec => []ReleasedAtExit
<1>1. SInv => ReleasedAtExit
  <2>. SUFFICES ASSUME SInv, pc = "done"
                PROVE  Tracked = {} /\ \A t \in Alive \ strayed : mask[t] = Cpu
    BY DEF ReleasedAtExit
  <2>1. Tracked = {}
    BY DEF SInv, Config, IInv, RecordsResolve, Tracked
  <2>. QED  BY <2>1 DEF SInv, IInv, MaskFollowsRecord
<1>. QED  BY <1>1, SInvariance, PTL
=============================================================================
