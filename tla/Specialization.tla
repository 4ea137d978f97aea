--------------------------- MODULE Specialization ---------------------------
(***************************************************************************)
(* The running program as the affinity manager sees it: main() of          *)
(* src/main.c creates the two groups, registers the CPUs of its first      *)
(* argument one by one while the sampler thread already drains the rings   *)
(* of the CPUs registered so far, waits for a signal, joins the sampler    *)
(* and gives every thread its CPUs back.  The sampler turns each sample    *)
(* into a call of procaff_process_assign (sample_receiver_func).           *)
(***************************************************************************)
EXTENDS Procaff

CONSTANTS
  AllCores,     \* CPUs of argv[1]: sampled, and given to one of the groups
  NvmmCores,    \* CPUs of argv[2]
  DefaultExt,   \* expiry_default, in ticks
  NvmmExt,      \* expiry_nvmm
  Churn,        \* whether threads start and exit meanwhile
  Oom           \* whether the allocation of a record may fail

DefaultGid == 0
NvmmGid == 1

ASSUME GroupAssumption == {DefaultGid, NvmmGid} \subseteq Gid
ASSUME CoreAssumption == Cpu \subseteq Nat
ASSUME ExpiryAssumption == DefaultExt \in Ext /\ NvmmExt \in Ext \ {0}
ASSUME FlagAssumption == Churn \in BOOLEAN /\ Oom \in BOOLEAN

VARIABLES
  pc,           \* where main() is
  core,         \* the CPU its loop is at, -1 before the first
  sampling,     \* the sampler thread has not left its loop
  terminated,   \* set by the signal handler
  pending,      \* <<t, nvmm>>: samples of file-backed stores in the rings
  quiet,        \* auxiliary: ticks since an NVMM store of t was recorded
  early         \* auxiliary: threads last moved before the loop ended

main == <<pc, core, sampling, terminated>>
aux == <<quiet, early>>
allVars == <<vars, main, pending, aux>>

\* CPUs whose perf event is open.
Sampled == {c \in AllCores \cap Cpu : c =< core}

\* What the loop of main() has left.
Remaining == (AllCores \cap Cpu) \ Sampled

GroupOf(nvmm) == IF nvmm THEN NvmmGid ELSE DefaultGid

SInit ==
  /\ Init
  /\ pc = "create_default"
  /\ core = -1
  /\ sampling = TRUE
  /\ terminated = FALSE
  /\ pending = {}
  /\ quiet = [t \in Tid |-> NvmmExt]
  /\ early = {}

-----------------------------------------------------------------------------
(* main().                                                                 *)

Goto(from, to) ==
  /\ pc = from
  /\ pc' = to
  /\ UNCHANGED <<terminated, pending, aux>>

CreateDefault ==
  /\ Goto("create_default", "create_nvmm")
  /\ CreateGroup(DefaultGid, DefaultExt, FALSE)
  /\ UNCHANGED <<core, sampling>>

CreateNvmm ==
  /\ Goto("create_nvmm", "set_default")
  /\ CreateGroup(NvmmGid, NvmmExt, TRUE)
  /\ UNCHANGED <<core, sampling>>

SetDefault ==
  /\ Goto("set_default", "register")
  /\ DefaultGroup(DefaultGid)
  /\ UNCHANGED <<core, sampling>>

\* The perf event of the next CPU is live before it belongs to a group.
RegisterCore ==
  /\ Goto("register", "assign")
  /\ \E c \in Remaining : /\ \A d \in Remaining : c =< d
                         /\ core' = c
  /\ UNCHANGED <<vars, sampling>>

AssignRegistered ==
  /\ Goto("assign", "register")
  /\ AssignCore(GroupOf(core \in NvmmCores), core)
  /\ UNCHANGED <<core, sampling>>

EndLoop ==
  /\ Remaining = {}
  /\ Goto("register", "running")
  /\ UNCHANGED <<vars, core, sampling>>

SignalStop ==
  /\ terminated
  /\ Goto("running", "joining")
  /\ UNCHANGED <<vars, core, sampling>>

JoinSampler ==
  /\ ~sampling
  /\ Goto("joining", "deinit")
  /\ UNCHANGED <<vars, core, sampling>>

Release ==
  /\ Goto("deinit", "done")
  /\ Deinit
  /\ UNCHANGED <<core, sampling>>

Main ==
  \/ CreateDefault \/ CreateNvmm \/ SetDefault
  \/ RegisterCore \/ AssignRegistered \/ EndLoop
  \/ SignalStop \/ JoinSampler \/ Release

-----------------------------------------------------------------------------
(* The sampler thread.                                                     *)

HandleSample(t, nvmm) ==
  /\ sampling
  /\ <<t, nvmm>> \in pending
  /\ pending' = pending \ {<<t, nvmm>>}
  /\ \E mem \in {TRUE} \cup (IF Oom THEN {FALSE} ELSE {}) :
       ProcessAssign(GroupOf(nvmm), t, mem)
  /\ quiet' = IF nvmm /\ t \in Tracked' THEN [quiet EXCEPT ![t] = 0] ELSE quiet
  /\ early' = LET moved == {u \in Tid : group'[u] # group[u]}
              IN  IF pc \in {"register", "assign"} THEN early \cup moved
                  ELSE early \ moved
  /\ UNCHANGED main

\* No mapping for the process, or no label for the address.
LoseSample(s) ==
  /\ sampling
  /\ s \in pending
  /\ pending' = pending \ {s}
  /\ UNCHANGED <<vars, main, aux>>

\* Mutant: the worker leaves only when the rings are empty.
StopDrained ==
  /\ pc = "joining"
  /\ sampling
  /\ pending = {}
  /\ sampling' = FALSE
  /\ UNCHANGED <<vars, pc, core, terminated, pending, aux>>

\* The worker looks at its state between two iterations only.
StopSampling ==
  /\ pc = "joining"
  /\ sampling
  /\ sampling' = FALSE
  /\ UNCHANGED <<vars, pc, core, terminated, pending, aux>>

-----------------------------------------------------------------------------
(* The world around the program.                                           *)

\* A sampled store to a file mapping, on a CPU the thread may run on.
Store(t, nvmm) ==
  /\ mask[t] \cap Sampled # {}
  /\ pc # "done"
  /\ pending' = pending \cup {<<t, nvmm>>}
  /\ UNCHANGED <<vars, main, aux>>

Signal ==
  /\ terminated' = TRUE
  /\ UNCHANGED <<vars, pc, core, sampling, pending, aux>>

Clock ==
  /\ Tick
  /\ quiet' = [t \in Tid |->
                IF quiet[t] < NvmmExt THEN quiet[t] + 1 ELSE NvmmExt]
  /\ UNCHANGED <<main, pending, early>>

Threads ==
  /\ Churn
  /\ \/ \E t \in Tid, m \in SUBSET Cpu : Spawn(t, m)
     \/ \E t \in Tid : Exit(t)
  /\ UNCHANGED <<main, pending, aux>>

SNext ==
  \/ Main
  \/ \E t \in Tid, nvmm \in BOOLEAN : HandleSample(t, nvmm)
  \/ \E s \in pending : LoseSample(s)
  \/ StopSampling
  \/ \E t \in Tid, nvmm \in BOOLEAN : Store(t, nvmm)
  \/ Signal
  \/ Clock
  \/ Threads

SSpec == SInit /\ [][SNext]_allVars

\* main and the sampler are threads the kernel schedules, the sampler drains
\* the rings, and time passes.
Fairness ==
  /\ WF_allVars(Main)
  /\ WF_allVars(StopSampling)
  /\ \A t \in Tid, nvmm \in BOOLEAN :
       WF_allVars(HandleSample(t, nvmm) \/ LoseSample(<<t, nvmm>>))
  /\ WF_allVars(Clock)

FairSpec == SSpec /\ Fairness

-----------------------------------------------------------------------------
STypeOK ==
  /\ TypeOK
  /\ pc \in {"create_default", "create_nvmm", "set_default", "register",
             "assign", "running", "joining", "deinit", "done"}
  /\ core \in Cpu \cup {-1}
  /\ sampling \in BOOLEAN
  /\ terminated \in BOOLEAN
  /\ pending \subseteq Tid \X BOOLEAN
  /\ quiet \in [Tid -> 0 .. NvmmExt]
  /\ early \subseteq Tid

\* A thread whose NVMM store was recorded less than expiry_nvmm ago is in the
\* NVMM group, whatever other samples, stale or its own, were handled since.
RecentWritersHeld ==
  pc # "done" => \A t \in Tid : quiet[t] < NvmmExt => group[t] = NvmmGid

\* Once the loop of main() is over, a thread that was moved after it runs on
\* exactly the CPUs of its group: demotions, expiries and stale samples never
\* leave the mask of another group or a part of its own.
ExactAfterStartup ==
  pc \notin {"register", "assign"} =>
    \A t \in ((Alive \ strayed) \cap Tracked) \ early :
      mask[t] = cores[group[t]]

\* The program leaves no thread confined that it confined itself.
ReleasedAtExit ==
  pc = "done" => /\ Tracked = {}
                 /\ \A t \in Alive \ strayed : mask[t] = Cpu

\* Whatever the sampler is doing when the signal arrives, the program ends.
Terminates == terminated ~> pc = "done"

\* A thread that stops storing to NVMM does not stay confined: as long as
\* samples keep arriving, its own or another thread's, it leaves the group.
EventuallyReleased ==
  \A t \in Tid :
    /\ <>[][~HandleSample(t, TRUE)]_allVars
    /\ []<><<\E u \in Tid, nvmm \in BOOLEAN : HandleSample(u, nvmm)>>_allVars
    => <>[](group[t] # NvmmGid)

\* README.md, line 3: the program "confines threads writing to NVMM to a
\* subset of the available CPU cores".  A thread whose NVMM stores keep being
\* handled is, at some time, confined to CPUs of the second argument.
EventuallyConfined ==
  \A t \in Tid :
    []<><<HandleSample(t, TRUE)>>_allVars
    => <>(t \notin Alive \/ mask[t] \subseteq NvmmCores)
=============================================================================
