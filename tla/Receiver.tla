------------------------------- MODULE Receiver -------------------------------
(***************************************************************************)
(* What main() reads before samples arrive, the mounts and its arguments,  *)
(* and what becomes of a sample in sample_receiver_func: the mock of its   *)
(* process is fetched from the cache (MockCache), the label of its address *)
(* is looked up in the mounts (MountTable), and a store to NVMM is         *)
(* accounted for.  Specialization has what the thread's group means.       *)
(***************************************************************************)
EXTENDS MockCache, MountTable, CpuList

CONSTANTS
  Mounts,    \* what /proc/mounts may hold at start-up
  Files,     \* files that processes map
  Char,      \* characters of their names and of mount points
  Arguments, \* pairs of lists of CPUs the program may be given
  NumCpus    \* get_nprocs()

ASSUME CpuAssumption ==
  /\ NumCpus \in Nat
  /\ Arguments \subseteq Seq(Int) \X Seq(Int)

\* No name is empty or has a slash in it.
Name == Seq(Char) \ {<<>>}

ASSUME PathAssumption ==
  /\ "/" \notin Char
  /\ Mounts \subseteq Seq([device : STRING, point : Seq(Name), options : STRING])
  /\ Files \subseteq Seq(Name)

Cpu == 0 .. NumCpus - 1

NoFile == <<>>
NoArguments == <<>>

VARIABLES
  phase,    \* of main(): what it does next, or "crashed"
  mounts,   \* auxiliary: /proc/mounts when it was read
  table,    \* mount_cache
  args,     \* argv[1] and argv[2]
  groupOf,  \* the registered CPUs and their group
  file,     \* the label of the sample, once it is known to be a file
  isNVMM

config == <<phase, mounts, table>>
cpus == <<args, groupOf>>
sample == <<file, isNVMM>>
rvars == <<vars, config, cpus, sample>>

RInit ==
  /\ Init
  /\ phase = "mounts"
  /\ mounts \in Mounts
  /\ table = <<>>
  /\ args = NoArguments /\ groupOf = <<>>
  /\ file = NoFile /\ isNVMM = FALSE

-----------------------------------------------------------------------------
(* main(), before any CPU is registered with the sampler.                  *)

\* nvmm_lookup_init does not look at the result of mount_update.  When a line
\* cannot be parsed or copied, the entry made for it is freed with the others: a
\* pointer that was never set is passed to free.
ReadMounts ==
  /\ phase = "mounts"
  /\ \/ /\ \A i \in DOMAIN mounts : Parses(mounts[i])
        /\ table' = Loaded(mounts) /\ phase' = "arguments"
     \/ /\ Oom \/ \E i \in DOMAIN mounts : ~Parses(mounts[i])
        /\ table' = <<>> /\ phase' \in {"arguments", "crashed"}
  /\ UNCHANGED <<vars, mounts, cpus, sample>>

\* The loop over the CPUs registers those of the first list, and puts them in
\* the NVMM group if they are in the second, too.
CoresOf(all, nvmm) ==
  LET listed == {c \in Cpu : CpuInCpulist(all, c)}
  IN  [c \in listed |-> IF CpuInCpulist(nvmm, c) THEN 1 ELSE 0]

RegisterCores ==
  /\ phase = "arguments"
  /\ phase' = "registered"
  /\ args' \in Arguments
  /\ groupOf' = CoresOf(args'[1], args'[2])
  /\ UNCHANGED <<vars, mounts, table, sample>>

\* What becomes of the CPUs is left to Specialization and Sampler.
Run ==
  /\ phase = "registered"
  /\ phase' = "run"
  /\ args' = NoArguments /\ groupOf' = <<>>
  /\ UNCHANGED <<vars, mounts, table, sample>>

-----------------------------------------------------------------------------
(* sample_receiver_func.                                                   *)

Running == phase = "run" /\ UNCHANGED <<config, cpus>>

Receive(p) ==
  /\ Running
  /\ ReceiverGet(p) \/ ReceiverFails(p)
  /\ UNCHANGED sample

\* memmock_get_label finds a file, which is classified at once.
Classify(f) ==
  /\ Running
  /\ pc = "sample" /\ file = NoFile
  /\ file' = f
  /\ isNVMM' = NvmmLookupQuery(table, Text(f))
  /\ UNCHANGED vars

\* No label, or one that is no file: the thread stays where it is.
Drop ==
  /\ Running
  /\ file = NoFile
  /\ EndSample
  /\ UNCHANGED sample

Account ==
  /\ Running
  /\ isNVMM
  /\ AccountingGet
  /\ UNCHANGED sample

\* procaff_process_assign.  Without memory for an entry the accounting does not
\* come to ask for the mock.
Assign ==
  /\ Running
  /\ file # NoFile
  /\ isNVMM => pc = "accounted" \/ Oom
  /\ EndSample
  /\ file' = NoFile /\ isNVMM' = FALSE

\* nvmm_lookup_deinit frees the table, memmkcache_deinit the mocks.
End ==
  /\ phase = "run"
  /\ Deinit
  /\ phase' = "ended" /\ table' = <<>>
  /\ UNCHANGED <<mounts, cpus, sample>>

Time ==
  /\ Running
  /\ Tick
  /\ UNCHANGED sample

RNext ==
  \/ ReadMounts \/ RegisterCores \/ Run
  \/ \E p \in Pid : Receive(p)
  \/ \E f \in Files : Classify(f)
  \/ Drop \/ Account \/ Assign \/ End \/ Time

RSpec == RInit /\ [][RNext]_rvars

\* Time goes on.  Nothing is assumed of samples or of main().
RFairSpec == RSpec /\ WF_rvars(Time)

-----------------------------------------------------------------------------
\* A store is taken for one to NVMM exactly when its file was on a DAX mount at
\* start-up: the longest mount point in the text is the deepest one in the tree of
\* files, a mount point that ends within a name does not count, whatever the
\* order of the mounts.  Nothing is NVMM when the mounts could not be read.
ClassifiedAsMounted ==
  file # NoFile /\ Plain(mounts) =>
    isNVMM = (table # <<>> /\ OnDax(mounts, file))

\* README, "Usage": lists of CPUs as in 0-7,15-23.  A CPU is sampled when the first
\* list denotes it, and kept for NVMM when the second does as well.
CpusAsListed ==
  phase = "registered" /\ WellFormed(args[1]) /\ WellFormed(args[2]) =>
    /\ DOMAIN groupOf = {c \in Cpu : Denotes(args[1], c)}
    /\ \A c \in DOMAIN groupOf : groupOf[c] = 1 <=> Denotes(args[2], c)
=============================================================================
