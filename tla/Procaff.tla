------------------------------- MODULE Procaff -------------------------------
(***************************************************************************)
(* The affinity manager (src/procaffinity): groups of CPUs, the threads    *)
(* assigned to them, and the CPU masks the kernel holds for these threads. *)
(* One action is one call of the API of procaff.h that gets past its       *)
(* early returns; the other actions are the kernel's and the clock's.      *)
(* Calls may come in any order, as the API allows.                         *)
(*                                                                         *)
(* A record of the process list is (group[t], left[t]), group[t] = NoGroup *)
(* when thread t has none.  left[t] is expiry_time - now, floored at zero: *)
(* expiry_passed() only asks whether it is zero.                           *)
(***************************************************************************)
EXTENDS Integers

CONSTANTS
  Tid,      \* thread ids, the pid_t the kernel and the records are keyed by
  Gid,      \* group ids
  Cpu,      \* the CPUs counted by get_nprocs()
  Ext       \* the expiries a group can be created with, in ticks

NoGroup == -1

\* procaff_cpu_assignee() answers "no group" with a negative number.
ASSUME GidAssumption == Gid \subseteq Nat
ASSUME CpuAssumption == Cpu # {}
ASSUME ExtAssumption == Ext \subseteq Nat

VARIABLES
  groups,   \* ids in context->groups
  expiry,   \* group -> default_expiry, 0 for a freed group
  sticky,   \* the groups with sticky set
  cores,    \* group -> its cpu_set_t
  default,  \* context->default_group, NoGroup for NULL
  group,    \* thread -> group of its record
  left,     \* thread -> ticks until its record expires
  mask,     \* kernel: thread -> CPUs it may run on, {} for a dead thread
  strayed   \* auxiliary: live threads whose mask no call of procaff explains

config == <<groups, expiry, sticky, cores, default>>
records == <<group, left>>
kernel == <<mask, strayed>>
vars == <<config, records, kernel>>

Alive == {t \in Tid : mask[t] # {}}
Tracked == {t \in Tid : group[t] # NoGroup}

Init ==
  /\ groups = {}
  /\ expiry = [g \in Gid |-> 0]
  /\ sticky = {}
  /\ cores = [g \in Gid |-> {}]
  /\ default = NoGroup
  /\ group = [t \in Tid |-> NoGroup]
  /\ left = [t \in Tid |-> 0]
  /\ mask \in [Tid -> SUBSET Cpu]
  /\ strayed = {t \in Tid : mask[t] \notin {{}, Cpu}}

-----------------------------------------------------------------------------
(* The kernel's side of procaff_policy_set and procaff_policy_reset.       *)

\* sched_setaffinity(t, want[t]) for every t in calls, the results ignored:
\* it fails for a thread that has exited and for an empty set of CPUs.
SetAffinity(calls, want) ==
  LET applied == {t \in calls \cap Alive : want[t] # {}}
      failed == (calls \cap Alive) \ applied
  IN  /\ mask' = [t \in Tid |-> IF t \in applied THEN want[t] ELSE mask[t]]
      /\ strayed' = (strayed \ applied) \cup failed

\* procaff_policy_reset: every CPU of the machine, whatever the mask was once.
Reset == [t \in Tid |-> Cpu]

\* Mutant: the CPUs are not given back.
DropProcesses(S) ==
  /\ group' = [t \in Tid |-> IF t \in S THEN NoGroup ELSE group[t]]
  /\ left' = [t \in Tid |-> IF t \in S THEN 0 ELSE left[t]]
  /\ UNCHANGED kernel

\* Drop the records of the threads in S: each gets every CPU back.
DestroyProcesses(S) ==
  /\ group' = [t \in Tid |-> IF t \in S THEN NoGroup ELSE group[t]]
  /\ left' = [t \in Tid |-> IF t \in S THEN 0 ELSE left[t]]
  /\ SetAffinity(S, Reset)

-----------------------------------------------------------------------------
(* Groups and their CPUs.                                                  *)

CreateGroup(g, e, s) ==
  /\ g \notin groups
  /\ groups' = groups \cup {g}
  /\ expiry' = [expiry EXCEPT ![g] = e]
  /\ sticky' = IF s THEN sticky \cup {g} ELSE sticky \ {g}
  /\ cores' = [cores EXCEPT ![g] = {}]
  /\ UNCHANGED <<default, records, kernel>>

\* procaff_destroy_group of every group in S.
DestroyGroups(S) ==
  /\ groups' = groups \ S
  /\ expiry' = [g \in Gid |-> IF g \in S THEN 0 ELSE expiry[g]]
  /\ sticky' = sticky \ S
  /\ cores' = [g \in Gid |-> IF g \in S THEN {} ELSE cores[g]]
  /\ default' = IF default \in S THEN NoGroup ELSE default
  /\ DestroyProcesses({t \in Tid : group[t] \in S})

DestroyGroup(g) ==
  /\ g \in groups
  /\ DestroyGroups({g})

Deinit == DestroyGroups(groups)

\* Mutant: the group is not looked up.
DefaultUnchecked(g) ==
  /\ default' = g
  /\ UNCHANGED <<groups, expiry, sticky, cores, records, kernel>>

\* An unknown group clears the default.
DefaultGroup(g) ==
  /\ default' = IF g \in groups THEN g ELSE NoGroup
  /\ UNCHANGED <<groups, expiry, sticky, cores, records, kernel>>

\* Mutant: group 0 taken for "no group", assigned_to > 0.
AssignedAboveZero(c) == \E g \in groups \ {0} : c \in cores[g]

\* procaff_cpu_assignee() finds a group.
Assigned(c) == \E g \in groups : c \in cores[g]

\* Mutant: the CPU may have a group already.
AssignUnchecked(g, c) ==
  /\ g \in groups
  /\ cores' = [cores EXCEPT ![g] = @ \cup {c}]
  /\ UNCHANGED <<groups, expiry, sticky, default, records, kernel>>

AssignCore(g, c) ==
  /\ g \in groups
  /\ ~Assigned(c)
  /\ cores' = [cores EXCEPT ![g] = @ \cup {c}]
  /\ UNCHANGED <<groups, expiry, sticky, default, records, kernel>>

\* The call refuses every CPU that some group has, its own included.
UnassignCore(g, c) ==
  /\ g \in groups
  /\ cores' = IF Assigned(c) THEN cores ELSE [cores EXCEPT ![g] = @ \ {c}]
  /\ UNCHANGED <<groups, expiry, sticky, default, records, kernel>>

-----------------------------------------------------------------------------
(* Threads and their records.                                              *)

Expired(t) == left[t] = 0

\* Mutant: the expiry is tested the wrong way round.
HeldExpired(g, t) ==
  t \in Tracked /\ group[t] # g /\ group[t] \in sticky /\ Expired(t)

\* A sticky group keeps an unexpired thread from an assignment elsewhere.
Held(g, t) ==
  /\ t \in Tracked
  /\ group[t] # g
  /\ group[t] \in sticky
  /\ ~Expired(t)

\* Mutant: the loop ends at the record it looks for.
LapsedUntilMatch(t) == {u \in Tracked \ {t} : Expired(u) /\ t \notin Tracked}

\* Records of other threads found expired on the way through the list.
Lapsed(t) == {u \in Tracked \ {t} : Expired(u)}

\* An expired record falls back to the default group, or is dropped when it
\* already was there or there is no default.
Demoted(S) == {u \in S : default # NoGroup /\ group[u] # default}

\* Mutant: the previous group is read after it was overwritten.
GroupNew(written, g) == written \ Tracked

\* procaff_process_update: of the threads whose record is written, those whose
\* group changes (a new record has none before) get the mask of group g.
GroupChanged(written, g) == {u \in written : group[u] # g}

\* mem: the allocation of a new record succeeds.
ProcessAssign(g, t, mem) ==
  /\ g \in groups
  /\ LET entered == IF Held(g, t) \/ (t \notin Tracked /\ ~mem) THEN {} ELSE {t}
         moved == GroupChanged(entered, g)
         demoted == Demoted(Lapsed(t))
         dropped == Lapsed(t) \ demoted
         target(u) == IF u \in entered THEN g
                      ELSE IF u \in demoted THEN default
                      ELSE IF u \in dropped THEN NoGroup
                      ELSE group[u]
     IN  /\ group' = [u \in Tid |-> target(u)]
         /\ left' = [u \in Tid |->
                       IF u \in entered \cup demoted THEN expiry[target(u)]
                       ELSE left[u]]
         /\ SetAffinity(moved \cup demoted \cup dropped,
                        [u \in Tid |-> IF u \in dropped THEN Cpu
                                       ELSE IF u \in moved \cup demoted
                                       THEN cores[target(u)] ELSE mask[u]])
  /\ UNCHANGED config

ProcessUnassign(t) ==
  /\ t \in Tracked
  /\ DestroyProcesses({t})
  /\ UNCHANGED config

-----------------------------------------------------------------------------
(* The kernel and the clock.                                               *)

\* A new thread takes the mask of the thread that created it, and perhaps
\* the id of one that has exited and still has a record.
Spawn(t, m) ==
  /\ t \notin Alive
  /\ m \in {Cpu} \cup {mask[p] : p \in Alive}
  /\ mask' = [mask EXCEPT ![t] = m]
  /\ strayed' = IF m = Cpu /\ t \notin Tracked THEN strayed ELSE strayed \cup {t}
  /\ UNCHANGED <<config, records>>

Exit(t) ==
  /\ t \in Alive
  /\ mask' = [mask EXCEPT ![t] = {}]
  /\ strayed' = strayed \ {t}
  /\ UNCHANGED <<config, records>>

\* Mutant: an expiry that has passed runs on.
AgeOn(n) == n - 1

\* One tick of time off an expiry that has not passed.
Age(n) == IF n = 0 THEN 0 ELSE n - 1

Tick ==
  /\ left' = [t \in Tid |-> Age(left[t])]
  /\ UNCHANGED <<config, group, kernel>>

-----------------------------------------------------------------------------
Api ==
  \/ \E g \in Gid, e \in Ext, s \in BOOLEAN : CreateGroup(g, e, s)
  \/ \E g \in Gid : DestroyGroup(g)
  \/ Deinit
  \/ \E g \in Gid : DefaultGroup(g)
  \/ \E g \in Gid, c \in Cpu : AssignCore(g, c)
  \/ \E g \in Gid, c \in Cpu : UnassignCore(g, c)
  \/ \E g \in Gid, t \in Tid, mem \in BOOLEAN : ProcessAssign(g, t, mem)
  \/ \E t \in Tid : ProcessUnassign(t)

Environment ==
  \/ \E t \in Tid, m \in SUBSET Cpu : Spawn(t, m)
  \/ \E t \in Tid : Exit(t)
  \/ Tick

Next == Api \/ Environment

Spec == Init /\ [][Next]_vars

-----------------------------------------------------------------------------
TypeOK ==
  /\ groups \subseteq Gid
  /\ expiry \in [Gid -> Nat]
  /\ sticky \subseteq groups
  /\ cores \in [Gid -> SUBSET Cpu]
  /\ default \in Gid \cup {NoGroup}
  /\ group \in [Tid -> Gid \cup {NoGroup}]
  /\ left \in [Tid -> Nat]
  /\ mask \in [Tid -> SUBSET Cpu]
  /\ strayed \subseteq Alive

\* Every record names a group that exists, and so does the default:
\* procaff_process_assign dereferences both without a check, whatever was
\* destroyed, expired or demoted in between.
RecordsResolve ==
  /\ \A t \in Tracked : group[t] \in groups
  /\ default \in groups \cup {NoGroup}

\* No CPU is in two groups, in any order of create, destroy and assign calls.
CoresDisjoint ==
  \A g, h \in groups : g # h => cores[g] \cap cores[h] = {}

\* What the kernel enforces follows the records: a thread without a record
\* may run anywhere, a thread with one only on CPUs of its group.  Strayed
\* threads are those whose last sched_setaffinity failed, that started with or
\* inherited a confined mask, or that reuse the id of a record.
MaskFollowsRecord ==
  \A t \in Alive \ strayed :
    IF t \in Tracked THEN mask[t] \subseteq cores[group[t]] ELSE mask[t] = Cpu

\* Core specialization itself: threads tracked in different groups never
\* share a CPU (README.md, Core Specialization).
Specialized ==
  \A t, u \in (Alive \ strayed) \cap Tracked :
    group[t] # group[u] => mask[t] \cap mask[u] = {}
=============================================================================
