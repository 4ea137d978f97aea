# TLA+ models of pmm-bandwidth-estimator

pmm-bandwidth-estimator samples the stores of all threads of a machine with
PEBS. It keeps threads that write to Optane DC mappings on a subset of the CPUs
and accounts for their writes. The modules here model its control: the affinity
manager, the write accounting down to its lists, text and pacing, the sampler, the
memory mocks and their cache, the mount table and the lists of CPUs, and the
program that ties them together. TLC checks them on small instances. TLAPS proves
every safety property that the passing runs check, and both refinements, for every
value of the constants; liveness stays with TLC. Paths below are relative to the
repository; `procaff.c` is `src/procaffinity/procaff.c` and so on.

## 1. The system

| part | state | operations | hard because |
|---|---|---|---|
| affinity manager, `src/procaffinity` | list of groups (id, expiry, sticky, CPU set), default group, list of thread records (tid, group, expiry time); outside it, the kernel's CPU mask of each thread | create/destroy group, default group, assign/unassign CPU, assign/unassign thread | a thread's record and its mask are two copies of one fact, `sched_setaffinity` may fail and is not looked at; records expire only when some other thread is sampled; thread ids are reused; pointers into the list of groups |
| sampler, `src/sampler` | list of registered CPUs, one ring per CPU shared with the kernel | init (starts the worker), register a CPU, rounds of the worker, stop, free | the kernel writes while the worker reads; records wrap around; the list grows while it is walked; a CPU can be busier than the worker is fast |
| write accounting, `src/access` | `current_entries` (per process: totals, a row per thread), `rw_lock`, the dump thread and its private list | write (sampler thread), iteration (dump thread), init, deinit | two threads and a hand-over of a whole list; start-up and shutdown orders; allocations that fail half-way |
| program, `src/main.c` | the contexts of all parts, `terminated` | start-up, the receiver of samples, shutdown | the sampler runs while main() still configures the groups |
| thread wrapper, `src/thread` | state word, `pthread_t` | init, signal stop, join, deinit | deinit cancels a thread that was joined |
| memory inspector, mock, views, `src/memory` | regions of `/proc/<pid>/maps`, cached copies of mapped memory | lookup, update on a miss, populate, invalidate | copies go stale; parse and allocation failures half-way through a list |
| memory caches, `src/memory/*_cache.c` | per-process entries with an expiry | get, expire, refresh | refresh of an expired entry, eviction while iterating |
| mounts and NVMM lookup, `src/mount`, `src/nvmm` | table of `/proc/mounts` read once | query: longest mount point, `dax` option | stale after start-up; ties and prefixes |
| CPU lists, `helper.h` | none | `cpu_in_cpulist` | malformed and open ranges |
| time, `expiry.h`, `timespec_diff.h` | none | extend, passed, difference | carries, negative differences |
| intrusive list, `list.h` | none of its own | add, remove, iterate | pointer order, safe iteration |

How they interact: the sampler's worker calls `sample_receiver_func` for every
record. The receiver finds the file behind the address (memory mock), asks
whether it is on a DAX mount (NVMM lookup), books the store with the accounting
if so, and assigns the thread to group 1 (NVMM) or 0. The dump thread shares
only `current_entries` with the sampler thread. main() starts both threads,
configures groups and CPUs while they run, waits for a signal, joins the
sampler, then the dump thread, and resets all affinities.

What makes each part correct: groups are disjoint and masks follow records
(affinity manager); records are delivered once, whole and in order, and no CPU
starves (sampler); every store is reported at most once and none is lost except
at shutdown (accounting); recent NVMM writers stay confined, others are let go,
nobody stays confined after exit (program).

## 2. Modules

| module | models | state and code |
|---|---|---|
| `Procaff` | affinity manager, calls in any order | `groups`, `expiry`, `sticky`, `cores`: `struct procaff_group`; `default`: `default_group`; `group`, `left`: `struct procaff_process`; `mask`: the kernel |
| `ProcaffProofs` | | theorems about `Procaff` |
| `Specialization` | main() and the receiver, on top of `Procaff` (EXTENDS) | `pc`, `core`: where main() is; `sampling`: the worker runs; `pending`: samples not handled yet |
| `SpecializationProofs` | | theorems about `Specialization`, on top of those about `Procaff` |
| `WriteLedger` | abstract: what an accounting promises | `open`, `printed`, `closed` |
| `AccessAccounting` | sampler thread, dump thread and main() around `src/access` | `mainPc`, `writerPc`, `workerPc`; `holder`: `rw_lock`; `listed`, `total`, `row`: the two lists of entries, and what was printed or freed |
| `AccessAccountingProofs` | | theorems about `AccessAccounting` |
| `Sampler` | rings, worker, registration, shutdown | `ring`, `head`, `tail`: `perf_event_mmap_page`; `registered`: `registered_cores`; `pc`, `at`, `count`, `ph`, `temp`: the worker's locals |
| `SamplerProofs` | | theorems about `Sampler` |
| `MemoryMock` | inspector, mock and views of one process, and the reading of an instruction | `maps`: the kernel; `regions`: `memregion_cache`; `views`: `memview_cache`; `want`, `retry`, `ip`, `read`: locals of the lookups; `base`, `live`: what `translated_ip` points into |
| `MemoryMockProofs` | | theorems about `MemoryMock` |
| `MockCache` | the cache of mocks and its two users within a sample | `cache`: `struct memmkcache_entry`; `pc`, `pid`: the receiver |
| `MountTable` | the copy of `/proc/mounts` and the NVMM lookup, as operators | a mount point is a sequence of names; the program sees its text |
| `CpuList` | `cpu_in_cpulist`, as an operator | a list is a sequence of numbers, commas, dashes and others |
| `Receiver` | what main() reads at start-up and `sample_receiver_func`, on top of `MockCache`, `MountTable`, `CpuList` (EXTENDS) | `phase`: main(); `table`: `mount_cache`; `args`, `groupOf`: arguments and CPUs; `file`, `isNVMM`: locals of the receiver |
| `ReceiverProofs` | | theorems about `CpuList`, `MockCache`, `MountTable` and `Receiver` |
| `ListOps` | `list.h`, as operators on pointers | a record of `next` and `prev` of all nodes |
| `ListOpsProofs` | | what the operations of `list.h` do to a ring, and induction over numbers |
| `TimeSpec` | `timespec_diff.h` and the arithmetic of `expiry.h`, as operators | `[sec, nsec]`: `struct timespec` |
| `EntryQueue` | abstract: what the hand-over of entries promises | `shared`, `taken`: processes in order |
| `DumpThread` | the dump thread with the sampler's insertions and main()'s output, on `ListOps` and `TimeSpec` | `link`, `owner`, `used`: the heap; `workerPc`, `first`, `cur`, `nxt`, `nap`: locals of `access_worker`; `mainPc`, `state`: main() and the state word; `doc`: what a JSON reader of stdout has seen |
| `DumpThreadProofs` | | theorems about `TimeSpec` and `DumpThread` |
| `MCProcaff`, `MCSpecialization`, `MCSampler`, `MCReceiver`, `MCDumpThread` | symmetry, tables, lists and record sizes for TLC | |

**Procaff.** One action is one call that gets past its early returns (a call
that returns early changes nothing). `ProcessAssign` is the whole of
`procaff_process_assign`: the loop over all records, which updates the thread's
own record and expires others on the way, is written as the sets `Lapsed`,
`Demoted`, `Held` of records each branch applies to; the loop treats every
record independently, so the order of the list does not matter. An expiry time
is kept as the time left, floored at zero, since the code only asks whether it
has passed. `strayed` is an auxiliary set of threads whose mask no successful
call explains: the last `sched_setaffinity` failed, the thread inherited a
confined mask, or it reuses the id of a record. Properties about masks exclude
these; who gets into the set after start-up is narrowed in `Specialization`.

**Specialization.** The steps of main() from line 125 on, one action each,
interleaved with samples. A sample of thread t may appear when t may run on a
CPU whose event is open; it may be handled at any later time, so stale samples
are included. `LoseSample` covers the early returns of the receiver. `quiet` and
`early` are auxiliary.

**AccessAccounting.** Each critical section is split into its steps (lock, find
or insert, decode, charge, unlock; lock, splice, unlock, print entry by entry),
so that what the lock protects is tested and not assumed. `total[place]` and
`row[place]` count accesses by where they are: in the shared list, in the dump
thread's list, printed, or freed unprinted. The dump thread exists before
`ListInit` and `LockInit`, as in the code; touching either too early sets
`fault`, after which nothing happens.

**Sampler.** The content of a ring slot is which unit of which record it holds.
A slot behind `data_tail` is unknown from the moment it is given back. The copy
of a wrapped record is done slot by slot as the two `memcpy` calls do it.
Positions wrap at `Wrap` as a 64 bit counter does. Memory order is that of the
program: `Produce` publishes a whole record, which is what the kernel's barrier
before `data_head` and the worker's `__sync_synchronize` guarantee.

**MemoryMock.** The two lookups are loops of up to two rounds; each round is one
action, so that the process maps and unmaps between any two. `/proc/<pid>/maps`
itself is read at one instant. Regions hold addresses, not bytes: what matters
is which region or view an address is found in. `Fault` stands for the three
places where the program has no defined behaviour left. `steady` is auxiliary.
With `LOGGER_ENABLE_DEBUG` the log line of access_accounting.c:181 would look
up a label and so might renew the regions; logging is off by default and left
out.

**MockCache.** One action is one call of `memmkcache_get` by one of its users,
`main.c:44` and `access_accounting.c:115`. The order of the list is kept, since
which entries a walk reaches could depend on it. What a mock answers is left to
`MemoryMock`.

**Receiver.** main() reads the mounts and then registers CPUs; both are done in one
step each, since no other thread can see them half-way. A mount is what the kernel
has; `Loaded` is what `mount_update` makes of it, and every failure of it leaves
an empty table, or a crash where an entry is freed whose pointer was never set. A
sample fetches its mock, its file is classified when the label is known, a store
to NVMM is accounted for (which asks the cache again), and the thread is assigned.
`mounts` is auxiliary: what the table is compared with. Names are sequences over
`Char`, which has no slash; a mount point or a file is a sequence of names.

**CpuList.** The text is cut into tokens, which `get_digit` does before anything
else is looked at. The recursion follows the index of the loop: after an item one
character is skipped, so that `0-3-5` or `1x2` mean something, too; the property
is about well-formed lists only.

**DumpThread.** The same hand-over as in `AccessAccounting`, seen from below. There
it is interleaved step by step under the lock, and entries are counts; here a
section under the lock is one step (`LockOwner` shows that it may be), and
entries are memory with pointers, rows and an order. A block that was freed may
be handed out by malloc at once; its pointers are then `Nowhere`. Entries are printed,
unlinked and freed one by one, rows too, while the sampler adds to the other
list. `doc` is the state of a reader of JSON: a token it does not expect takes it to
`invalid` for good. Time is kept relative to the start of an iteration: `spent`
is how long it took, `step` by how much the clock was set meanwhile, `elapsed` the
time until the next iteration, sleep included. `queue`, `mine` and `rows` are
auxiliary sequences the pointers are compared with.

External code is modelled from how the program uses it: the kernel's rings,
`sched_setaffinity`, threads that start and exit, signals.

## 3. Runs

All runs pass with no error except the four whose names end in `race`,
`open` or `read`, which show a disagreement (section 6).

| run (cfg) | shows | bounds and why they are enough |
|---|---|---|
| `procaff` (MCProcaff) | `TypeOK`, `RecordsResolve`, `CoresDisjoint`, `MaskFollowsRecord`, `Specialized` for any order of calls | 2 threads, 2 groups, 2 CPUs, expiries 1 and 2: one thread is expired while the other is assigned, demoted to a default that is destroyed later, a CPU is offered twice; also proved for all sizes |
| `specialization` | `RecentWritersHeld`, `ExactAfterStartup`, `ReleasedAtExit` | 2 threads, 3 CPUs (the NVMM group gets its two in two steps), allocation failures, threads that come and go |
| `specialization_live` | `Terminates`, `EventuallyReleased` | 2 threads, 2 CPUs; the second thread is the one whose samples expire the first. Threads neither start nor exit here: a thread that exits would leave the group trivially |
| `specialization_race` | violates `EventuallyConfined` | 1 thread, 3 CPUs, one of them not in the first argument |
| `accounting` (MCAccessAccounting) | `TypeOK`, `LockOwner`, `Conservation`, `MatchStaysListed`, `CountsAreListed`, `FreedAlone`, `RowsAddUp`, `ImplementsLedger`, `Reported`, `ShutsDown` | 2 processes, 2 thread ids, 3 stores (`MaxWrites`): an entry is filled, taken over and made again while the old one is printed; allocations of one process may fail, those of the other do not; all safety is also proved without the bound |
| `accounting_race` | violates `EachIntervalReported` | 1 process, 1 store |
| `sampler` (MCSampler) | `DeliversNextIntact`, `NeverSplit`, `NothingSkipped`, `NoCoreStarves`, `StopsWhenAsked` | two rings of 64 bytes, one with records of 24 and 32 bytes: records start at every multiple of eight and wrap at each; counters wrap after two rounds; rings that fail to be mapped, rings refilled at will |
| `sampler_open` | violates `RegisteredCoresMapped` | 1 ring |
| `memory` (MCMemoryMock) | `MappedIsFound`, `EachViewNeeded`, `LookupEnds` | 3 addresses, 2 regions at a time, a file and a mapping without one: regions that overlap a stale one on either side, a view behind another, instructions of two steps |
| `memory_read` | violates `ReadsInBounds` | 2 addresses, adjacent regions, no failures |
| `receiver` (MCReceiver) | `OnePerPid`, `HeldStays`, `ClassifiedAsMounted`, `CpusAsListed`, `EventuallyPurged` | 3 processes, an entry that expires between the two calls of a sample, or stays in front of, between or behind those that are sampled; tables with DAX below and above other mounts in either order, names that begin other names, a line that cannot be parsed; all lists of up to five tokens against one fixed list, four CPUs; names of one and two characters, one of them a blank |
| `dump` (MCDumpThread) | `ListsIntact`, `WalkSafe`, `NoLeak`, `OutputValid`, `Paced`, `ImplementsQueue`, `EndsAfterStop` | 2 processes, 2 threads, 4 blocks of memory: empty lists, one and two entries with none to three rows, memory that is used again while a list is walked; a second of 3 units, iterations of up to 4, a clock set by -4, -3 and 2: every borrow, a rest of zero, a whole interval and a negative one |

Bounds in guards: `MaxWrites` in `AccessAccounting` (stores handed in), and the
modulus `RecordIds` that numbers records in `Sampler`, which exceeds what a ring
can hold; `MaxMapped` in `MemoryMock`, the regions of a process at a time.
`MaxSpent` and `ClockStep` in `DumpThread`, how long an iteration takes and by how
much the clock is set. `Procaff`, `Specialization`, `MockCache` and `Receiver` have
none: all their counters saturate.
Deadlock is checked in all runs except the sampler's, whose system really stops
when the cores are freed or the process has crashed, and the receiver's, which stops
with `memmkcache_deinit` or a crash.

What some properties say beyond their names. `RecentWritersHeld`: whatever
samples are handled afterwards, of the thread itself to other files or stale
ones, a thread whose NVMM store was recorded less than `expiry_nvmm` ago is in
the NVMM group. `ExactAfterStartup`: once the loop of main() has ended, whoever
is moved has exactly its group's mask. `NothingSkipped`: a ring is empty exactly
when everything written was delivered. `NeverSplit`: the two "needs additional
logic" exits of sampler_worker.c:64-75 are not reachable with records aligned to
eight bytes and shorter than `MAX_PERF_EVENT_LENGTH`, and no ring is read after it was
freed. `MappedIsFound`: an address that is mapped from the beginning of a lookup
to its end is found, if the updates in between succeed. `EachViewNeeded`: each
view answers some address that no earlier one does, so that there are never more
than addresses looked up.

`ClassifiedAsMounted`: a store is taken for one to NVMM exactly when the deepest mount
above its file was a DAX mount at start-up; tables with two mounts on one point, blanks,
`dax=never` or `dax=inode` are excluded by name (`Plain`). `ListsIntact`: both lists and
every list of rows are what was added and not yet taken, by `next` and by `prev`.
`WalkSafe`: the dump thread's two pointers are never at freed or reused memory. `Paced`:
from one record to the next it takes the interval, or the iteration if that is longer, by the
clock as it is set, except that an iteration in which that clock did not move at all is not
followed by a sleep. `ImplementsQueue`: processes are reported in the order of their first
store, once per record. `EndsAfterStop`: the program ends after the signal unless the
clock was set back by whole seconds (section 6).

Each property of a passing run has a mutant, an operator that changes the model
as a plausible bug would, marked `Mutant:` in the modules.

### Fairness

* `MemoryMock`: weak fairness of the lookup, a call of the sampler thread. None
  for the process.
* `Receiver`: weak fairness of time; the samples it needs are named by
  `EventuallyPurged`.
* `DumpThread`: weak fairness of the dump thread, a sleep that ends included, and of
  main(). Neither stores nor the signal have to come.
* `Sampler`: weak fairness of the worker, a thread the kernel schedules. None
  for the kernel's records or for main().
* `AccessAccounting`: weak fairness of the three threads, strong fairness of
  the two lock operations of sampler and dump thread. A glibc rwlock wakes
  waiters and a thread that releases it does not hold it for ever, yet the
  other may take it again in between, so weak fairness would not do. No store
  has to arrive.
* `Specialization`: weak fairness of main(), of handling or losing a pending
  sample, of the worker leaving its loop once stopped, and of time. Neither
  stores nor the signal are fair: `EventuallyReleased` and `EventuallyConfined`
  name the samples they need, `Terminates` the signal.

## 4. Proofs

`ProcaffProofs` proves for any sets of threads, groups, CPUs and expiries
(assumptions: group ids are not negative, there is a CPU, expiries are
naturals): `TypeCorrect`, `NoDanglingGroup`, `Disjointness`, `MasksAgree`,
`Specialization`, and `UnassignCoreIsIdle`, that `procaff_unassign_core` never
changes anything (it refuses a CPU some group has, its own included). The
inductive invariant `IInv` is the conjunction of the type invariant with
`RecordsResolve`, `CoresDisjoint` and `MaskFollowsRecord`. None of the last is
inductive alone: `MaskFollowsRecord` needs `RecordsResolve`, since a record
whose group was destroyed would be bound to the empty set of a new group of the
same id, and the type invariant carries that strayed threads are alive and that
sticky groups exist. `Specialized` follows from `CoresDisjoint` and
`MaskFollowsRecord`.

`AccessAccountingProofs` proves for any processes, threads and number of stores:
`TypeCorrect`, `MutualExclusion` (`LockOwner`), `StoresConserved`
(`Conservation`), `MatchNeverFreed` (`MatchStaysListed`), `FreedLast`
(`FreedAlone`), `HandOverComplete`
(`CountsAreListed`), and `Refinement`: the accounting implements `WriteLedger`. Its
inductive invariant adds that the dump thread does not exist before it is
started and that the sampler is gone once main() has joined it. The refinement
maps the counts in the two lists and those freed to `open`, the printed ones to
`printed`, and `closed` to main() having joined the dump thread. Lemmas about
`Move` and about incrementing a count carry both proofs.

`RowsComplete` (`RowsAddUp`) says that the rows of a process add up to its total wherever
they are, or stay behind it if one of them could not be allocated. The sum is a fold of the library, a recursive
function over the subsets of `Tid`; `RowsAddUp` is inductive once it is known what one
store and one hand-over do to such a sum (`TrackWriteBalances`, `MoveBalances`), given
that there are finitely many threads (`TidAssumption`).

`SpecializationProofs` proves for any threads, CPUs, lists of CPUs and expiries that
every step of the program is a call `Procaff` allows, a step of the kernel or of time,
or leaves the affinity manager alone (`Implementation`), so that everything proved
about `Procaff` holds in the program (`ProgramSpecialized`), and with that `RecentWriters`
(`RecentWritersHeld`), `Exactness` (`ExactAfterStartup`) and `Released`
(`ReleasedAtExit`). Its invariant `SInv` adds to `IInv` what main() has set up when it is
where it is (`Config`, `Startup`); that the time a recent writer's record has left and
the time since its store make at least the whole expiry together (`WritersKept`: time
takes from the one what it adds to the other); and that records made while groups still get CPUs belong to threads that are
marked as early (`EarlyOnly`), without which `ExactAfterStartup` is not inductive.

`SamplerProofs` proves for any number of cores, any size of the rings, any mixture of
record lengths and counters that wrap around anywhere `Delivery`
(`DeliversNextIntact`), `WholeRecords` (`NeverSplit`), `NoneLost` (`NothingSkipped`) and the
type invariant. None of them is inductive: `RInv` says of every ring what is between
`data_tail` and `data_head` (`Records`: a whole record starts at `data_tail`, and behind
each there is its successor or the head) and what the worker holds of it (`Holding`).
Since records carry a number modulo `RecordIds` only, `Counted` bounds how many are
unread, which makes equal numbers mean the same record. The assumptions
are the kernel's and perf's: sizes are multiples of the header, a record is not longer than
`MAX_PERF_EVENT_LENGTH`, the counters wrap at a multiple of the ring's size (`2^64`
and a power of two). They rest on lemmas about remainders, which the provers do not have.

`MemoryMockProofs` proves for any addresses, labels, failures and whatever the process
does meanwhile `SteadyIsFound` (`MappedIsFound`), `ViewsNeeded` (`EachViewNeeded`) and
`ViewsBounded`, that a mock never has more views than there are addresses. `MInv` adds
that an address mapped all the while is in the regions after the first retry
(`SteadyFound`), and that no view outlives the regions it was made of while one
is looked for (`ViewsFresh`), without which a view could be added that an earlier one
makes superfluous.

`ReceiverProofs` proves four things about what main() reads and the receiver does:

* `ListsRead`: `cpu_in_cpulist` finds a CPU in a well-formed list of any length exactly
  when the list denotes it; `CoresAsListed` (`CpusAsListed`) follows for main(), for any
  number of CPUs and all arguments that are sequences of tokens.
* `Mocks` (`OnePerPid`) and `Holding` (`HeldStays`): `MockInv` is their conjunction with
  the type invariant. `HeldStays` is not inductive alone: that the walk keeps an entry of
  the process says that it keeps the held one only if there is one per process.
  `WalkedKin` is the induction over the loop of `memmkcache_get`.
* `ReceiverUsesCache`: `Receiver` uses the cache as `MockCache` says, so that both carry over.
* `Classification` (`ClassifiedAsMounted`), for any mounts, names of any length and files,
  assuming no name is empty or has a slash in it (`PathAssumption`). The program compares
  texts, the property speaks of the tree: `BelowIs` says that the text of a path goes on
  with a slash after the text of a mount point exactly when the mount point is above it
  in the tree, by induction over the names; `LookedUp` is what `path_on_mountpoint` makes
  of that, `MoreNames` that the longest match is the deepest mount, and `QueryIs` which entry
  `mount_query` returns. `TableInv` says that the table is that of the mounts or empty,
  and that what was found of a file was found in it.

`ListOpsProofs` proves of the operators of `list.h`, for lists of any length, that
adding at either end, removing and taking a whole list over make of a ring the ring of
the sequence one expects, and leave rings through other nodes alone. It also has
`SetInduction`, induction over a set of numbers instead of a predicate: the library's own
theorem takes an operator, which the provers cannot instantiate, and every recursive
function and fold of the models is reasoned about with this one.

`DumpThreadProofs` proves, for seconds of any number of units and times of any size, that
`timespec_diff` is exact (`DiffExact`: the difference, its sign, and the one case in
which the nanoseconds are not normal), that an expiry is extended by exactly the
extension (`ExtendExact`) and that it has passed exactly when it is not later than now
(`PassedExact`). They rest on what the carries leave of the second argument
(`Carried`). Over `DumpThread` it proves, for any processes, threads, memory, interval
of up to a second and settings of the clock:

* `Pacing` (`Paced`). It is not inductive: `PaceInv` adds what is known of a sleep that
  is still to come (`Sleeping`: the rest is the interval without what the clock says the
  iteration took, and its nanoseconds are a whole second exactly where no time passed),
  which `DiffExact` gives at the step that measures and which a refused sleep keeps.
* `Output` (`OutputValid`), by `DocInv`. It rests on `Turn`, that main() and the dump
  thread take turns in writing, and `Text`, what the text holds before each token; neither
  speaks of the heap, so that the text is well-formed whatever the lists hold.
* `Lists` (`ListsIntact`), `Walk` (`WalkSafe`) and `Memory` (`NoLeak`), by `HInv`: the
  pointers spell out the sequences `queue`, `mine` and `rows` as rings, what is allocated
  is in exactly one of them (`Blocks`), and the two pointers of the walk are the first and
  the second entry. The three are not inductive one by one: that freeing an entry
  leaves the other rings alone needs that no block is in two of them, and that needs the
  rings. Memory may be handed out again at once, and `RowHead` of a freed entry is
  overwritten like the entry itself.
* `Queueing` (`ImplementsQueue`): every step adds to or takes from the two sequences of
  `EntryQueue`, or leaves them alone, where a list of blocks stands for the processes that
  own them (`Names`).

Only model-checked, on the instances of section 3:

* the liveness properties `Terminates`, `EventuallyReleased`, `Reported`, `ShutsDown`,
  `NoCoreStarves`, `StopsWhenAsked`, `LookupEnds`, `EventuallyPurged` and `EndsAfterStop`:
  fairness and ENABLED are beyond the prover;
* the four disagreements of section 6, which are counterexamples.

Induction is over sets and explicit functions throughout. What the proofs take from the
library without a proof of their own are its theorems on finite sets, cardinality,
functions, sequences and well-founded relations.

## 5. Not modelled

* The cache of inspectors (memory_inspector_cache.c), which nothing uses, and
  the parsing of a line of `/proc/<pid>/maps`.
* Bytes, instructions and the layout of the report: bytes are added next to
  accesses on the same lines; capstone's decoding is a success or a failure.
  The cache of inspectors has the loop of the cache of mocks without its `continue`
  (memory_inspector_cache.c:32-39): were it used, a match could be tested against a
  time read before its refresh.
* A clock that is set under the records of threads and mocks (`CLOCK_REALTIME`,
  expiry.h:13). Under the dump thread it is modelled.
* A second `mount_update`, `mount_details_init`, `list_count` and the walks of `list.h`
  that nothing uses.
* Threads that cannot be created: thread_context.c:14 returns an error nobody looks at,
  and the shutdown joins what does not exist.
* Rows per instruction (`FEATUREFLAG_ACCESS_STORE_INSTRUCTIONS`, off by default), the
  commas between rows, the logger.
* `thread_deinit`, which cancels a thread that was joined before.
* Throttle and lost records: the program passes no receiver for them, they are
  read and skipped like any other record.

## 6. Disagreements found

* `specialization_race`: a thread whose first NVMM sample is handled before the
  NVMM group has CPUs gets EINVAL from the kernel and keeps all CPUs as long as
  it goes on storing (main.c:130-133, procaff.c:191, 264), against README.md:3.
* `accounting_race`: the dump thread is started before the list and the lock it
  uses are initialised (access_accounting.c:37-40).
* `sampler_open`: `sampler_core_init` returns true on failure, so that the error
  path of its caller is dead (sampler_core.c:36, sampler_context.c:26).
* `memory_read`: the bytes of an instruction are read through the view of its
  first byte, although only the region of the last byte is checked
  (access_accounting.c:173, 178, 186); a view that ends in between, or was
  unmapped by the check itself, is read past its end.

Found on the way, not stated by a doc of the repository and so not a run:

* The loop around `nanosleep` (access_worker.c:57) goes on only while both parts of the
  rest are not zero, so that a rest of less than a second is dropped after EINTR; and
  when the clock was set back by whole seconds during an iteration, `tv_nsec` is a
  whole second, `nanosleep` refuses it with EINVAL, leaves the rest as it is, and the
  loop never ends: the program then hangs in its shutdown (`Spins` in `DumpThread`).
* `timespec_diff` carries only what is more than a second (timespec_diff.h:19). With an
  interval of exactly one second, an iteration that takes no time by the clock is not
  followed by a sleep, although access_worker.h:3 calls the interval one "AFTER_AT_LEAST".
* `strstr(options, "dax")` (nvmm_lookup.c:32) takes `dax=never` for DAX; of two mounts on
  one point the first is asked and not the last; a CPU of the second list that is not in
  the first is ignored (main.c:129).

## 7. Plan

1. Proofs that several components need at once: `AccessAccounting` and `DumpThread` show
   the same hand-over, one with its interleavings and one with its pointers. `LockOwner`
   justifies that a section is one step in the second; a theorem that ties the two
   together (what is taken is what was listed) would replace that argument.
2. That the calls main() and the receiver make are the ones the components expect:
   `Implementation` and `ReceiverUsesCache` do so for the affinity manager and the cache;
   the accounting and the sampler remain.
3. A clock that is set under the records, in `Procaff` and `MockCache`.
