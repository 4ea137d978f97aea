-------------------------- MODULE AccessAccounting --------------------------
(***************************************************************************)
(* The write accounting (src/access): the sampler thread books each NVMM   *)
(* store in the entry of its process, the dump thread takes the whole list *)
(* over once per interval and prints it, main() starts and stops both.     *)
(*                                                                         *)
(* An entry is counted where it is: total[place][p] is write_access_total  *)
(* of the entries of process p there, row[place][p, t] what their          *)
(* per-thread rows count; a row exists when its count is positive.  Bytes  *)
(* run along with the accesses and are left out.                           *)
(***************************************************************************)
EXTENDS Integers, FiniteSetsExt

CONSTANTS
  Pid, Tid,
  MaxWrites,  \* bound on the stores handed to access_accounting_write
  Oom         \* processes whose entries and rows may fail to be allocated

ASSUME BoundAssumption == MaxWrites \in Nat
ASSUME OomAssumption == Oom \subseteq Pid
ASSUME TidAssumption == IsFiniteSet(Tid)

Row == Pid \X Tid

\* Entries are in the shared list, in the dump thread's private list, on
\* stdout, or were freed unprinted at shutdown.
Place == {"current", "entries", "printed", "freed"}

VARIABLES
  mainPc, writerPc, workerPc,   \* main, the sampler thread, the dump thread
  holder,     \* who holds rw_lock
  state,      \* worker_dump.child_context.state
  job,        \* the store the sampler is booking
  listed,     \* the processes with an entry in the two lists
  total, row, \* see above
  writes,     \* calls of access_accounting_write so far
  tracked,    \* auxiliary: stores booked per process
  booked,     \* auxiliary: stores booked per thread
  fault       \* "none", or the undefined behaviour that ended the run

pcs == <<mainPc, writerPc, workerPc>>
books == <<listed, total, row>>
aux == <<tracked, booked>>
vars == <<pcs, holder, state, job, books, writes, aux, fault>>

Init ==
  /\ mainPc = "spawn" /\ writerPc = "idle" /\ workerPc = "none"
  /\ holder = "none"
  /\ state = "STARTED"
  /\ job \in Row
  /\ listed = [l \in {"current", "entries"} |-> {}]
  /\ total = [l \in Place |-> [p \in Pid |-> 0]]
  /\ row = [l \in Place |-> [r \in Row |-> 0]]
  /\ writes = 0
  /\ tracked = [p \in Pid |-> 0]
  /\ booked = [r \in Row |-> 0]
  /\ fault = "none"

\* Mutant: the list keeps what was handed over.
MoveCopy(from, to, S) ==
  /\ total' = [total EXCEPT
       ![to] = [p \in Pid |-> IF p \in S THEN @[p] + total[from][p] ELSE @[p]]]
  /\ row' = [row EXCEPT
       ![to] = [r \in Row |-> IF r[1] \in S THEN @[r] + row[from][r] ELSE @[r]]]

\* The counts of the processes in S go from one place to another.
Move(from, to, S) ==
  /\ total' = [total EXCEPT
       ![from] = [p \in Pid |-> IF p \in S THEN 0 ELSE @[p]],
       ![to] = [p \in Pid |-> IF p \in S THEN @[p] + total[from][p] ELSE @[p]]]
  /\ row' = [row EXCEPT
       ![from] = [r \in Row |-> IF r[1] \in S THEN 0 ELSE @[r]],
       ![to] = [r \in Row |-> IF r[1] \in S THEN @[r] + row[from][r] ELSE @[r]]]

\* Mutant: the lock does not exclude.
LockShared(self) == holder' = self

Lock(self) == holder = "none" /\ holder' = self
Unlock == holder' = "none"

-----------------------------------------------------------------------------
(* main(): access_accounting_init, which starts the dump thread before the *)
(* list and the lock exist, and access_accounting_deinit.                  *)

MainGo(from, to) == mainPc = from /\ mainPc' = to

SpawnWorker ==
  /\ MainGo("spawn", "list_init")
  /\ workerPc' = "check"
  /\ UNCHANGED <<writerPc, holder, state, job, books, writes, aux, fault>>

ListInit ==
  /\ MainGo("list_init", "lock_init")
  /\ UNCHANGED <<writerPc, workerPc, holder, state, job, books, writes, aux,
                 fault>>

\* Initialising a lock that the dump thread holds is undefined: the unlock
\* that follows then underflows its reader count, and nobody gets it again.
LockInit ==
  /\ MainGo("lock_init", "run")
  /\ fault' = IF holder = "none" THEN "none" ELSE "lock_reset"
  /\ UNCHANGED <<writerPc, workerPc, holder, state, job, books, writes, aux>>

\* A signal: sampler_deinit asks the sampler to stop.
SignalStop ==
  /\ MainGo("run", "join_sampler")
  /\ UNCHANGED <<writerPc, workerPc, holder, state, job, books, writes, aux,
                 fault>>

\* Mutant: the sampler is not waited for.
JoinSamplerAtOnce ==
  /\ MainGo("join_sampler", "stop_worker")
  /\ UNCHANGED <<writerPc, workerPc, holder, state, job, books, writes, aux,
                 fault>>

JoinSampler ==
  /\ MainGo("join_sampler", "stop_worker")
  /\ writerPc = "exited"
  /\ UNCHANGED <<writerPc, workerPc, holder, state, job, books, writes, aux,
                 fault>>

\* Mutant: the dump thread is joined without being asked to stop.
StopUnset ==
  /\ MainGo("stop_worker", "join_worker")
  /\ UNCHANGED <<writerPc, workerPc, holder, state, job, books, writes, aux,
                 fault>>

StopWorker ==
  /\ MainGo("stop_worker", "join_worker")
  /\ state' = "STOP_REQUESTED"
  /\ UNCHANGED <<writerPc, workerPc, holder, job, books, writes, aux, fault>>

\* Mutant: the dump thread is not waited for.
JoinWorkerAtOnce ==
  /\ MainGo("join_worker", "free_lock")
  /\ state' = "STOPPED"
  /\ UNCHANGED <<writerPc, workerPc, holder, job, books, writes, aux, fault>>

JoinWorker ==
  /\ MainGo("join_worker", "free_lock")
  /\ workerPc = "exited"
  /\ state' = "STOPPED"
  /\ UNCHANGED <<writerPc, workerPc, holder, job, books, writes, aux, fault>>

FreeLock ==
  /\ MainGo("free_lock", "free")
  /\ Lock("main")
  /\ UNCHANGED <<writerPc, workerPc, state, job, books, writes, aux, fault>>

\* What was booked after the last dump is freed without being printed.
FreeEntries ==
  /\ MainGo("free", "free_unlock")
  /\ Move("current", "freed", listed["current"])
  /\ listed' = [listed EXCEPT !["current"] = {}]
  /\ UNCHANGED <<writerPc, workerPc, holder, state, job, writes, aux, fault>>

FreeUnlock ==
  /\ MainGo("free_unlock", "done")
  /\ Unlock
  /\ UNCHANGED <<writerPc, workerPc, state, job, books, writes, aux, fault>>

MainStep ==
  \/ SpawnWorker \/ ListInit \/ LockInit
  \/ JoinSampler \/ StopWorker \/ JoinWorker
  \/ FreeLock \/ FreeEntries \/ FreeUnlock

-----------------------------------------------------------------------------
(* The sampler thread in access_accounting_write.                          *)

WriterGo(from, to) == writerPc = from /\ writerPc' = to

\* Mutant: the process and the thread of the sample are swapped.
StartSwapped(r) ==
  /\ mainPc \in {"run", "join_sampler"}
  /\ writes < MaxWrites
  /\ WriterGo("idle", "lock")
  /\ job' = <<r[2], r[1]>>
  /\ writes' = writes + 1
  /\ UNCHANGED <<mainPc, workerPc, holder, state, books, aux, fault>>

\* Samples only arrive once main() has registered a CPU.
StartWrite(r) ==
  /\ mainPc \in {"run", "join_sampler"}
  /\ writes < MaxWrites
  /\ WriterGo("idle", "lock")
  /\ job' = r
  /\ writes' = writes + 1
  /\ UNCHANGED <<mainPc, workerPc, holder, state, books, aux, fault>>

WriterLock ==
  /\ WriterGo("lock", "find")
  /\ Lock("writer")
  /\ UNCHANGED <<mainPc, workerPc, state, job, books, writes, aux, fault>>

\* match is the entry of the process, new at the end of the list if need be.
FindEntry ==
  /\ WriterGo("find", "decode")
  /\ listed' = [listed EXCEPT !["current"] = @ \cup {job[1]}]
  /\ UNCHANGED <<mainPc, workerPc, holder, state, job, total, row, writes,
                 aux, fault>>

\* No memory for the entry, or no instruction: an entry found or made stays.
GiveUp ==
  /\ \/ WriterGo("find", "unlock") /\ job[1] \in Oom \ listed["current"]
     \/ WriterGo("decode", "unlock")
  /\ UNCHANGED <<mainPc, workerPc, holder, state, job, books, writes, aux,
                 fault>>

Decode ==
  /\ WriterGo("decode", "track")
  /\ UNCHANGED <<mainPc, workerPc, holder, state, job, books, writes, aux,
                 fault>>

\* Mutant: a row starts at one and is then charged.
TrackTwice ==
  /\ WriterGo("track", "unlock")
  /\ total' = [total EXCEPT !["current"][job[1]] = @ + 1]
  /\ tracked' = [tracked EXCEPT ![job[1]] = @ + 1]
  /\ row' = [row EXCEPT !["current"][job] = IF @ = 0 THEN 2 ELSE @ + 1]
  /\ booked' = [booked EXCEPT ![job] = @ + 1]
  /\ UNCHANGED <<mainPc, workerPc, holder, state, job, listed, writes, fault>>

\* The process is charged before the row of the thread is looked for.
TrackWrite ==
  /\ WriterGo("track", "unlock")
  /\ total' = [total EXCEPT !["current"][job[1]] = @ + 1]
  /\ tracked' = [tracked EXCEPT ![job[1]] = @ + 1]
  /\ \/ /\ row' = [row EXCEPT !["current"][job] = @ + 1]
        /\ booked' = [booked EXCEPT ![job] = @ + 1]
     \/ /\ job[1] \in Oom /\ row["current"][job] = 0
        /\ UNCHANGED <<row, booked>>
  /\ UNCHANGED <<mainPc, workerPc, holder, state, job, listed, writes, fault>>

WriterUnlock ==
  /\ WriterGo("unlock", "idle")
  /\ Unlock
  /\ UNCHANGED <<mainPc, workerPc, state, job, books, writes, aux, fault>>

WriterExit ==
  /\ mainPc = "join_sampler"
  /\ WriterGo("idle", "exited")
  /\ UNCHANGED <<mainPc, workerPc, holder, state, job, books, writes, aux,
                 fault>>

WriterStep ==
  \/ WriterLock \/ FindEntry \/ GiveUp \/ Decode \/ TrackWrite \/ WriterUnlock
  \/ WriterExit

-----------------------------------------------------------------------------
(* The dump thread (access_worker).                                        *)

WorkerGo(from, to) == workerPc = from /\ workerPc' = to

\* Mutant: the thread ends when there is nothing to print.
CheckIdle ==
  /\ WorkerGo("check", IF state = "STARTED" /\ listed["current"] # {}
                       THEN "lock" ELSE "exited")
  /\ UNCHANGED <<mainPc, writerPc, holder, state, job, books, writes, aux,
                 fault>>

\* The loop condition; the closing bracket is printed on the way out.
WorkerCheck ==
  /\ WorkerGo("check", IF state = "STARTED" THEN "lock" ELSE "exited")
  /\ UNCHANGED <<mainPc, writerPc, holder, state, job, books, writes, aux,
                 fault>>

\* Mutant: the list is taken over without the lock.
WorkerNoLock ==
  /\ WorkerGo("lock", "splice")
  /\ UNCHANGED <<mainPc, writerPc, holder, state, job, books, writes, aux,
                 fault>>

\* Before LockInit the lock is all zeros, which is an unlocked lock.
WorkerLock ==
  /\ WorkerGo("lock", "splice")
  /\ Lock("worker")
  /\ UNCHANGED <<mainPc, writerPc, state, job, books, writes, aux, fault>>

\* Before ListInit the head of the list holds null pointers.
Splice ==
  /\ WorkerGo("splice", "unlock")
  /\ IF mainPc = "list_init"
     THEN fault' = "null_deref" /\ UNCHANGED books
     ELSE /\ Move("current", "entries", listed["current"])
          /\ listed' = [current |-> {}, entries |-> listed["current"]]
          /\ UNCHANGED fault
  /\ UNCHANGED <<mainPc, writerPc, holder, state, job, writes, aux>>

WorkerUnlock ==
  /\ WorkerGo("unlock", "dump")
  /\ Unlock
  /\ UNCHANGED <<mainPc, writerPc, state, job, books, writes, aux, fault>>

DumpEntry ==
  /\ workerPc = "dump"
  /\ \E p \in listed["entries"] :
       /\ Move("entries", "printed", {p})
       /\ listed' = [listed EXCEPT !["entries"] = @ \ {p}]
  /\ UNCHANGED <<pcs, holder, state, job, writes, aux, fault>>

\* Mutant: the loop over the entries ends early.
EndDumpEarly ==
  /\ WorkerGo("dump", "check")
  /\ UNCHANGED <<mainPc, writerPc, holder, state, job, books, writes, aux,
                 fault>>

EndDump ==
  /\ listed["entries"] = {}
  /\ WorkerGo("dump", "check")
  /\ UNCHANGED <<mainPc, writerPc, holder, state, job, books, writes, aux,
                 fault>>

WorkerStep ==
  \/ WorkerCheck \/ WorkerLock \/ Splice \/ WorkerUnlock \/ DumpEntry \/ EndDump

-----------------------------------------------------------------------------
Step ==
  \/ MainStep
  \/ SignalStop
  \/ \E r \in Row : StartWrite(r)
  \/ WriterStep
  \/ WorkerStep

\* Nothing follows undefined behaviour, nor the end of the program.
Stopped ==
  /\ fault # "none" \/ mainPc = "done"
  /\ UNCHANGED vars

Next == (fault = "none" /\ Step) \/ Stopped

Spec == Init /\ [][Next]_vars

\* The three threads are scheduled, and the two that compete for the lock
\* while the other may take it again and again do get it.
Fairness ==
  /\ WF_vars(fault = "none" /\ MainStep)
  /\ WF_vars(fault = "none" /\ WriterStep)
  /\ WF_vars(fault = "none" /\ WorkerStep)
  /\ SF_vars(fault = "none" /\ WriterLock)
  /\ SF_vars(fault = "none" /\ WorkerLock)

FairSpec == Spec /\ Fairness

-----------------------------------------------------------------------------
TypeOK ==
  /\ mainPc \in {"spawn", "list_init", "lock_init", "run", "join_sampler",
                 "stop_worker", "join_worker", "free_lock", "free",
                 "free_unlock", "done"}
  /\ writerPc \in {"idle", "lock", "find", "decode", "track", "unlock", "exited"}
  /\ workerPc \in {"none", "check", "lock", "splice", "unlock", "dump", "exited"}
  /\ holder \in {"none", "main", "writer", "worker"}
  /\ state \in {"STARTED", "STOP_REQUESTED", "STOPPED"}
  /\ job \in Row
  /\ listed \in [{"current", "entries"} -> SUBSET Pid]
  /\ total \in [Place -> [Pid -> Nat]]
  /\ row \in [Place -> [Row -> Nat]]
  /\ writes \in Nat
  /\ tracked \in [Pid -> Nat]
  /\ booked \in [Row -> Nat]
  /\ fault \in {"none", "null_deref", "lock_reset"}

\* The three threads exclude each other around the list.
LockOwner ==
  /\ holder = "writer" <=> writerPc \in {"find", "decode", "track", "unlock"}
  /\ holder = "worker" <=> workerPc \in {"splice", "unlock"}
  /\ holder = "main" <=> mainPc \in {"free", "free_unlock"}

\* Every store that was booked is in exactly one place: never lost between
\* the lists, never printed twice, whatever the two threads interleave.
Conservation ==
  /\ \A p \in Pid :
       tracked[p] = total["current"][p] + total["entries"][p]
                    + total["printed"][p] + total["freed"][p]
  /\ \A r \in Row :
       booked[r] = row["current"][r] + row["entries"][r]
                   + row["printed"][r] + row["freed"][r]

\* The entry the sampler holds a pointer to is in the shared list until the
\* sampler has charged it: the dump thread cannot have printed and freed it.
MatchStaysListed ==
  writerPc \in {"decode", "track"} => job[1] \in listed["current"]

\* A count is never left in a list without its entry, and what the dump
\* thread took over is gone from its list before it looks at it again.
CountsAreListed ==
  /\ \A l \in {"current", "entries"}, p \in Pid :
       p \notin listed[l] => total[l][p] = 0
  /\ workerPc # "dump" /\ workerPc # "unlock" => listed["entries"] = {}

\* While main() frees the list nobody else is left to use it.
FreedAlone ==
  mainPc \in {"free_lock", "free", "free_unlock", "done"} =>
    writerPc = "exited" /\ workerPc = "exited"

SumRows(l, p) == MapThenSumSet(LAMBDA t : row[l][<<p, t>>], Tid)

\* The rows of a process add up to its total, unless an allocation failed, and
\* never exceed it, in every list and in what is printed.
RowsAddUp ==
  \A l \in Place, p \in Pid :
    IF p \in Oom THEN SumRows(l, p) =< total[l][p] ELSE SumRows(l, p) = total[l][p]

\* The books as the ledger sees them: what is not printed is open, and they
\* are closed when the dump thread was joined.
Open == [p \in Pid |-> total["current"][p] + total["entries"][p]
                       + total["freed"][p]]
Printed == total["printed"]
Closed == mainPc \in {"free_lock", "free", "free_unlock", "done"}

Ledger == INSTANCE WriteLedger WITH
  open <- Open, printed <- Printed, closed <- Closed

\* The accounting implements the ledger.
ImplementsLedger == Ledger!Spec

\* The n-th store of a process is printed, unless the program is stopped.
Reported ==
  \A p \in Pid, n \in 1 .. MaxWrites :
    (tracked[p] >= n) ~> (total["printed"][p] >= n \/ mainPc # "run")

\* After the signal every thread ends, the locks notwithstanding.
ShutsDown == (mainPc = "join_sampler") ~> (mainPc = "done")

\* access_worker.c, line 23: an object is printed "each second".  The dump
\* thread that starts an iteration finishes it while the program runs.
EachIntervalReported ==
  (workerPc = "check" /\ mainPc \in {"list_init", "lock_init", "run"})
  ~> (workerPc = "dump" \/ mainPc \notin {"list_init", "lock_init", "run"})
=============================================================================
