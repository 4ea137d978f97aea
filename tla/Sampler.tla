------------------------------- MODULE Sampler -------------------------------
(***************************************************************************)
(* The sampler thread (src/sampler) and the rings the kernel fills: main() *)
(* appends CPUs to the list of registered cores while the worker walks it; *)
(* the worker takes up to SAMPLES_PER_ITERATION records out of each ring   *)
(* per round, copying a record that wraps around into a buffer of its own. *)
(*                                                                         *)
(* Sizes and positions count units of four bytes.  The content of a slot   *)
(* is which unit of which record it holds: records are numbered modulo     *)
(* RecordIds, more than a ring can hold.  A slot behind data_tail is the   *)
(* kernel's to overwrite at any time, so its content is unknown from then. *)
(***************************************************************************)
EXTENDS Integers, Sequences

CONSTANTS
  NumCores,     \* the CPUs main() registers, in this order: 1 .. NumCores
  Size,         \* data_size of a ring
  Wrap,         \* data_head and data_tail are counted modulo Wrap (2^64)
  RecordSizes,  \* core -> header.size of the records the kernel writes to its ring
  HeaderSize,   \* sizeof(struct perf_event_header)
  MaxEvent,     \* MAX_PERF_EVENT_LENGTH
  Batch,        \* SAMPLES_PER_ITERATION
  RecordIds,
  Failures      \* whether malloc, perf_event_open and mmap may fail

Core == 1 .. NumCores
Pos == 0 .. Size - 1
Unknown == [id |-> -1, part |-> 0, size |-> 0]
Slot == {Unknown} \cup
        [id : 0 .. RecordIds - 1, part : 0 .. MaxEvent,
         size : UNION {RecordSizes[c] : c \in Core}]

\* The kernel aligns records to eight bytes, the size of a header.
ASSUME SizeAssumption ==
  /\ HeaderSize \in Nat \ {0} /\ Size \in Nat \ {0} /\ MaxEvent \in Nat
  /\ Size % HeaderSize = 0
  /\ Wrap \in Nat /\ Wrap % Size = 0 /\ Wrap > Size
  /\ \A c \in Core : \A n \in RecordSizes[c] :
       n \in Nat \ {0} /\ n % HeaderSize = 0 /\ n =< MaxEvent
ASSUME CountAssumption ==
  /\ NumCores \in Nat \ {0} /\ Batch \in Nat \ {0}
  /\ RecordIds \in Nat \ {0}
  /\ \A c \in Core : \A n \in RecordSizes[c] : RecordIds * n > Size
  /\ Failures \in BOOLEAN

VARIABLES
  \* kernel
  ring,       \* core -> content of the ring
  head,       \* core -> data_head
  tail,       \* core -> data_tail, written by the worker
  last,       \* core -> number of the last record written
  \* main()
  core,       \* the CPU its loop is at
  registered, \* the list of registered cores
  mapped,     \* the cores whose ring was mapped
  stop,       \* child_context.state is no longer STARTED
  freed,      \* the cores were unmapped and freed
  \* the worker
  pc,
  at,         \* its position in the list
  count,      \* samples_this_iteration
  ph,         \* position of the record in the ring
  temp,       \* temp_buffer, <<>> when ph points into the ring
  delivered   \* auxiliary: core -> number of the last record handed over

kernel == <<ring, head, last>>
list == <<core, registered, mapped, stop, freed>>
local == <<at, count, ph, temp>>
vars == <<kernel, tail, list, pc, local, delivered>>

Init ==
  /\ ring = [c \in Core |-> [i \in Pos |-> Unknown]]
  /\ head = [c \in Core |-> 0]
  /\ tail = [c \in Core |-> 0]
  /\ last = [c \in Core |-> 0]
  /\ core = 1
  /\ registered = <<>>
  /\ mapped = {}
  /\ stop = FALSE
  /\ freed = FALSE
  /\ pc = "check" /\ at = 1 /\ count = 0 /\ ph = 0 /\ temp = <<>>
  /\ delivered = [c \in Core |-> 0]

Unread(c) == (head[c] - tail[c]) % Wrap

Successor(id) == (id + 1) % RecordIds

-----------------------------------------------------------------------------
(* The kernel.                                                             *)

\* A record is written when the ring has room for it and a byte more, and
\* is dropped otherwise.
Produce(c, n) ==
  /\ c \in mapped
  /\ ~freed /\ pc # "crashed"
  /\ Unread(c) + n < Size
  /\ LET id == Successor(last[c])
         part(i) == (i - head[c]) % Size
     IN  /\ ring' = [ring EXCEPT ![c] =
                       [i \in Pos |->
                          IF part(i) < n
                          THEN [id |-> id, part |-> part(i), size |-> n]
                          ELSE @[i]]]
         /\ last' = [last EXCEPT ![c] = id]
  /\ head' = [head EXCEPT ![c] = (@ + n) % Wrap]
  /\ UNCHANGED <<tail, list, pc, local, delivered>>

-----------------------------------------------------------------------------
(* main().                                                                 *)

NextCore ==
  /\ core =< NumCores
  /\ pc # "crashed"
  /\ core' = core + 1
  /\ UNCHANGED <<kernel, tail, stop, freed, pc, local, delivered>>

\* sampler_core_init reports success even when the ring could not be mapped.
RegisterCore ==
  /\ NextCore
  /\ registered' = Append(registered, core)
  /\ \/ mapped' = mapped \cup {core}
     \/ Failures /\ UNCHANGED mapped

\* No memory for the core or for its entry of the list.
SkipCore ==
  /\ Failures
  /\ NextCore
  /\ UNCHANGED <<registered, mapped>>

\* main() gets to sampler_deinit when its loop over the CPUs is done.
RequestStop ==
  /\ core > NumCores
  /\ ~stop /\ pc # "crashed"
  /\ stop' = TRUE
  /\ UNCHANGED <<kernel, tail, core, registered, mapped, freed>>
  /\ UNCHANGED <<pc, local, delivered>>

\* After the join.
FreeCores ==
  /\ stop /\ ~freed
  /\ pc = "exited"
  /\ freed' = TRUE
  /\ UNCHANGED <<kernel, tail, core, registered, mapped, stop>>
  /\ UNCHANGED <<pc, local, delivered>>

-----------------------------------------------------------------------------
(* The worker.                                                             *)

\* The loop condition, and the first entry of the list.
Check ==
  /\ pc = "check"
  /\ pc' = IF stop THEN "exited" ELSE "core"
  /\ at' = 1
  /\ UNCHANGED <<kernel, tail, list, count, ph, temp, delivered>>

\* The next entry of the list, which may have grown meanwhile.
EnterCore ==
  /\ pc = "core"
  /\ IF at =< Len(registered) THEN pc' = "poll" ELSE pc' = "check"
  /\ count' = 0
  /\ UNCHANGED <<kernel, tail, list, at, ph, temp, delivered>>

LeaveCore ==
  /\ pc' = "core"
  /\ at' = at + 1
  /\ UNCHANGED <<count, ph, temp>>

cpu == registered[at]

\* Where the record starts, and how much of the ring follows.
Start == tail[cpu] % Size
ToEnd == Size - Start

Header == ring[cpu][Start]

\* Mutant: the second copy starts where the first one did.
CopyWrong ==
  LET first == [i \in 1 .. ToEnd |-> ring[cpu][Start + i - 1]]
      second == [i \in 1 .. Header.size - ToEnd |-> ring[cpu][Start]]
  IN  first \o second

\* Two copies, one up to the end of the ring and one from its beginning.
CopyWrapped ==
  LET first == [i \in 1 .. ToEnd |-> ring[cpu][Start + i - 1]]
      second == [i \in 1 .. Header.size - ToEnd |-> ring[cpu][i - 1]]
  IN  first \o second

\* No record is looked for: the ring is empty or had its turn.
Done == count = Batch \/ head[cpu] = tail[cpu]

\* Mutant: a header that ends where the ring ends counts as split.
SplitEarly == \/ ToEnd =< HeaderSize
              \/ ToEnd < Header.size /\ Header.size > MaxEvent

\* A header that is split, or a wrapped record longer than temp_buffer.
Split == \/ ToEnd < HeaderSize
         \/ ToEnd < Header.size /\ Header.size > MaxEvent

Crash == pc' = "crashed" /\ UNCHANGED local

Take ==
  /\ pc' = "handle"
  /\ ph' = Start
  /\ temp' = IF ToEnd < Header.size THEN CopyWrapped ELSE <<>>
  /\ UNCHANGED <<at, count>>

\* A ring that is not mapped, or no longer, or a split ends the program.
Poll ==
  /\ pc = "poll"
  /\ IF cpu \notin mapped \/ freed THEN Crash
     ELSE IF Done THEN LeaveCore
     ELSE IF Split THEN Crash
     ELSE Take
  /\ UNCHANGED <<kernel, tail, list, delivered>>

\* What the receiver sees behind the pointer it is given.
View ==
  IF temp # <<>> THEN temp
  ELSE [i \in 1 .. ring[cpu][ph].size |-> ring[cpu][ph + i - 1]]

\* The receiver returns.
Handle ==
  /\ pc = "handle"
  /\ delivered' = [delivered EXCEPT ![cpu] = Successor(@)]
  /\ pc' = "advance"
  /\ UNCHANGED <<kernel, tail, list, local>>

\* Mutant: whatever else the ring holds is given back as well.
GiveBackAll(n) ==
  /\ tail' = [tail EXCEPT ![cpu] = head[cpu]]
  /\ ring' = [ring EXCEPT ![cpu] = [i \in Pos |-> Unknown]]

\* data_tail += n gives the slots back to the kernel.
GiveBack(n) ==
  /\ tail' = [tail EXCEPT ![cpu] = (@ + n) % Wrap]
  /\ ring' = [ring EXCEPT ![cpu] =
                [i \in Pos |-> IF (i - Start) % Size < n THEN Unknown ELSE @[i]]]

\* Mutant: samples are not counted, a ring is emptied before the next one.
AdvanceUncounted ==
  /\ pc = "advance"
  /\ GiveBack(View[1].size)
  /\ pc' = "poll"
  /\ ph' = 0 /\ temp' = <<>>
  /\ UNCHANGED <<head, last, list, at, count, delivered>>

Advance ==
  /\ pc = "advance"
  /\ GiveBack(View[1].size)
  /\ count' = count + 1
  /\ pc' = "poll"
  /\ ph' = 0 /\ temp' = <<>>
  /\ UNCHANGED <<head, last, list, at, delivered>>

Worker == Check \/ EnterCore \/ Poll \/ Handle \/ Advance

-----------------------------------------------------------------------------
Next ==
  \/ \E c \in Core : \E n \in RecordSizes[c] : Produce(c, n)
  \/ RegisterCore
  \/ SkipCore
  \/ RequestStop
  \/ FreeCores
  \/ Worker

Spec == Init /\ [][Next]_vars

\* The worker is a thread the kernel schedules.
FairSpec == Spec /\ WF_vars(Worker)

-----------------------------------------------------------------------------
TypeOK ==
  /\ ring \in [Core -> [Pos -> Slot]]
  /\ head \in [Core -> 0 .. Wrap - 1]
  /\ tail \in [Core -> 0 .. Wrap - 1]
  /\ last \in [Core -> 0 .. RecordIds - 1]
  /\ core \in 1 .. NumCores + 1
  /\ registered \in Seq(Core)
  /\ mapped \subseteq Core
  /\ stop \in BOOLEAN
  /\ freed \in BOOLEAN
  /\ pc \in {"check", "core", "poll", "handle", "advance", "exited", "crashed"}
  /\ at \in 1 .. NumCores + 1
  /\ count \in 0 .. Batch
  /\ ph \in Pos
  /\ temp \in Seq(Slot)
  /\ delivered \in [Core -> 0 .. RecordIds - 1]

\* What the receiver is given is the next record of the core, whole: from its
\* header to its last unit, wrapped around the end of the ring or not, with
\* the kernel writing all the time and the counters wrapping too.
DeliversNextIntact ==
  pc = "handle" =>
    /\ Len(View) > 0
    /\ LET n == View[1].size
       IN  View = [i \in 1 .. n |-> [id |-> Successor(delivered[cpu]),
                                     part |-> i - 1, size |-> n]]

\* The two exits of the wrap-around code, "needs additional logic", are never
\* taken: the kernel's alignment and the size of the buffer rule them out, no ring
\* is read after it was freed, and only one that could not be mapped ends the
\* program.
NeverSplit == pc = "crashed" => cpu \notin mapped /\ ~freed

\* Records wait in the ring, are handed over, or were dropped by the kernel.
NothingSkipped ==
  \A c \in Core :
    (last[c] = delivered[c]) = (Unread(c) = (IF pc = "advance" /\ cpu = c
                                             THEN View[1].size ELSE 0))

\* sampler_context.c, line 26: a core whose initialisation fails is not
\* registered ("Initialization of new core=%d failed!").
RegisteredCoresMapped ==
  \A i \in 1 .. Len(registered) : registered[i] \in mapped

\* A record of a registered core is handed over however busy the other cores
\* are, unless the program is stopped first or ends at a ring that could not be
\* mapped.
NoCoreStarves ==
  \A c \in Core :
    (last[c] # delivered[c]) ~> (stop \/ pc = "crashed" \/ (pc = "handle" /\ cpu = c))

\* The worker stops when asked to, even if the rings never run empty, unless the
\* program ends before at a ring that could not be mapped.
StopsWhenAsked == stop ~> pc \in {"exited", "crashed"}
=============================================================================
