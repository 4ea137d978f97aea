----------------------------- MODULE MemoryMock -----------------------------
(***************************************************************************)
(* The memory mock of one process (src/memory): the regions read from      *)
(* /proc/<pid>/maps, the views, copies of mapped files the program made of *)
(* them, and the two lookups of the sampler thread: memmock_get_label, for *)
(* the address that was written, and the reading of the instruction that   *)
(* wrote it (get_instruction), a loop of memmock_get.  The process maps    *)
(* and unmaps meanwhile.                                                   *)
(*                                                                         *)
(* A region is [lo, hi, file], hi the first address behind it.  A lookup   *)
(* that returns NULL returns NoRegion here.                                *)
(***************************************************************************)
EXTENDS Integers, Sequences, FiniteSets

CONSTANTS
  Top,        \* addresses are 0 .. Top - 1
  File,       \* labels of regions that are files
  Other,      \* labels of the rest ([heap], [vdso]), which cannot be opened
  MaxMapped,  \* bound on the regions the process has at a time
  Step,       \* size of ACCESS_ACCOUNTING_INSTRUCTION_STEP_TYPE
  Length,     \* ACCESS_ACCOUNTING_MAX_INSTRUCTION_LEN_IN_BYTES
  Failures    \* whether reading maps and making a view may fail

Addr == 0 .. Top - 1
Region == {r \in [lo : Addr, hi : 1 .. Top, file : File \cup Other] : r.lo < r.hi}
NoRegion == [lo |-> 0, hi |-> 0, file |-> ""]

ASSUME SizeAssumption ==
  /\ Top \in Nat \ {0} /\ MaxMapped \in Nat
  /\ Step \in Nat \ {0} /\ Length \in Nat \ {0}
ASSUME LabelAssumption ==
  /\ File \cap Other = {} /\ "" \notin File \cup Other
  /\ Failures \in BOOLEAN

VARIABLES
  maps,     \* what the process has mapped
  regions,  \* inspector.memregion_cache
  views,    \* memview_cache: the region each view was made of
  pc,
  want,     \* the address looked up
  retry,    \* the loop counter of the lookup
  ip, read, \* insn_ptr; read_bytes, -1 while insn_ptr itself is looked up
  base,     \* the view translated_ip points into
  live,     \* that view has not been unmapped since
  steady    \* auxiliary: the address looked up was mapped, and updates
            \* succeeded, since the lookup began

memory == <<maps, regions, views>>
call == <<pc, want, retry>>
insn == <<ip, read, base, live>>
vars == <<memory, call, insn, steady>>

Covers(r, a) == r.lo =< a /\ a < r.hi
Overlap(r, s) == r.lo < s.hi /\ s.lo < r.hi
Mapped(a) == \E r \in maps : Covers(r, a)

Init ==
  /\ maps = {} /\ regions = {} /\ views = <<>>
  /\ pc = "idle" /\ want = 0 /\ retry = 0
  /\ ip = 0 /\ read = -1 /\ base = NoRegion /\ live = FALSE
  /\ steady = FALSE

-----------------------------------------------------------------------------
(* The process.                                                            *)

Map(r) ==
  /\ Cardinality(maps) < MaxMapped
  /\ \A s \in maps : ~Overlap(r, s)
  /\ maps' = maps \cup {r}
  /\ UNCHANGED <<regions, views, call, insn, steady>>

Unmap(r) ==
  /\ maps' = maps \ {r}
  /\ steady' = (steady /\ ~Covers(r, want))
  /\ UNCHANGED <<regions, views, call, insn>>

-----------------------------------------------------------------------------
(* The inspector.                                                          *)

Found == \E r \in regions : Covers(r, want)
RegionOf == CHOOSE r \in regions : Covers(r, want)

\* meminspect_update: maps is read, or it cannot be opened and nothing changes,
\* or it cannot be read to its end and the cache is freed.
Update ==
  \/ regions' = maps /\ UNCHANGED steady
  \/ Failures /\ regions' \in {regions, {}} /\ steady' = FALSE

\* A lookup begins.
Look(a) == want' = a /\ retry' = 0 /\ steady' = Mapped(a)

\* Mutant: one retry less, the updated regions are not looked at.
LookedOnce == retry = 1

\* The loop over the retries is done.
GivenUp == retry = 2

\* The locals of a call are gone when it ends.
Leave ==
  /\ pc' = "idle" /\ want' = 0 /\ retry' = 0 /\ steady' = FALSE
  /\ ip' = 0 /\ read' = -1 /\ base' = NoRegion /\ live' = FALSE

-----------------------------------------------------------------------------
(* memmock_get_label.                                                      *)

StartLabel(a) ==
  /\ pc = "idle"
  /\ pc' = "label"
  /\ Look(a)
  /\ UNCHANGED <<memory, insn>>

EndLabel ==
  /\ pc = "label"
  /\ Found \/ GivenUp
  /\ Leave
  /\ UNCHANGED memory

\* The views stay as they are.
UpdateLabel ==
  /\ pc = "label"
  /\ ~Found /\ ~GivenUp
  /\ Update
  /\ retry' = retry + 1
  /\ UNCHANGED <<maps, views, pc, want, insn>>

-----------------------------------------------------------------------------
(* get_instruction and memmock_get.                                        *)

\* Mutant: the first address of a view is not in it.
ViewHitInside(i) == views[i].lo < want /\ want < views[i].hi

\* memmock_memview_cache_hit
ViewHit(i) == Covers(views[i], want)

\* memmock_memview_cache_lookup is done once, before the loop.
InView == retry = 0 /\ \E i \in DOMAIN views : ViewHit(i)
ViewOf == views[CHOOSE i \in DOMAIN views :
                  ViewHit(i) /\ \A j \in 1 .. i - 1 : ~ViewHit(j)]

StartRead(a) ==
  /\ pc = "idle"
  /\ pc' = "get"
  /\ Look(a)
  /\ ip' = a
  /\ UNCHANGED <<memory, read, base, live>>

\* The last byte of the step that starts at n is looked up.
NextStep(n) ==
  /\ pc' = "get"
  /\ read' = n
  /\ Look(ip + n + Step - 1)
  /\ UNCHANGED ip

\* memmock_get returns a pointer into the view of r, or NULL.
Return(r) ==
  \/ /\ read = -1
     /\ base' = r /\ live' = (r # NoRegion)
     /\ NextStep(0)
  \/ /\ read # -1 /\ r = NoRegion
     /\ Leave
  \/ /\ read # -1 /\ r # NoRegion
     /\ pc' = "read"
     /\ UNCHANGED <<want, retry, insn, steady>>

GetView ==
  /\ pc = "get"
  /\ InView
  /\ Return(ViewOf)
  /\ UNCHANGED memory

\* memmock_memview_cache_populate: the view goes to the end of the list.
Populate ==
  /\ pc = "get"
  /\ ~InView /\ ~GivenUp /\ Found
  /\ \/ /\ RegionOf.file \in File
        /\ views' = Append(views, RegionOf)
        /\ Return(RegionOf)
     \/ /\ RegionOf.file \in Other \/ Failures
        /\ Return(NoRegion)
        /\ UNCHANGED views
  /\ UNCHANGED <<maps, regions>>

\* The regions have to be read again.
Missed ==
  /\ ~Found /\ ~GivenUp
  /\ pc = "label" \/ (pc = "get" /\ ~InView)

\* Mutant: the loop does not count.
UpdateForever ==
  /\ pc = "get"
  /\ ~InView /\ ~GivenUp /\ ~Found
  /\ Update
  /\ views' = <<>>
  /\ live' = FALSE
  /\ UNCHANGED <<maps, pc, want, retry, ip, read, base>>

\* Every view is unmapped with the update.
UpdateGet ==
  /\ pc = "get"
  /\ ~InView /\ ~GivenUp /\ ~Found
  /\ Update
  /\ views' = <<>>
  /\ live' = FALSE
  /\ retry' = retry + 1
  /\ UNCHANGED <<maps, pc, want, ip, read, base>>

GiveUpGet ==
  /\ pc = "get"
  /\ GivenUp
  /\ Return(NoRegion)
  /\ UNCHANGED memory

\* The step is read through translated_ip, wherever the byte looked up is.
InBounds == live /\ ip + read + Step =< base.hi

ReadStep ==
  /\ pc = "read"
  /\ IF read + Step < Length THEN NextStep(read + Step) /\ UNCHANGED <<base, live>>
     ELSE Leave
  /\ UNCHANGED memory

\* What is read is not there; a line that cannot be parsed leaves a label that
\* was freed, to be freed again with the list; a file that cannot be mapped is
\* closed with fclose, which is given a descriptor.
Fault ==
  /\ \/ pc = "read" /\ ~InBounds
     \/ Failures /\ Missed /\ regions # {}
     \/ Failures /\ pc = "get" /\ ~InView /\ ~GivenUp /\ Found /\ RegionOf.file \in File
  /\ pc' = "crashed"
  /\ UNCHANGED <<memory, want, retry, insn, steady>>

Lookup ==
  \/ EndLabel \/ UpdateLabel
  \/ GetView \/ Populate \/ UpdateGet \/ GiveUpGet \/ ReadStep \/ Fault

-----------------------------------------------------------------------------
Next ==
  \/ \E r \in Region : Map(r)
  \/ \E r \in maps : Unmap(r)
  \/ \E a \in Addr : StartLabel(a)
  \/ \E a \in Addr : StartRead(a)
  \/ Lookup

Spec == Init /\ [][Next]_vars

\* A lookup is a call of the sampler thread; it goes on.
FairSpec == Spec /\ WF_vars(Lookup)

-----------------------------------------------------------------------------
\* An address that is mapped all through a lookup is found by it, however
\* stale the cached regions and views were.
MappedIsFound ==
  pc \in {"label", "get"} /\ GivenUp => ~steady

\* The list of views stays as short as the addresses looked up require: each
\* view has an address no earlier one has, even when memmock_get_label has
\* renewed the regions under them.
EachViewNeeded ==
  \A i \in DOMAIN views :
    \E a \in Addr : /\ Covers(views[i], a)
                    /\ \A j \in 1 .. i - 1 : ~Covers(views[j], a)

\* access_accounting.c, line 180: the buffer is populated "partially" when the
\* next bytes are "out of bounds for in file".  A step is read only when it
\* lies in the view of the instruction.
ReadsInBounds == pc = "read" => InBounds

\* A lookup ends, whatever the process maps and unmaps meanwhile.
LookupEnds == pc # "idle" ~> pc \in {"idle", "crashed"}
=============================================================================
