------------------------------ MODULE MockCache ------------------------------
(***************************************************************************)
(* The cache of memory mocks (src/memory/memory_mock_cache.c), one per     *)
(* process, and its two users in the sampler thread: the receiver of       *)
(* samples, which keeps its mock and a label out of it until the sample is *)
(* done, and the accounting, which asks for the mock of the same process   *)
(* in between.  Nothing but a call of memmkcache_get purges an entry.      *)
(***************************************************************************)
EXTENDS Integers, Sequences, FiniteSets

CONSTANTS
  Pid,     \* processes
  Expiry,  \* default_expiry, in ticks
  Oom      \* whether malloc may fail

ASSUME CacheAssumption == Expiry \in Nat \ {0} /\ Oom \in BOOLEAN

VARIABLES
  cache,  \* sequence of [pid, left, held]: the ticks left until expires_after,
          \* and whether the receiver points into the entry
  pc,     \* where the receiver is
  pid     \* ps->pid, while a sample is handled

vars == <<cache, pc, pid>>

Entry == [pid : Pid, left : 0 .. Expiry, held : BOOLEAN]

Init == cache = <<>> /\ pc = "idle" /\ pid \in Pid

-----------------------------------------------------------------------------
\* expiry_in
Refresh(e) == [e EXCEPT !.left = Expiry]

\* Mutant: expired entries are purged whosever they are.
KeptIfFresh(e, p) == e.left > 0

\* Entries the loop of memmkcache_get leaves in the list.
Kept(e, p) == e.pid = p \/ e.left > 0

\* Mutant: the match is reset with every entry.
MissingLast(p) == \A i \in DOMAIN cache : i = Len(cache) => cache[i].pid # p

\* The loop ends without a match.
Missing(p) == \A i \in DOMAIN cache : cache[i].pid # p

\* Mutant: the loop ends with the match.
WalkedToMatch(p) ==
  LET pre == {i \in DOMAIN cache : \A j \in 1 .. i - 1 : cache[j].pid # p}
      head == SubSeq(cache, 1, Cardinality(pre))
      tail == SubSeq(cache, Cardinality(pre) + 1, Len(cache))
      Test(e) == Kept(e, p)
      kept == SelectSeq(head, Test) \o tail
  IN  [i \in DOMAIN kept |-> IF kept[i].pid = p THEN Refresh(kept[i]) ELSE kept[i]]

\* The cache after the loop.
Walked(p) ==
  LET kept[i \in 0 .. Len(cache)] ==
        IF i = 0 THEN <<>>
        ELSE IF Kept(cache[i], p)
        THEN Append(kept[i - 1], IF cache[i].pid = p THEN Refresh(cache[i]) ELSE cache[i])
        ELSE kept[i - 1]
  IN  kept[Len(cache)]

\* Entries of p become held; all others stay as they are.
Hold(c, p) == [i \in DOMAIN c |-> [c[i] EXCEPT !.held = (c[i].pid = p)]]

\* memmkcache_get finds or creates an entry.
Got(p) ==
  IF Missing(p) THEN Append(Walked(p), [pid |-> p, left |-> Expiry, held |-> FALSE])
  ELSE Walked(p)

-----------------------------------------------------------------------------
\* The receiver asks for the mock of a sample's process.
ReceiverGet(p) ==
  /\ pc = "idle"
  /\ pc' = "sample" /\ pid' = p
  /\ cache' = Hold(Got(p), p)

\* The new entry cannot be allocated: the sample is dropped.
ReceiverFails(p) ==
  /\ Oom /\ pc = "idle"
  /\ Missing(p)
  /\ cache' = Walked(p)
  /\ pid' = p
  /\ UNCHANGED pc

\* access_accounting_instruction_get, for a write to NVMM.  The entry exists, so
\* that nothing is allocated.
AccountingGet ==
  /\ pc = "sample"
  /\ pc' = "accounted"
  /\ cache' = Got(pid)
  /\ UNCHANGED pid

\* The receiver returns, whether the sample was accounted for or not.
EndSample ==
  /\ pc \in {"sample", "accounted"}
  /\ pc' = "idle"
  /\ cache' = [i \in DOMAIN cache |-> [cache[i] EXCEPT !.held = FALSE]]
  /\ UNCHANGED pid

\* memmkcache_deinit, when the sampler has been joined.
Deinit ==
  /\ pc = "idle"
  /\ pc' = "done"
  /\ cache' = <<>>
  /\ UNCHANGED pid

Tick ==
  /\ \E i \in DOMAIN cache : cache[i].left > 0
  /\ cache' = [i \in DOMAIN cache |->
                 [cache[i] EXCEPT !.left = IF @ > 0 THEN @ - 1 ELSE 0]]
  /\ UNCHANGED <<pc, pid>>

Next ==
  \/ \E p \in Pid : ReceiverGet(p) \/ ReceiverFails(p)
  \/ AccountingGet \/ EndSample
  \/ Deinit \/ Tick

Spec == Init /\ [][Next]_vars

\* Time goes on.  Nothing is assumed of samples or of main().
FairSpec == Spec /\ WF_vars(Tick)

-----------------------------------------------------------------------------
TypeOK ==
  /\ cache \in Seq(Entry)
  /\ pc \in {"idle", "sample", "accounted", "done"}
  /\ pid \in Pid

\* A process has one mock: regions and views are not kept twice.
OnePerPid ==
  \A i, j \in DOMAIN cache : i # j => cache[i].pid # cache[j].pid

\* The mock the receiver points into is not purged by the call the accounting
\* makes before the receiver is done with it, however much time has passed.
HeldStays ==
  pc \in {"sample", "accounted"} =>
    \E i \in DOMAIN cache : cache[i].held /\ cache[i].pid = pid

\* The mock of a process that is no longer sampled is purged while samples of
\* others arrive, wherever in the list it is.
EventuallyPurged ==
  \A p \in Pid :
    /\ []<><<\E q \in Pid \ {p} : ReceiverGet(q)>>_vars
    /\ <>[][~ReceiverGet(p)]_vars
    => <>[](\A i \in DOMAIN cache : cache[i].pid # p)
=============================================================================
