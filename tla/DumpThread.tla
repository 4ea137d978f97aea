------------------------------ MODULE DumpThread ------------------------------
(***************************************************************************)
(* The dump thread (access_worker.c) at the level of pointers, text and    *)
(* time: it takes the list of entries over by rewriting four pointers,     *)
(* prints and frees the entries while the sampler fills the list anew,     *)
(* and sleeps for what is left of the interval.  The sections under        *)
(* rw_lock are one step each, which AccessAccounting shows them to be.     *)
(*                                                                         *)
(* stdout is the state doc of a reader that follows the tokens printed.    *)
(* Time is what was measured and slept since the iteration began.          *)
(***************************************************************************)
EXTENDS ListOps, TimeSpec

CONSTANTS
  Pid, Tid,
  Block,     \* memory malloc may return for an entry or a row
  Current,   \* &current_entries
  Entries,   \* &entries, on the stack of access_worker_iteration
  Nowhere,   \* what is in freed memory
  Interval,  \* tv_nsec of max_sleep_duration
  MaxSpent,  \* bound: time an iteration takes
  ClockStep  \* by how much CLOCK_REALTIME is set while an iteration runs

\* &bytes_written_by_tid of the entry in block e
RowHead(e) == <<"rows", e>>

Fixed == {Current, Entries, Nowhere}

ASSUME HeapAssumption ==
  /\ Current # Entries /\ Current # Nowhere /\ Entries # Nowhere
  /\ Fixed \cap Block = {}
  /\ \A e \in Block : RowHead(e) \notin Fixed \cup Block
ASSUME TimeAssumption ==
  /\ Interval \in 1 .. NS
  /\ MaxSpent \in Nat /\ ClockStep \subseteq Int

Node == Block \cup Fixed \cup {RowHead(e) : e \in Block}

VARIABLES
  link,       \* the list_node of every entry, row and head
  owner,      \* the pid of an entry, the tid of a row
  used,       \* blocks that are allocated
  mainPc,     \* where main() is
  terminated, \* set by the signal handler
  state,      \* worker_dump.child_context.state is STARTED
  workerPc,   \* where the dump thread is
  first, cur, nxt,  \* its locals, current and next in a walk
  nap,        \* remaining_sleep
  doc,        \* what stdout holds so far
  queue,      \* auxiliary: the entries in the list, as they were added
  mine,       \* auxiliary: the entries taken over and not yet freed
  rows,       \* auxiliary: the rows of an entry, the last one added first
  spent,      \* auxiliary: time between the two reads of the clock
  step,       \* auxiliary: by how much the clock was set in between
  elapsed     \* auxiliary: time since the first of them

heap == <<link, owner, used, queue, mine, rows>>
main == <<mainPc, terminated, state>>
walk == <<cur, nxt>>
time == <<nap, spent, step, elapsed>>
vars == <<heap, main, workerPc, first, walk, time, doc>>

NoTime == [sec |-> 0, nsec |-> 0]

Init ==
  /\ link = [next |-> [n \in Node |-> Nowhere], prev |-> [n \in Node |-> Nowhere]]
  /\ owner = [b \in Block |-> Nowhere]
  /\ used = {}
  /\ mainPc = "settings" /\ terminated = FALSE /\ state = TRUE
  /\ workerPc = "none" /\ first = TRUE
  /\ cur = Entries /\ nxt = Entries
  /\ nap = NoTime /\ spent = 0 /\ step = 0 /\ elapsed = 0
  /\ doc = "empty"
  /\ queue = <<>> /\ mine = <<>> /\ rows = [e \in Block |-> <<>>]

-----------------------------------------------------------------------------
(* The text.  A token takes the reader to the next state, or is an error.  *)

Syntax ==
  {<<"empty", "settings", "settings">>,
   <<"settings", "[", "array">>,
   <<"array", "{", "object">>, <<"separator", "{", "object">>,
   <<"object", "entry", "entry">>, <<"comma", "entry", "entry">>,
   <<"entry", ",", "comma">>,
   <<"object", "]}", "record">>, <<"entry", "]}", "record">>,
   <<"record", ",", "separator">>,
   <<"array", "]", "closed">>, <<"record", "]", "closed">>,
   <<"closed", "debug", "complete">>}

Read(d, token) ==
  IF \E s \in Syntax : s[1] = d /\ s[2] = token
  THEN (CHOOSE s \in Syntax : s[1] = d /\ s[2] = token)[3]
  ELSE "invalid"

Write(token) == doc' = Read(doc, token)

-----------------------------------------------------------------------------
(* The sampler thread, inside access_accounting_write.                     *)

\* Mutant: only the first entry is looked at.
MatchFirst(p) == {e \in {link.next[Current]} \ {Current} : owner[e] = p}

\* The entry of a process, if there is one.
Match(p) == {e \in Members(link, Current, Block) : owner[e] = p}

\* The row of a thread in an entry, if there is one.
RowMatch(l, e, t) == {r \in Members(l, RowHead(e), Block) : owner[r] = t}

\* A store of thread t of process p.  The entry is found, or made at the end of
\* the list; so is the row, at the front.  The call ends in between when the
\* instruction cannot be decoded or there is no memory.
Store(p, t, e) ==
  LET new == Match(p) = {}
      l1 == IF new THEN ListInit(ListAddBefore(link, Current, e), RowHead(e)) ELSE link
      used1 == used \cup {e}
  IN  /\ mainPc = "run"
      /\ IF new THEN e \notin used ELSE e \in Match(p)
      /\ queue' = IF new THEN Append(queue, e) ELSE queue
      /\ \/ /\ new
            /\ owner' = [owner EXCEPT ![e] = p]
            /\ link' = l1 /\ used' = used1
            /\ UNCHANGED rows
         \/ /\ RowMatch(l1, e, t) = {}
            /\ \E r \in Block \ used1 :
                 /\ owner' = [owner EXCEPT ![e] = p, ![r] = t]
                 /\ link' = ListAddAfter(l1, RowHead(e), r)
                 /\ used' = used1 \cup {r}
                 /\ rows' = [rows EXCEPT ![e] = <<r>> \o @]
      /\ UNCHANGED <<mine, main, workerPc, first, walk, time, doc>>

-----------------------------------------------------------------------------
(* The dump thread.                                                        *)

Go(from, to) == workerPc = from /\ workerPc' = to

Start ==
  /\ Go("start", "check")
  /\ Write("[")
  /\ UNCHANGED <<heap, main, first, walk, time>>

\* The loop condition.  A new interval begins, or the array is closed.
Check ==
  /\ workerPc = "check"
  /\ IF state THEN workerPc' = "take" /\ UNCHANGED doc
     ELSE workerPc' = "exited" /\ Write("]")
  /\ nap' = NoTime /\ spent' = 0 /\ step' = 0 /\ elapsed' = 0
  /\ UNCHANGED <<heap, main, first, walk>>

\* Mutant: the last entry still leads to the old head.
SplicedHalf(l0) ==
  LET head == ListInit(l0, Entries)
      a == head.next[Current]
      l1 == IF a = Current THEN head
            ELSE [next |-> [head.next EXCEPT ![Entries] = a],
                  prev |-> [head.prev EXCEPT ![a] = Entries]]
      z == l1.prev[Current]
      l2 == IF z = Current THEN l1
            ELSE [next |-> l1.next,
                  prev |-> [l1.prev EXCEPT ![Entries] = z]]
  IN  ListInit(l2, Current)

\* The whole list goes from one head to the other, in four writes.
Spliced(l0) ==
  LET head == ListInit(l0, Entries)
      a == head.next[Current]
      l1 == IF a = Current THEN head
            ELSE [next |-> [head.next EXCEPT ![Entries] = a],
                  prev |-> [head.prev EXCEPT ![a] = Entries]]
      z == l1.prev[Current]
      l2 == IF z = Current THEN l1
            ELSE [next |-> [l1.next EXCEPT ![z] = Entries],
                  prev |-> [l1.prev EXCEPT ![Entries] = z]]
  IN  ListInit(l2, Current)

TakeList ==
  /\ Go("take", "open")
  /\ link' = Spliced(link)
  /\ mine' = queue
  /\ queue' = <<>>
  /\ UNCHANGED <<owner, used, rows, main, first, walk, time, doc>>

\* The record is opened and the walk begins.
OpenRecord ==
  /\ Go("open", "walk")
  /\ doc' = Read(IF first THEN doc ELSE Read(doc, ","), "{")
  /\ cur' = link.next[Entries]
  /\ nxt' = link.next[link.next[Entries]]
  /\ UNCHANGED <<heap, main, first, time>>

\* What was in freed memory is gone.
Gone(f, S) == [n \in DOMAIN f |-> IF n \in S THEN Nowhere ELSE f[n]]

Freed(l, S) == [next |-> Gone(l.next, S), prev |-> Gone(l.prev, S)]

\* An entry is printed with its rows, and taken out of the list.
DumpEntry ==
  /\ Go("walk", "free") /\ cur # Entries
  /\ Write("entry")
  /\ link' = ListRemove(link, cur)
  /\ mine' = Tail(mine)
  /\ UNCHANGED <<owner, used, queue, rows, main, first, walk, time>>

Free(b) == used' = used \ {b} /\ owner' = Gone(owner, {b})

\* access_entry_deinit takes the rows out and frees them, from the first.
FreeRow ==
  LET r == link.next[RowHead(cur)]
  IN  /\ workerPc = "free" /\ r # RowHead(cur)
      /\ link' = Freed(ListRemove(link, r), {r})
      /\ rows' = [rows EXCEPT ![cur] = Tail(@)]
      /\ Free(r)
      /\ UNCHANGED <<queue, mine, main, workerPc, first, walk, time, doc>>

\* Mutant: the next entry is looked up after the current one was freed.
FreeUnsafe ==
  /\ Go("free", "walk") /\ link.next[RowHead(cur)] = RowHead(cur)
  /\ link' = Freed(link, {cur, RowHead(cur)})
  /\ Free(cur)
  /\ doc' = IF nxt = Entries THEN doc ELSE Read(doc, ",")
  /\ cur' = link'.next[cur] /\ nxt' = link'.next[link'.next[cur]]
  /\ UNCHANGED <<queue, mine, rows, main, first, time>>

\* The entry is freed, the walk goes on to what was next before.
FreeEntry ==
  /\ Go("free", "walk") /\ link.next[RowHead(cur)] = RowHead(cur)
  /\ link' = Freed(link, {cur, RowHead(cur)})
  /\ Free(cur)
  /\ doc' = IF nxt = Entries THEN doc ELSE Read(doc, ",")
  /\ cur' = nxt /\ nxt' = link.next[nxt]
  /\ UNCHANGED <<queue, mine, rows, main, first, time>>

\* Mutant: every record is the first.
CloseFirst ==
  /\ Go("walk", "measure") /\ cur = Entries
  /\ Write("]}")
  /\ UNCHANGED <<heap, main, first, walk, time>>

CloseRecord ==
  /\ Go("walk", "measure") /\ cur = Entries
  /\ Write("]}")
  /\ first' = FALSE
  /\ UNCHANGED <<heap, main, walk, time>>

\* The time an iteration took, and what is left of the interval.  The clock
\* starts anywhere within a second.
Measure(phase, s, d) ==
  LET passed == TimespecDiff(Timespec(phase + s + d), Timespec(phase)).value
      rest == TimespecDiff([sec |-> 0, nsec |-> Interval], passed)
  IN  /\ workerPc = "measure"
      /\ spent' = s /\ elapsed' = s /\ step' = d
      /\ IF rest.negative THEN workerPc' = "check" /\ UNCHANGED nap
         ELSE workerPc' = "sleep" /\ nap' = rest.value
      /\ UNCHANGED <<heap, main, first, walk, doc>>

\* Mutant: either part is left, and not both.
AgainEither(rest) == rest.nsec # 0 \/ rest.sec # 0

\* The loop around nanosleep goes on: a rest of less than a second is dropped.
Again(rest) == rest.nsec # 0 /\ rest.sec # 0

\* nanosleep returns 0.
Sleep ==
  /\ Go("sleep", "check") /\ Normal(nap)
  /\ elapsed' = elapsed + Total(nap)
  /\ UNCHANGED <<heap, main, first, walk, nap, spent, step, doc>>

\* EINTR: the handler ran in this thread; what is left is less.
Interrupt(left) ==
  /\ workerPc = "sleep" /\ Normal(nap)
  /\ terminated' = TRUE
  /\ elapsed' = elapsed + Total(nap) - left
  /\ nap' = Timespec(left)
  /\ workerPc' = IF Again(nap') THEN "sleep" ELSE "check"
  /\ UNCHANGED <<heap, mainPc, state, first, walk, spent, step, doc>>

\* EINVAL: tv_nsec is a whole second, remaining_sleep is left as it is.
Refuse ==
  /\ workerPc = "sleep" /\ ~Normal(nap)
  /\ workerPc' = IF Again(nap) THEN "sleep" ELSE "check"
  /\ UNCHANGED <<heap, main, first, walk, time, doc>>

Worker ==
  \/ Start \/ Check \/ TakeList \/ OpenRecord \/ DumpEntry \/ FreeRow \/ FreeEntry
  \/ CloseRecord
  \/ \E phase \in 0 .. NS - 1, s \in 0 .. MaxSpent, d \in ClockStep :
       Measure(phase, s, d)
  \/ Sleep \/ Refuse

-----------------------------------------------------------------------------
(* main().                                                                 *)

MainGo(from, to) == mainPc = from /\ mainPc' = to

PrintSettings ==
  /\ MainGo("settings", "init")
  /\ Write("settings")
  /\ UNCHANGED <<heap, terminated, state, workerPc, first, walk, time>>

\* access_accounting_init.  The dump thread is modelled from when the list is
\* initialised; AccessAccounting has what may happen before.
InitAccounting ==
  /\ MainGo("init", "run")
  /\ link' = ListInit(link, Current)
  /\ workerPc' = "start"
  /\ UNCHANGED <<owner, used, queue, mine, rows, terminated, state, first, walk, time, doc>>

\* The handler runs in another thread than the one that sleeps.
Signal ==
  /\ mainPc # "done" /\ ~terminated
  /\ terminated' = TRUE
  /\ UNCHANGED <<heap, mainPc, state, workerPc, first, walk, time, doc>>

\* The sampler is joined, then the dump thread is asked to stop.
StopWorker ==
  /\ MainGo("run", "join")
  /\ terminated
  /\ state' = FALSE
  /\ UNCHANGED <<heap, terminated, workerPc, first, walk, time, doc>>

JoinWorker ==
  /\ MainGo("join", "free")
  /\ workerPc = "exited"
  /\ UNCHANGED <<heap, terminated, state, workerPc, first, walk, time, doc>>

\* Mutant: entries are freed without their rows.
FreeHeads ==
  /\ MainGo("free", "debug")
  /\ used' = used \ Members(link, Current, Block)
  /\ queue' = <<>> /\ rows' = [e \in Block |-> <<>>]
  /\ UNCHANGED <<link, owner, mine, terminated, state, workerPc, first, walk, time, doc>>

\* Entries of stores that were not reported; the head is not touched again.
\* Nobody else is left to see one entry freed before the other.
FreeEntries ==
  /\ MainGo("free", "debug")
  /\ used' = used \ UNION {{e} \cup Members(link, RowHead(e), Block) : e \in Members(link, Current, Block)}
  /\ queue' = <<>> /\ rows' = [e \in Block |-> <<>>]
  /\ UNCHANGED <<link, owner, mine, terminated, state, workerPc, first, walk, time, doc>>

PrintDebug ==
  /\ MainGo("debug", "done")
  /\ Write("debug")
  /\ UNCHANGED <<heap, terminated, state, workerPc, first, walk, time>>

Main ==
  \/ PrintSettings \/ InitAccounting \/ StopWorker \/ JoinWorker \/ FreeEntries
  \/ PrintDebug

Exited == mainPc = "done" /\ UNCHANGED vars

Next ==
  \/ \E p \in Pid, t \in Tid, e \in Block : Store(p, t, e)
  \/ Worker
  \/ \E left \in 0 .. Total(nap) - 1 : Interrupt(left)
  \/ Signal \/ Main \/ Exited

Spec == Init /\ [][Next]_vars

\* Both threads are scheduled, and a sleep ends.  Signals and stores need not
\* come.
FairSpec == Spec /\ WF_vars(Worker) /\ WF_vars(Main)

-----------------------------------------------------------------------------
TypeOK ==
  /\ link \in [next : [Node -> Node], prev : [Node -> Node]]
  /\ owner \in [Block -> Pid \cup Tid \cup {Nowhere}]
  /\ used \subseteq Block
  /\ mainPc \in {"settings", "init", "run", "join", "free", "debug", "done"}
  /\ terminated \in BOOLEAN /\ state \in BOOLEAN /\ first \in BOOLEAN
  /\ workerPc \in {"none", "start", "check", "take", "open", "walk", "free",
                   "measure", "sleep", "exited"}
  /\ cur \in Node /\ nxt \in Node
  /\ nap \in [sec : Nat, nsec : 0 .. NS]
  /\ doc \in {s[3] : s \in Syntax} \cup {"empty", "invalid"}
  /\ queue \in Seq(Block) /\ mine \in Seq(Block)
  /\ rows \in [Block -> Seq(Block)]
  /\ spent \in Nat /\ step \in Int /\ elapsed \in Nat

Image(s) == {s[i] : i \in 1 .. Len(s)}

\* The entries in a list, and the one that is being freed.
Listed == Image(queue) \cup Image(mine) \cup (IF workerPc = "free" THEN {cur} ELSE {})

\* The pointers of both lists, forwards and backwards, are those of the
\* sequences of entries added and not yet taken over or freed, and so are those of
\* the rows of every entry: the four writes of the hand-over leave no pointer
\* from one list into the other, for empty lists, one entry and more, while the
\* sampler adds to the one and the dump thread takes from the other.
ListsIntact ==
  /\ mainPc \in {"run", "join", "free"} => Ring(link, Current, queue)
  /\ workerPc \in {"open", "walk", "free"} => Ring(link, Entries, mine)
  /\ \A e \in Listed : Ring(link, RowHead(e), rows[e])

\* The two pointers of the walk are at entries that are still to come, or at
\* the head: never at memory that was freed or that the sampler made a new
\* entry of.
WalkSafe ==
  /\ workerPc = "walk" => cur = At(Entries, mine, 1) /\ nxt = At(Entries, mine, 2)
  /\ workerPc = "free" => cur \in used /\ nxt = At(Entries, mine, 1)

\* What is allocated is in exactly one list: nothing is leaked where a row or an
\* entry could not be made, nor freed and still listed, and nothing is left at
\* the end.
NoLeak ==
  /\ used = Listed \cup UNION {Image(rows[e]) : e \in Listed}
  /\ Image(queue) \cap Image(mine) = {}
  /\ \A e \in Listed : Image(rows[e]) \cap Listed = {}
  /\ \A e, f \in Listed : e # f => Image(rows[e]) \cap Image(rows[f]) = {}
  /\ mainPc = "done" => used = {}

\* access_worker.c, line 10: the text is well-formed at any time, its commas
\* between records and between entries included, and complete when the
\* program ends, although two threads write it.
OutputValid == doc # "invalid" /\ (mainPc = "done" => doc = "complete")

\* The interval from one look at the list to the next: exactly the interval, or
\* the time the iteration took if that is more, by the clock as it is set.
\* Where no time at all passed by that clock, tv_nsec is a whole second, which
\* nanosleep refuses.
Paced ==
  LET wall == spent + step
      rest == IF wall < Interval THEN Interval - wall ELSE 0
  IN  workerPc = "check" /\ ~first /\ ~terminated =>
        elapsed = spent + IF wall = 0 /\ Interval = NS THEN 0 ELSE rest

\* The processes in the two lists, as the queue sees them.
Shared == [i \in 1 .. Len(queue) |-> owner[queue[i]]]
Taken == [i \in 1 .. Len(mine) |-> owner[mine[i]]]

Handover == INSTANCE EntryQueue WITH shared <- Shared, taken <- Taken

\* Processes are reported once per record, in the order of their first store.
ImplementsQueue == Handover!Spec

\* nanosleep refuses the same rest again and again.
Spins == workerPc = "sleep" /\ ~Normal(nap) /\ Again(nap)

\* After the signal the program ends, whatever the dump thread is at, unless
\* the clock was set back by whole seconds during an iteration.
EndsAfterStop == (mainPc = "join") ~> (mainPc = "done" \/ (Spins /\ step < 0))
=============================================================================
