----------------------- MODULE AccessAccountingProofs -----------------------
(* Proofs about AccessAccounting, for any processes, threads and stores.   *)
EXTENDS AccessAccounting, FiniteSetTheorems, TLAPS

\* For induction over the natural numbers.
ListLemmas == INSTANCE ListOpsProofs

\* FreedAlone is not inductive without what JoinSampler established before.
SamplerGone == mainPc \in {"stop_worker", "join_worker"} => writerPc = "exited"

\* Nothing runs before main() starts it.
WorkerUnborn == mainPc = "spawn" => workerPc = "none"

\* The inductive invariant.  Conservation is inductive by itself, for the
\* counts only move; that they are never left behind needs the lock.
IInv ==
  /\ TypeOK
  /\ LockOwner
  /\ Conservation
  /\ MatchStaysListed
  /\ CountsAreListed
  /\ WorkerUnborn
  /\ SamplerGone
  /\ FreedAlone

-----------------------------------------------------------------------------
(* Moving counts.                                                          *)

\* Move takes the counts of S out of one place and adds them to the other.
LEMMA MoveEffect ==
  ASSUME TypeOK, NEW from \in Place, NEW to \in Place, from # to,
         NEW S \in SUBSET Pid, Move(from, to, S)
  PROVE  /\ total' \in [Place -> [Pid -> Nat]]
         /\ row' \in [Place -> [Row -> Nat]]
         /\ \A p \in Pid :
              /\ total'[from][p] = IF p \in S THEN 0 ELSE total[from][p]
              /\ total'[to][p] = IF p \in S THEN total[to][p] + total[from][p]
                                            ELSE total[to][p]
         /\ \A r \in Row :
              /\ row'[from][r] = IF r[1] \in S THEN 0 ELSE row[from][r]
              /\ row'[to][r] = IF r[1] \in S THEN row[to][r] + row[from][r]
                                             ELSE row[to][r]
         /\ \A l \in Place \ {from, to} : total'[l] = total[l] /\ row'[l] = row[l]
<1>1. total \in [Place -> [Pid -> Nat]] /\ row \in [Place -> [Row -> Nat]]
  BY DEF TypeOK
<1>2. /\ total' = [total EXCEPT
           ![from] = [p \in Pid |-> IF p \in S THEN 0 ELSE total[from][p]],
           ![to] = [p \in Pid |-> IF p \in S THEN total[to][p] + total[from][p]
                                             ELSE total[to][p]]]
      /\ row' = [row EXCEPT
           ![from] = [r \in Row |-> IF r[1] \in S THEN 0 ELSE row[from][r]],
           ![to] = [r \in Row |-> IF r[1] \in S THEN row[to][r] + row[from][r]
                                               ELSE row[to][r]]]
  BY <1>1 DEF Move
<1>3. /\ [p \in Pid |-> IF p \in S THEN 0 ELSE total[from][p]] \in [Pid -> Nat]
      /\ [p \in Pid |-> IF p \in S THEN total[to][p] + total[from][p]
                                    ELSE total[to][p]] \in [Pid -> Nat]
  BY <1>1
<1>4. /\ [r \in Row |-> IF r[1] \in S THEN 0 ELSE row[from][r]] \in [Row -> Nat]
      /\ [r \in Row |-> IF r[1] \in S THEN row[to][r] + row[from][r]
                                      ELSE row[to][r]] \in [Row -> Nat]
  BY <1>1
<1>5. total' \in [Place -> [Pid -> Nat]] /\ row' \in [Place -> [Row -> Nat]]
  BY <1>1, <1>2, <1>3, <1>4
<1>6. /\ total'[from] = [p \in Pid |-> IF p \in S THEN 0 ELSE total[from][p]]
      /\ total'[to] = [p \in Pid |-> IF p \in S THEN total[to][p] + total[from][p]
                                                ELSE total[to][p]]
      /\ \A l \in Place \ {from, to} : total'[l] = total[l]
  BY <1>1, <1>2
<1>7. /\ row'[from] = [r \in Row |-> IF r[1] \in S THEN 0 ELSE row[from][r]]
      /\ row'[to] = [r \in Row |-> IF r[1] \in S THEN row[to][r] + row[from][r]
                                                 ELSE row[to][r]]
      /\ \A l \in Place \ {from, to} : row'[l] = row[l]
  BY <1>1, <1>2
<1> QED
  BY <1>5, <1>6, <1>7

\* Wherever counts move, their sum over the places stays.
LEMMA MoveConserves ==
  ASSUME TypeOK, Conservation, NEW from \in Place, NEW to \in Place, from # to,
         NEW S \in SUBSET Pid, Move(from, to, S), UNCHANGED aux
  PROVE  Conservation'
<1>1. \A p \in Pid : /\ total["current"][p] \in Nat /\ total["entries"][p] \in Nat
                     /\ total["printed"][p] \in Nat /\ total["freed"][p] \in Nat
  BY DEF TypeOK, Place
<1>2. \A r \in Row : /\ row["current"][r] \in Nat /\ row["entries"][r] \in Nat
                     /\ row["printed"][r] \in Nat /\ row["freed"][r] \in Nat
  BY DEF TypeOK, Place
<1>3. /\ \A p \in Pid :
           /\ total'[from][p] = IF p \in S THEN 0 ELSE total[from][p]
           /\ total'[to][p] = IF p \in S THEN total[to][p] + total[from][p]
                                         ELSE total[to][p]
      /\ \A r \in Row :
           /\ row'[from][r] = IF r[1] \in S THEN 0 ELSE row[from][r]
           /\ row'[to][r] = IF r[1] \in S THEN row[to][r] + row[from][r]
                                          ELSE row[to][r]
      /\ \A l \in Place \ {from, to} : total'[l] = total[l] /\ row'[l] = row[l]
  BY MoveEffect
<1>4. ASSUME NEW p \in Pid
      PROVE  tracked'[p] = total'["current"][p] + total'["entries"][p]
                           + total'["printed"][p] + total'["freed"][p]
  <2>1. tracked'[p] = total["current"][p] + total["entries"][p]
                      + total["printed"][p] + total["freed"][p]
    BY DEF Conservation, aux
  <2> QED
    BY <1>1, <1>3, <2>1 DEF Place
<1>5. ASSUME NEW r \in Row
      PROVE  booked'[r] = row'["current"][r] + row'["entries"][r]
                          + row'["printed"][r] + row'["freed"][r]
  <2>1. booked'[r] = row["current"][r] + row["entries"][r]
                     + row["printed"][r] + row["freed"][r]
    BY DEF Conservation, aux
  <2> QED
    BY <1>2, <1>3, <2>1 DEF Place
<1> QED
  BY <1>4, <1>5 DEF Conservation

\* Adding one to a count of one place changes that count alone.
LEMMA BumpEffect ==
  ASSUME NEW A, NEW B, NEW f \in [A -> [B -> Nat]], NEW a \in A, NEW b \in B,
         NEW g, g = [f EXCEPT ![a][b] = @ + 1]
  PROVE  /\ g \in [A -> [B -> Nat]]
         /\ g[a][b] = f[a][b] + 1
         /\ \A y \in B \ {b} : g[a][y] = f[a][y]
         /\ \A x \in A \ {a} : g[x] = f[x]
<1> DEFINE h == [f[a] EXCEPT ![b] = f[a][b] + 1]
<1>1. h \in [B -> Nat] /\ h[b] = f[a][b] + 1 /\ \A y \in B \ {b} : h[y] = f[a][y]
  OBVIOUS
<1>2. g = [f EXCEPT ![a] = h]
  OBVIOUS
<1> QED
  BY <1>1, <1>2

-----------------------------------------------------------------------------
(* Every step keeps the inductive invariant.                               *)

\* Nothing is booked and nobody holds the lock at first.
LEMMA InitIInv == Init => IInv
<1> SUFFICES ASSUME Init PROVE IInv
  OBVIOUS
<1>1. TypeOK
  BY DEF Init, TypeOK, Place
<1>2. Conservation
  BY DEF Init, Conservation, Place
<1>3. LockOwner /\ MatchStaysListed /\ WorkerUnborn /\ SamplerGone /\ FreedAlone
  BY DEF Init, LockOwner, MatchStaysListed, WorkerUnborn, SamplerGone,
     FreedAlone
<1>4. CountsAreListed
  BY DEF Init, CountsAreListed, Place
<1> QED
  BY <1>1, <1>2, <1>3, <1>4 DEF IInv

\* A step that touches neither the books nor a count keeps what is said of
\* them alone.
LEMMA BooksUntouched ==
  ASSUME IInv, UNCHANGED <<books, aux>>
  PROVE  /\ Conservation'
         /\ \A l \in {"current", "entries"}, p \in Pid :
              p \notin listed'[l] => total'[l][p] = 0
         /\ listed' \in [{"current", "entries"} -> SUBSET Pid]
         /\ total' \in [Place -> [Pid -> Nat]]
         /\ row' \in [Place -> [Row -> Nat]]
         /\ tracked' \in [Pid -> Nat]
         /\ booked' \in [Row -> Nat]
<1>1. listed' = listed /\ total' = total /\ row' = row
      /\ tracked' = tracked /\ booked' = booked
  BY DEF books, aux
<1>2. Conservation'
  BY <1>1 DEF IInv, Conservation
<1>3. TypeOK /\ CountsAreListed
  BY DEF IInv
<1> QED
  BY <1>1, <1>2, <1>3 DEF TypeOK, CountsAreListed

\* The steps of main() that move no count.
LEMMA MainQuietIInv ==
  ASSUME IInv,
         \/ SpawnWorker \/ ListInit \/ LockInit \/ SignalStop \/ JoinSampler
         \/ StopWorker \/ JoinWorker \/ FreeLock \/ FreeUnlock
  PROVE  IInv'
<1>1. UNCHANGED <<books, aux, job, writes>>
  BY DEF SpawnWorker, ListInit, LockInit, SignalStop, JoinSampler, StopWorker,
         JoinWorker, FreeLock, FreeUnlock
<1>2. UNCHANGED writerPc
  BY DEF SpawnWorker, ListInit, LockInit, SignalStop, JoinSampler, StopWorker,
         JoinWorker, FreeLock, FreeUnlock
<1>3. TypeOK'
  BY <1>1, <1>2, BooksUntouched
     DEF IInv, TypeOK, SpawnWorker, ListInit, LockInit, SignalStop, JoinSampler,
         StopWorker, JoinWorker, FreeLock, FreeUnlock, MainGo, Lock, Unlock
<1>4. LockOwner'
  BY <1>2 DEF IInv, LockOwner, SpawnWorker, ListInit, LockInit, SignalStop,
              JoinSampler, StopWorker, JoinWorker, FreeLock, FreeUnlock, MainGo,
              Lock, Unlock, WorkerUnborn
<1>5. MatchStaysListed'
  BY <1>1, <1>2 DEF IInv, MatchStaysListed, books
<1>6. CountsAreListed'
  <2>1. workerPc' # "dump" /\ workerPc' # "unlock" => listed'["entries"] = {}
    BY <1>1 DEF IInv, CountsAreListed, books, SpawnWorker, ListInit, LockInit,
                SignalStop, JoinSampler, StopWorker, JoinWorker, FreeLock,
                FreeUnlock, MainGo, WorkerUnborn
  <2> QED
    BY <1>1, <2>1, BooksUntouched DEF CountsAreListed
<1>7. WorkerUnborn' /\ SamplerGone' /\ FreedAlone'
  BY <1>2 DEF IInv, WorkerUnborn, SamplerGone, FreedAlone, SpawnWorker,
     ListInit, LockInit,
              SignalStop, JoinSampler, StopWorker, JoinWorker, FreeLock,
              FreeUnlock, MainGo
<1> QED
  BY <1>1, <1>3, <1>4, <1>5, <1>6, <1>7, BooksUntouched DEF IInv

\* main() frees the list: what was booked in it moves to what is freed.
LEMMA FreeEntriesIInv ==
  ASSUME IInv, FreeEntries
  PROVE  IInv'
<1> DEFINE S == listed["current"]
<1>1. TypeOK /\ S \in SUBSET Pid /\ Move("current", "freed", S)
  BY DEF IInv, TypeOK, FreeEntries
<1>2. {"current", "freed"} \subseteq Place /\ UNCHANGED aux
  BY DEF Place, FreeEntries
<1>3. /\ total' \in [Place -> [Pid -> Nat]]
      /\ row' \in [Place -> [Row -> Nat]]
      /\ \A p \in Pid : total'["current"][p] = IF p \in S THEN 0
                                               ELSE total["current"][p]
      /\ total'["entries"] = total["entries"]
  <2> HIDE DEF S
  <2> QED
    BY <1>1, <1>2, MoveEffect DEF Place
<1>4. Conservation'
  <2> HIDE DEF S
  <2> QED
    BY <1>1, <1>2, MoveConserves DEF IInv
<1>5. listed' = [listed EXCEPT !["current"] = {}]
  BY DEF FreeEntries
<1>6. TypeOK'
  BY <1>1, <1>3, <1>5 DEF TypeOK, FreeEntries, MainGo, aux
<1>7. LockOwner' /\ MatchStaysListed' /\ WorkerUnborn' /\ SamplerGone' /\ FreedAlone'
  BY DEF IInv, LockOwner, MatchStaysListed, WorkerUnborn, SamplerGone,
     FreedAlone, FreeEntries,
         MainGo
<1>8. CountsAreListed'
  <2>1. ASSUME NEW p \in Pid PROVE total'["current"][p] = 0
    BY <1>3 DEF IInv, CountsAreListed
  <2>2. ASSUME NEW p \in Pid, p \notin listed'["entries"]
        PROVE  total'["entries"][p] = 0
    BY <1>1, <1>3, <1>5, <2>2 DEF IInv, TypeOK, CountsAreListed
  <2>3. listed'["entries"] = listed["entries"] /\ workerPc' = workerPc
    BY <1>1, <1>5 DEF TypeOK, FreeEntries
  <2> QED
    BY <2>1, <2>2, <2>3 DEF IInv, CountsAreListed
<1> QED
  BY <1>4, <1>6, <1>7, <1>8 DEF IInv

\* The steps of the sampler that book nothing.
LEMMA WriterQuietIInv ==
  ASSUME IInv,
         \/ \E r \in Row : StartWrite(r)
         \/ WriterLock \/ GiveUp \/ Decode \/ WriterUnlock \/ WriterExit
  PROVE  IInv'
<1>1. UNCHANGED <<books, aux, mainPc, workerPc, state, fault>>
  BY DEF StartWrite, WriterLock, GiveUp, Decode, WriterUnlock, WriterExit
<1>2. TypeOK'
  BY <1>1, BooksUntouched
     DEF IInv, TypeOK, StartWrite, WriterLock, GiveUp, Decode, WriterUnlock,
         WriterExit, WriterGo, Lock, Unlock
<1>3. LockOwner'
  BY <1>1 DEF IInv, LockOwner, StartWrite, WriterLock, GiveUp, Decode,
              WriterUnlock, WriterExit, WriterGo, Lock, Unlock
<1>4. MatchStaysListed'
  BY <1>1 DEF IInv, MatchStaysListed, StartWrite, WriterLock, GiveUp, Decode,
              WriterUnlock, WriterExit, WriterGo, books
<1>5. CountsAreListed'
  BY <1>1, BooksUntouched DEF IInv, CountsAreListed, books
<1>6. WorkerUnborn' /\ SamplerGone' /\ FreedAlone'
  BY <1>1 DEF IInv, WorkerUnborn, SamplerGone, FreedAlone, StartWrite,
     WriterLock, GiveUp,
              Decode, WriterUnlock, WriterExit, WriterGo
<1> QED
  BY <1>1, <1>2, <1>3, <1>4, <1>5, <1>6, BooksUntouched DEF IInv

\* The sampler finds or makes the entry it is about to charge.
LEMMA FindEntryIInv ==
  ASSUME IInv, FindEntry
  PROVE  IInv'
<1>1. listed' = [listed EXCEPT !["current"] = @ \cup {job[1]}]
      /\ UNCHANGED <<mainPc, workerPc, holder, state, job, total, row, writes,
                     aux, fault>>
      /\ writerPc = "find" /\ writerPc' = "decode"
  BY DEF FindEntry, WriterGo
<1>2. TypeOK /\ job[1] \in Pid
  BY DEF IInv, TypeOK, Row
<1>3. TypeOK'
  BY <1>1, <1>2 DEF TypeOK, aux
<1>4. Conservation'
  BY <1>1 DEF IInv, Conservation, aux
<1>5. LockOwner' /\ WorkerUnborn' /\ SamplerGone' /\ FreedAlone'
  BY <1>1 DEF IInv, LockOwner, WorkerUnborn, SamplerGone, FreedAlone
<1>6. MatchStaysListed'
  BY <1>1, <1>2 DEF MatchStaysListed, TypeOK
<1>7. CountsAreListed'
  BY <1>1, <1>2 DEF IInv, CountsAreListed, TypeOK
<1> QED
  BY <1>3, <1>4, <1>5, <1>6, <1>7 DEF IInv

\* The sampler charges the entry, and its row unless that cannot be made.
LEMMA TrackWriteIInv ==
  ASSUME IInv, TrackWrite
  PROVE  IInv'
<1> DEFINE p == job[1]
<1>1. /\ UNCHANGED <<mainPc, workerPc, holder, state, job, listed, writes, fault>>
      /\ writerPc = "track" /\ writerPc' = "unlock"
      /\ total' = [total EXCEPT !["current"][p] = @ + 1]
      /\ tracked' = [tracked EXCEPT ![p] = @ + 1]
      /\ \/ /\ row' = [row EXCEPT !["current"][job] = @ + 1]
            /\ booked' = [booked EXCEPT ![job] = @ + 1]
         \/ UNCHANGED <<row, booked>>
  BY DEF TrackWrite, WriterGo
<1>2. TypeOK /\ p \in Pid /\ job \in Row
  BY DEF IInv, TypeOK, Row
<1>3. /\ total' \in [Place -> [Pid -> Nat]]
      /\ total'["current"][p] = total["current"][p] + 1
      /\ \A q \in Pid \ {p} : total'["current"][q] = total["current"][q]
      /\ \A l \in Place \ {"current"} : total'[l] = total[l]
      /\ tracked' \in [Pid -> Nat]
      /\ tracked'[p] = tracked[p] + 1
      /\ \A q \in Pid \ {p} : tracked'[q] = tracked[q]
  <2>1. total \in [Place -> [Pid -> Nat]] /\ "current" \in Place
    BY <1>2 DEF TypeOK, Place
  <2>2. tracked \in [Pid -> Nat]
    BY <1>2 DEF TypeOK
  <2>3. /\ tracked' \in [Pid -> Nat]
        /\ tracked'[p] = tracked[p] + 1
        /\ \A q \in Pid \ {p} : tracked'[q] = tracked[q]
    BY <1>1, <1>2, <2>2
  <2>4. /\ total' \in [Place -> [Pid -> Nat]]
        /\ total'["current"][p] = total["current"][p] + 1
        /\ \A q \in Pid \ {p} : total'["current"][q] = total["current"][q]
        /\ \A l \in Place \ {"current"} : total'[l] = total[l]
    <3> HIDE DEF p
    <3> QED
      BY <1>1, <1>2, <2>1, BumpEffect
  <2> QED
    BY <2>3, <2>4
<1>4. /\ row' \in [Place -> [Row -> Nat]]
      /\ booked' \in [Row -> Nat]
      /\ \A r \in Row : \/ /\ booked'[r] = booked[r] + 1
                           /\ row'["current"][r] = row["current"][r] + 1
                        \/ /\ booked'[r] = booked[r]
                           /\ row'["current"][r] = row["current"][r]
      /\ \A l \in Place \ {"current"} : row'[l] = row[l]
  <2>1. /\ row \in [Place -> [Row -> Nat]] /\ "current" \in Place
        /\ booked \in [Row -> Nat]
    BY <1>2 DEF TypeOK, Place
  <2>2. CASE UNCHANGED <<row, booked>>
    BY <2>1, <2>2
  <2>3. CASE /\ row' = [row EXCEPT !["current"][job] = @ + 1]
             /\ booked' = [booked EXCEPT ![job] = @ + 1]
    <3>1. /\ row' \in [Place -> [Row -> Nat]]
          /\ row'["current"][job] = row["current"][job] + 1
          /\ \A r \in Row \ {job} : row'["current"][r] = row["current"][r]
          /\ \A l \in Place \ {"current"} : row'[l] = row[l]
      BY <1>2, <2>1, <2>3, BumpEffect
    <3>2. /\ booked' \in [Row -> Nat]
          /\ booked'[job] = booked[job] + 1
          /\ \A r \in Row \ {job} : booked'[r] = booked[r]
      BY <1>2, <2>1, <2>3
    <3> QED
      BY <3>1, <3>2
  <2> QED
    BY <1>1, <2>2, <2>3
<1>5. TypeOK'
  BY <1>1, <1>2, <1>3, <1>4 DEF TypeOK
<1>6. Conservation'
  <2>1. ASSUME NEW q \in Pid
        PROVE  tracked'[q] = total'["current"][q] + total'["entries"][q]
                             + total'["printed"][q] + total'["freed"][q]
    <3>1. tracked[q] = total["current"][q] + total["entries"][q]
                       + total["printed"][q] + total["freed"][q]
      BY DEF IInv, Conservation
    <3>2. /\ total["current"][q] \in Nat /\ total["entries"][q] \in Nat
          /\ total["printed"][q] \in Nat /\ total["freed"][q] \in Nat
      BY <1>2 DEF TypeOK, Place
    <3>3. /\ total'["entries"] = total["entries"]
          /\ total'["printed"] = total["printed"]
          /\ total'["freed"] = total["freed"]
      BY <1>3 DEF Place
    <3>4. CASE q = p
      BY <1>3, <3>1, <3>2, <3>3, <3>4
    <3>5. CASE q # p
      BY <1>3, <3>1, <3>3, <3>5
    <3> QED
      BY <3>4, <3>5
  <2>2. ASSUME NEW r \in Row
        PROVE  booked'[r] = row'["current"][r] + row'["entries"][r]
                            + row'["printed"][r] + row'["freed"][r]
    <3>1. booked[r] = row["current"][r] + row["entries"][r]
                      + row["printed"][r] + row["freed"][r]
      BY DEF IInv, Conservation
    <3>2. /\ row["current"][r] \in Nat /\ row["entries"][r] \in Nat
          /\ row["printed"][r] \in Nat /\ row["freed"][r] \in Nat
      BY <1>2 DEF TypeOK, Place
    <3>3. /\ row'["entries"] = row["entries"]
          /\ row'["printed"] = row["printed"]
          /\ row'["freed"] = row["freed"]
      BY <1>4 DEF Place
    <3>4. \/ /\ booked'[r] = booked[r] + 1
             /\ row'["current"][r] = row["current"][r] + 1
          \/ /\ booked'[r] = booked[r]
             /\ row'["current"][r] = row["current"][r]
      BY <1>4
    <3> QED
      BY <3>1, <3>2, <3>3, <3>4
  <2> QED
    BY <2>1, <2>2 DEF Conservation
<1>7. LockOwner' /\ MatchStaysListed' /\ WorkerUnborn' /\ SamplerGone'
      /\ FreedAlone'
  BY <1>1 DEF IInv, LockOwner, MatchStaysListed, WorkerUnborn, SamplerGone,
              FreedAlone
<1>8. CountsAreListed'
  <2>1. p \in listed["current"]
    BY <1>1 DEF IInv, MatchStaysListed
  <2> QED
    BY <1>1, <1>2, <1>3, <2>1 DEF IInv, CountsAreListed, Place
<1> QED
  BY <1>5, <1>6, <1>7, <1>8 DEF IInv

\* The steps of the dump thread between the hand-over and the reports.
LEMMA WorkerQuietIInv ==
  ASSUME IInv, WorkerCheck \/ WorkerLock \/ WorkerUnlock \/ EndDump
  PROVE  IInv'
<1>1. UNCHANGED <<books, aux, mainPc, writerPc, state, fault, job, writes>>
  BY DEF WorkerCheck, WorkerLock, WorkerUnlock, EndDump
<1>2. TypeOK'
  BY <1>1, BooksUntouched DEF IInv, TypeOK, WorkerCheck, WorkerLock,
                              WorkerUnlock, EndDump, WorkerGo, Lock, Unlock
<1>3. LockOwner'
  BY <1>1 DEF IInv, LockOwner, WorkerCheck, WorkerLock, WorkerUnlock, EndDump,
              WorkerGo, Lock, Unlock
<1>4. MatchStaysListed'
  BY <1>1 DEF IInv, MatchStaysListed, books
<1>5. CountsAreListed'
  BY <1>1, BooksUntouched DEF IInv, CountsAreListed, books, WorkerCheck,
                              WorkerLock, WorkerUnlock, EndDump, WorkerGo
<1>6. WorkerUnborn' /\ SamplerGone' /\ FreedAlone'
  BY <1>1 DEF IInv, WorkerUnborn, SamplerGone, FreedAlone, WorkerCheck,
              WorkerLock, WorkerUnlock, EndDump, WorkerGo
<1> QED
  BY <1>1, <1>2, <1>3, <1>4, <1>5, <1>6, BooksUntouched DEF IInv

\* The hand-over moves all counts with their entries, or is undefined.
LEMMA SpliceIInv ==
  ASSUME IInv, Splice
  PROVE  IInv'
<1> DEFINE S == listed["current"]
<1>1. /\ UNCHANGED <<mainPc, writerPc, holder, state, job, writes, aux>>
      /\ workerPc = "splice" /\ workerPc' = "unlock"
  BY DEF Splice, WorkerGo
<1>2. CASE mainPc = "list_init"
  <2>1. UNCHANGED books /\ fault' = "null_deref"
    BY <1>2 DEF Splice
  <2>2. TypeOK'
    BY <1>1, <2>1, BooksUntouched DEF IInv, TypeOK
  <2>3. CountsAreListed'
    BY <1>1, <2>1, BooksUntouched DEF CountsAreListed
  <2>4. LockOwner' /\ MatchStaysListed' /\ WorkerUnborn' /\ SamplerGone'
        /\ FreedAlone'
    BY <1>1, <2>1 DEF IInv, LockOwner, MatchStaysListed, WorkerUnborn,
                      SamplerGone, FreedAlone, books
  <2> QED
    BY <1>1, <2>1, <2>2, <2>3, <2>4, BooksUntouched DEF IInv
<1>3. CASE mainPc # "list_init"
  <2>1. /\ TypeOK /\ S \in SUBSET Pid /\ Move("current", "entries", S)
        /\ listed' = [current |-> {}, entries |-> S]
        /\ fault' = fault
    BY <1>3 DEF IInv, TypeOK, Splice
  <2>2. {"current", "entries"} \subseteq Place /\ UNCHANGED aux
    BY <1>1 DEF Place
  <2>3. /\ total' \in [Place -> [Pid -> Nat]]
        /\ row' \in [Place -> [Row -> Nat]]
        /\ \A p \in Pid :
             /\ total'["current"][p] = IF p \in S THEN 0 ELSE total["current"][p]
             /\ total'["entries"][p] = IF p \in S
                                       THEN total["entries"][p] + total["current"][p]
                                       ELSE total["entries"][p]
    <3> HIDE DEF S
    <3> QED
      BY <2>1, <2>2, MoveEffect
  <2>4. Conservation'
    <3> HIDE DEF S
    <3> QED
      BY <2>1, <2>2, MoveConserves DEF IInv
  <2>5. TypeOK'
    BY <1>1, <2>1, <2>3 DEF TypeOK, aux
  <2>6. CountsAreListed'
    BY <1>1, <2>1, <2>3 DEF IInv, CountsAreListed
  <2>7. LockOwner' /\ WorkerUnborn' /\ SamplerGone' /\ FreedAlone'
    BY <1>1 DEF IInv, LockOwner, WorkerUnborn, SamplerGone, FreedAlone
  <2>8. MatchStaysListed'
    BY <1>1 DEF IInv, LockOwner, MatchStaysListed
  <2> QED
    BY <2>4, <2>5, <2>6, <2>7, <2>8 DEF IInv
<1> QED
  BY <1>2, <1>3

\* An entry is reported with all its counts.
LEMMA DumpEntryIInv ==
  ASSUME IInv, DumpEntry
  PROVE  IInv'
<1>1. /\ UNCHANGED <<mainPc, writerPc, workerPc, holder, state, job, writes, aux,
                     fault>>
      /\ workerPc = "dump"
  BY DEF DumpEntry, pcs
<1>2. PICK p \in listed["entries"] :
        /\ Move("entries", "printed", {p})
        /\ listed' = [listed EXCEPT !["entries"] = @ \ {p}]
  BY DEF DumpEntry
<1>3. TypeOK /\ p \in Pid /\ {"entries", "printed"} \subseteq Place
  BY DEF IInv, TypeOK, Place
<1>4. /\ total' \in [Place -> [Pid -> Nat]]
      /\ row' \in [Place -> [Row -> Nat]]
      /\ \A q \in Pid : total'["entries"][q] = IF q \in {p} THEN 0
                                               ELSE total["entries"][q]
      /\ total'["current"] = total["current"]
  BY <1>2, <1>3, MoveEffect DEF Place
<1>5. Conservation'
  BY <1>1, <1>2, <1>3, MoveConserves DEF IInv
<1>6. TypeOK'
  BY <1>1, <1>2, <1>3, <1>4 DEF TypeOK, aux
<1>7. CountsAreListed'
  BY <1>1, <1>2, <1>3, <1>4 DEF IInv, TypeOK, CountsAreListed
<1>8. LockOwner' /\ WorkerUnborn' /\ SamplerGone' /\ FreedAlone'
  BY <1>1 DEF IInv, LockOwner, WorkerUnborn, SamplerGone, FreedAlone
<1>9. MatchStaysListed'
  BY <1>1, <1>2, <1>3 DEF IInv, TypeOK, MatchStaysListed
<1> QED
  BY <1>5, <1>6, <1>7, <1>8, <1>9 DEF IInv

\* Every step of one of the three threads keeps the invariant.
LEMMA NextIInv == IInv /\ [Next]_vars => IInv'
<1> SUFFICES ASSUME IInv, [Next]_vars PROVE IInv'
  OBVIOUS
<1>1. CASE MainStep \/ SignalStop
  BY <1>1, MainQuietIInv, FreeEntriesIInv DEF MainStep
<1>2. CASE (\E r \in Row : StartWrite(r)) \/ WriterStep
  BY <1>2, WriterQuietIInv, FindEntryIInv, TrackWriteIInv DEF WriterStep
<1>3. CASE WorkerStep
  BY <1>3, WorkerQuietIInv, SpliceIInv, DumpEntryIInv DEF WorkerStep
<1>4. CASE UNCHANGED vars
  <2>1. UNCHANGED <<mainPc, writerPc, workerPc, holder, state, job, listed,
                    total, row, writes, tracked, booked, fault>>
    BY <1>4 DEF vars, pcs, books, aux
  <2>2. TypeOK'
    BY <2>1 DEF IInv, TypeOK
  <2>3. Conservation' /\ CountsAreListed'
    BY <2>1 DEF IInv, Conservation, CountsAreListed
  <2>4. LockOwner' /\ MatchStaysListed' /\ WorkerUnborn' /\ SamplerGone'
        /\ FreedAlone'
    BY <2>1 DEF IInv, LockOwner, MatchStaysListed, WorkerUnborn, SamplerGone,
                FreedAlone
  <2> QED
    BY <2>2, <2>3, <2>4 DEF IInv
<1> QED
  BY <1>1, <1>2, <1>3, <1>4 DEF Next, Step, Stopped

-----------------------------------------------------------------------------
(* The theorems.                                                           *)

\* The inductive invariant holds, whatever the threads interleave.
THEOREM Invariance == Spec => []IInv
  BY InitIInv, NextIInv, PTL DEF Spec

\* Every state is well typed.
THEOREM TypeCorrect == Spec => []TypeOK
<1>1. IInv => TypeOK
  BY DEF IInv
<1> QED
  BY <1>1, Invariance, PTL

\* The sampler, the dump thread and main() exclude each other.
THEOREM MutualExclusion == Spec => []LockOwner
<1>1. IInv => LockOwner
  BY DEF IInv
<1> QED
  BY <1>1, Invariance, PTL

\* Every store that was booked is in exactly one place.
THEOREM StoresConserved == Spec => []Conservation
<1>1. IInv => Conservation
  BY DEF IInv
<1> QED
  BY <1>1, Invariance, PTL

\* Counts are only left in a list together with their entry.
THEOREM HandOverComplete == Spec => []CountsAreListed
<1>1. IInv => CountsAreListed
  BY DEF IInv
<1> QED
  BY <1>1, Invariance, PTL

\* The sampler never charges an entry the dump thread has taken over.
THEOREM MatchNeverFreed == Spec => []MatchStaysListed
<1>1. IInv => MatchStaysListed
  BY DEF IInv
<1> QED
  BY <1>1, Invariance, PTL

\* The final free runs when both other threads have ended.
THEOREM FreedLast == Spec => []FreedAlone
<1>1. IInv => FreedAlone
  BY DEF IInv
<1> QED
  BY <1>1, Invariance, PTL

-----------------------------------------------------------------------------
(* The accounting implements the ledger: every step is a step of WriteLedger *)
(* or leaves its variables alone.                                          *)

\* A step that moves no count books and prints nothing, and closes the books
\* only when the dump thread is joined.
LEMMA QuietLedger ==
  ASSUME IInv, UNCHANGED total, UNCHANGED mainPc \/ MainStep \/ SignalStop
  PROVE  [Ledger!Next]_(Ledger!vars)
<1>1. Open' = Open /\ Printed' = Printed
  BY DEF Open, Printed
<1>2. CASE JoinWorker
  <2>1. ~Closed /\ Closed' = TRUE
    BY <1>2 DEF JoinWorker, MainGo, Closed
  <2>2. Ledger!Close
    BY <1>1, <2>1 DEF Ledger!Close, Open, Printed, Closed
  <2> QED
    BY <2>2 DEF Ledger!Next
<1>3. CASE ~JoinWorker
  <2>1. Closed' = Closed
    BY <1>3 DEF MainStep, SpawnWorker, ListInit, LockInit, SignalStop,
                JoinSampler, StopWorker, FreeLock, FreeEntries, FreeUnlock,
                MainGo, Closed
  <2> QED
    BY <1>1, <2>1 DEF Ledger!vars, Open, Printed, Closed
<1> QED
  BY <1>2, <1>3

\* Charging an entry is a booking of the ledger.
LEMMA TrackWriteLedger ==
  ASSUME IInv, TrackWrite
  PROVE  [Ledger!Next]_(Ledger!vars)
<1> DEFINE p == job[1]
<1>1. TypeOK /\ p \in Pid /\ "current" \in Place
  BY DEF IInv, TypeOK, Row, Place
<1>2. /\ total' = [total EXCEPT !["current"][p] = @ + 1]
      /\ total \in [Place -> [Pid -> Nat]]
  BY <1>1 DEF TrackWrite, TypeOK
<1>3. /\ total'["current"][p] = total["current"][p] + 1
      /\ \A q \in Pid \ {p} : total'["current"][q] = total["current"][q]
      /\ \A l \in Place \ {"current"} : total'[l] = total[l]
  <2> HIDE DEF p
  <2> QED
    BY <1>1, <1>2, BumpEffect
<1>4. total'["entries"] = total["entries"] /\ total'["freed"] = total["freed"]
      /\ total'["printed"] = total["printed"]
  BY <1>3 DEF Place
<1>5. Open' = [Open EXCEPT ![p] = @ + 1]
  <2>1. \A q \in Pid : /\ total["current"][q] \in Nat /\ total["entries"][q] \in Nat
                       /\ total["freed"][q] \in Nat
    BY <1>2 DEF Place
  <2> HIDE DEF p
  <2>2. Open'[p] = Open[p] + 1
    BY <1>1, <1>3, <1>4, <2>1 DEF Open
  <2>3. \A q \in Pid \ {p} : Open'[q] = Open[q]
    BY <1>3, <1>4 DEF Open
  <2> QED
    BY <1>1, <2>2, <2>3 DEF Open
<1>6. ~Closed /\ Closed' = Closed
  BY DEF IInv, FreedAlone, TrackWrite, WriterGo, Closed
<1>7. Ledger!Book(p)
  BY <1>4, <1>5, <1>6 DEF Ledger!Book, Open, Printed, Closed
<1> QED
  BY <1>1, <1>7 DEF Ledger!Next

\* Taking the list over and freeing it leaves open stores open.
LEMMA MoveLedger ==
  ASSUME IInv, NEW from \in {"current"}, NEW to \in {"entries", "freed"},
         NEW S \in SUBSET Pid, Move(from, to, S), Closed' = Closed
  PROVE  [Ledger!Next]_(Ledger!vars)
<1>1. TypeOK /\ from \in Place /\ to \in Place /\ from # to
  BY DEF IInv, Place
<1>2. /\ \A p \in Pid :
           /\ total'[from][p] = IF p \in S THEN 0 ELSE total[from][p]
           /\ total'[to][p] = IF p \in S THEN total[to][p] + total[from][p]
                                         ELSE total[to][p]
      /\ \A l \in Place \ {from, to} : total'[l] = total[l]
  BY <1>1, MoveEffect
<1>3. \A p \in Pid : /\ total["current"][p] \in Nat /\ total["entries"][p] \in Nat
                     /\ total["freed"][p] \in Nat
  BY <1>1 DEF TypeOK, Place
<1>4. Printed' = Printed
  BY <1>2 DEF Printed, Place
<1>5. \A p \in Pid : Open'[p] = Open[p]
  BY <1>2, <1>3 DEF Open, Place
<1>6. Open' = Open
  BY <1>5 DEF Open
<1> QED
  BY <1>4, <1>6 DEF Ledger!vars, Open, Printed, Closed

\* Reporting an entry prints what was open of its process.
LEMMA DumpEntryLedger ==
  ASSUME IInv, DumpEntry
  PROVE  [Ledger!Next]_(Ledger!vars)
<1>1. PICK p \in listed["entries"] : Move("entries", "printed", {p})
  BY DEF DumpEntry
<1>2. TypeOK /\ p \in Pid /\ {"entries", "printed"} \subseteq Place
  BY DEF IInv, TypeOK, Place
<1> DEFINE n == total["entries"][p]
<1>3. /\ total' \in [Place -> [Pid -> Nat]]
      /\ \A q \in Pid :
           /\ total'["entries"][q] = IF q \in {p} THEN 0 ELSE total["entries"][q]
           /\ total'["printed"][q] = IF q \in {p}
                                     THEN total["printed"][q] + total["entries"][q]
                                     ELSE total["printed"][q]
      /\ total'["current"] = total["current"] /\ total'["freed"] = total["freed"]
  BY <1>1, <1>2, MoveEffect DEF Place
<1>4. /\ \A q \in Pid : /\ total["current"][q] \in Nat /\ total["entries"][q] \in Nat
                        /\ total["freed"][q] \in Nat /\ total["printed"][q] \in Nat
      /\ Printed \in [Pid -> Nat] /\ Printed' \in [Pid -> Nat]
  BY <1>2, <1>3 DEF TypeOK, Place, Printed
<1>5. n \in 0 .. Open[p] /\ Open' = [Open EXCEPT ![p] = @ - n]
  <2>1. n \in 0 .. Open[p]
    BY <1>2, <1>4 DEF Open
  <2>2. Open'[p] = Open[p] - n
    BY <1>2, <1>3, <1>4 DEF Open
  <2>3. \A q \in Pid \ {p} : Open'[q] = Open[q]
    BY <1>3 DEF Open
  <2> HIDE DEF n
  <2> QED
    BY <1>2, <2>1, <2>2, <2>3 DEF Open
<1>6. Printed' = [Printed EXCEPT ![p] = @ + n]
  <2>1. Printed'[p] = Printed[p] + n /\ \A q \in Pid \ {p} : Printed'[q] = Printed[q]
    BY <1>2, <1>3 DEF Printed
  <2> HIDE DEF n
  <2> QED
    BY <1>2, <1>4, <2>1
<1>7. ~Closed /\ Closed' = Closed
  BY DEF IInv, FreedAlone, DumpEntry, pcs, Closed
<1>8. Ledger!Report(p, n)
  BY <1>5, <1>6, <1>7 DEF Ledger!Report, Open, Printed, Closed
<1> QED
  BY <1>2, <1>5, <1>8 DEF Ledger!Next

\* The ledger is empty at first.
LEMMA InitLedger == Init => Ledger!Init
<1> SUFFICES ASSUME Init PROVE Ledger!Init
  OBVIOUS
<1>1. Open = [p \in Pid |-> 0] /\ Printed = [p \in Pid |-> 0] /\ Closed = FALSE
  BY DEF Init, Open, Printed, Closed, Place
<1> QED
  BY <1>1 DEF Ledger!Init

\* Every step is one of the ledger, or is not seen by it.
LEMMA NextLedger == IInv /\ [Next]_vars => [Ledger!Next]_(Ledger!vars)
<1> SUFFICES ASSUME IInv, [Next]_vars PROVE [Ledger!Next]_(Ledger!vars)
  OBVIOUS
<1>1. CASE FreeEntries
  <2>1. /\ Move("current", "freed", listed["current"])
        /\ Closed' = Closed
        /\ listed["current"] \in SUBSET Pid
    BY <1>1 DEF FreeEntries, MainGo, Closed, IInv, TypeOK
  <2> QED
    BY <2>1, MoveLedger
<1>2. CASE (MainStep /\ ~FreeEntries) \/ SignalStop
  <2>1. UNCHANGED total
    BY <1>2 DEF MainStep, SpawnWorker, ListInit, LockInit, SignalStop,
                JoinSampler, StopWorker, JoinWorker, FreeLock, FreeUnlock, books
  <2> QED
    BY <1>2, <2>1, QuietLedger
<1>3. CASE TrackWrite
  BY <1>3, TrackWriteLedger
<1>4. CASE (\E r \in Row : StartWrite(r)) \/ (WriterStep /\ ~TrackWrite)
  <2>1. UNCHANGED total /\ UNCHANGED mainPc
    BY <1>4 DEF WriterStep, StartWrite, WriterLock, FindEntry, GiveUp, Decode,
                WriterUnlock, WriterExit, books
  <2> QED
    BY <2>1, QuietLedger
<1>5. CASE Splice
  <2>1. Closed' = Closed /\ listed["current"] \in SUBSET Pid
    BY <1>5 DEF Splice, Closed, IInv, TypeOK
  <2>2. CASE mainPc = "list_init"
    BY <1>5, <2>2, QuietLedger DEF Splice, books
  <2>3. CASE mainPc # "list_init"
    <3>1. Move("current", "entries", listed["current"])
      BY <1>5, <2>3 DEF Splice
    <3> QED
      BY <2>1, <3>1, MoveLedger
  <2> QED
    BY <2>2, <2>3
<1>6. CASE DumpEntry
  BY <1>6, DumpEntryLedger
<1>7. CASE WorkerStep /\ ~Splice /\ ~DumpEntry
  <2>1. UNCHANGED total /\ UNCHANGED mainPc
    BY <1>7 DEF WorkerStep, WorkerCheck, WorkerLock, WorkerUnlock, EndDump,
       books
  <2> QED
    BY <2>1, QuietLedger
<1>8. CASE UNCHANGED vars
  BY <1>8, QuietLedger DEF vars, pcs, books
<1> QED
  BY <1>1, <1>2, <1>3, <1>4, <1>5, <1>6, <1>7, <1>8 DEF Next, Step, Stopped

\* Whatever the threads interleave, seen through the counts the accounting is
\* the ledger: booked once, printed at most once, nothing after the close.
THEOREM Refinement == Spec => ImplementsLedger
  BY InitLedger, NextLedger, Invariance, PTL DEF Spec, ImplementsLedger,
     Ledger!Spec

-----------------------------------------------------------------------------
(* The rows of a process and its total.  SumRows is a fold over the set of   *)
(* threads: what it comes to is proved by induction over what it has left.   *)

\* A round of the fold of SumRows over the set s of threads: the row of one of them
\* and what g has for the rest.
One(s) == CHOOSE x \in s : TRUE
Rest(s) == s \ {One(s)}
Fold(f, p, g, s) == IF s = {} THEN 0 ELSE f[<<p, One(s)>>] + g[Rest(s)]

\* g has the sum of the rows f of the process p over every set of threads.
Sums(f, p, g) ==
  g \in [SUBSET Tid -> Nat] /\ \A s \in SUBSET Tid : g[s] = Fold(f, p, g, s)

\* The rows of p, in the order of the fold.
SumOver(f, p) == (CHOOSE g : g = [s \in SUBSET Tid |-> Fold(f, p, g, s)])[Tid]

\* What is left of a set that is not empty.
LEMMA RestIs ==
  ASSUME NEW S, IsFiniteSet(S), NEW s \in SUBSET S, s # {}
  PROVE  /\ One(s) \in s /\ One(s) \in S /\ Rest(s) \in SUBSET S
         /\ Cardinality(s) \in Nat /\ Cardinality(Rest(s)) = Cardinality(s) - 1
<1>1. One(s) \in s
  BY DEF One
<1>2. IsFiniteSet(s)
  BY FS_Subset
<1>3. Cardinality(s) \in Nat
  BY <1>2, FS_CardinalityType
<1>4. Cardinality(Rest(s)) = Cardinality(s) - 1
  BY <1>1, <1>2, FS_RemoveElement DEF Rest
<1>. QED  BY <1>1, <1>3, <1>4 DEF Rest

\* What holds of the empty set, and of a set if of what is left of it, holds of all.
LEMMA RestInduction ==
  ASSUME NEW S, IsFiniteSet(S), NEW T, {} \in T,
         \A s \in SUBSET S : s # {} /\ Rest(s) \in T => s \in T
  PROVE  SUBSET S \subseteq T
<1>. DEFINE C == {n \in Nat : \A s \in SUBSET S : Cardinality(s) = n => s \in T}
<1>1. \A s \in SUBSET S : IsFiniteSet(s) /\ Cardinality(s) \in Nat
  BY FS_Subset, FS_CardinalityType
<1>2. \A s \in SUBSET S : Cardinality(s) = 0 => s = {}
  BY <1>1, FS_EmptySet
<1>3. 0 \in C
  BY <1>2
<1>4. ASSUME NEW n \in Nat, n \in C PROVE n + 1 \in C
  <2>. SUFFICES ASSUME NEW s \in SUBSET S, Cardinality(s) = n + 1 PROVE s \in T
    OBVIOUS
  <2>1. s # {}
    BY FS_EmptySet
  <2>2. Rest(s) \in SUBSET S /\ Cardinality(Rest(s)) = Cardinality(s) - 1
    BY <2>1, RestIs
  <2>3. Cardinality(Rest(s)) = n
    BY <2>2
  <2>4. Rest(s) \in T
    BY <1>4, <2>2, <2>3
  <2>. QED  BY <2>1, <2>4
<1>. HIDE DEF C
<1>5. Nat \subseteq C
  BY <1>3, <1>4, ListLemmas!SetInduction
<1>. QED  BY <1>1, <1>5 DEF C

\* There is a function with the sum over every subset.
LEMMA FoldsExist ==
  ASSUME IsFiniteSet(Tid), NEW f, NEW p
  PROVE  \E g : g = [s \in SUBSET Tid |-> Fold(f, p, g, s)]
<1>. DEFINE Small(g, n) == \A s \in SUBSET Tid : Cardinality(s) < n => g[s] = Fold(f, p, g, s)
            C == {n \in Nat : \E g : Small(g, n)}
<1>1. \A s \in SUBSET Tid : IsFiniteSet(s) /\ Cardinality(s) \in Nat
  BY FS_Subset, FS_CardinalityType
<1>2. 0 \in C
  BY <1>1
<1>3. ASSUME NEW n \in Nat, n \in C PROVE n + 1 \in C
  <2>1. PICK g : Small(g, n)
    BY <1>3
  <2>. DEFINE h == [s \in SUBSET Tid |-> IF Cardinality(s) = n THEN Fold(f, p, g, s) ELSE g[s]]
  <2>2. ASSUME NEW s \in SUBSET Tid, Cardinality(s) < n + 1 PROVE h[s] = Fold(f, p, h, s)
    <3>1. ASSUME s # {} PROVE h[Rest(s)] = g[Rest(s)]
      <4>1. Rest(s) \in SUBSET Tid /\ Cardinality(Rest(s)) = Cardinality(s) - 1
        BY <3>1, RestIs
      <4>2. Cardinality(Rest(s)) # n
        BY <1>1, <2>2, <4>1
      <4>. QED  BY <4>1, <4>2
    <3>2. Fold(f, p, h, s) = Fold(f, p, g, s)
      BY <3>1 DEF Fold
    <3>3. Cardinality(s) = n \/ (Cardinality(s) # n /\ Cardinality(s) < n)
      BY <1>1, <2>2
    <3>. QED  BY <2>1, <3>2, <3>3
  <2>. HIDE DEF h
  <2>. QED  BY <2>2
<1>. HIDE DEF C
<1>4. Cardinality(Tid) + 1 \in Nat
  BY <1>1
<1>5. Cardinality(Tid) + 1 \in C
  BY <1>2, <1>3, <1>4, ListLemmas!SetInduction
<1>6. PICK g : Small(g, Cardinality(Tid) + 1)
  BY <1>5 DEF C
<1>. DEFINE h == [s \in SUBSET Tid |-> g[s]]
<1>7. ASSUME NEW s \in SUBSET Tid PROVE h[s] = Fold(f, p, h, s)
  <2>1. Cardinality(s) < Cardinality(Tid) + 1
    <3>1. Cardinality(s) =< Cardinality(Tid)
      BY FS_Subset
    <3>. QED  BY <1>1, <3>1
  <2>2. s # {} => h[Rest(s)] = g[Rest(s)]
    BY RestIs
  <2>3. Fold(f, p, h, s) = Fold(f, p, g, s)
    BY <2>2 DEF Fold
  <2>. QED  BY <1>6, <2>1, <2>3
<1>8. h = [s \in SUBSET Tid |-> Fold(f, p, h, s)]
  BY <1>7
<1>. QED  BY <1>8

\* The function SumOver chooses.
LEMMA SumIs ==
  ASSUME IsFiniteSet(Tid), NEW f \in [Row -> Nat], NEW p \in Pid
  PROVE  \E g : Sums(f, p, g) /\ SumOver(f, p) = g[Tid]
<1>. DEFINE g == CHOOSE g : g = [s \in SUBSET Tid |-> Fold(f, p, g, s)]
<1>1. g = [s \in SUBSET Tid |-> Fold(f, p, g, s)]
  BY FoldsExist
<1>2. SumOver(f, p) = g[Tid]
  BY DEF SumOver
<1>. HIDE DEF g
<1>3. \A s \in SUBSET Tid : g[s] = Fold(f, p, g, s)
  BY <1>1
<1>. DEFINE T == {s \in SUBSET Tid : g[s] \in Nat}
<1>4. {} \in T
  <2>1. g[{}] = Fold(f, p, g, {})
    BY <1>3
  <2>. QED  BY <2>1 DEF Fold
<1>5. ASSUME NEW s \in SUBSET Tid, s # {}, Rest(s) \in T PROVE s \in T
  <2>1. <<p, One(s)>> \in Row
    BY <1>5, RestIs DEF Row
  <2>2. g[s] = f[<<p, One(s)>>] + g[Rest(s)]
    BY <1>3, <1>5 DEF Fold
  <2>. QED  BY <1>5, <2>1, <2>2
<1>. HIDE DEF T
<1>6. SUBSET Tid \subseteq T
  BY <1>4, <1>5, RestInduction
<1>7. g \in [SUBSET Tid -> Nat]
  BY <1>1, <1>6 DEF T
<1>. QED  BY <1>2, <1>3, <1>7 DEF Sums

\* A sum and its parts.
LEMMA SumsAre ==
  ASSUME IsFiniteSet(Tid), NEW f \in [Row -> Nat], NEW p \in Pid, NEW g, Sums(f, p, g)
  PROVE  /\ g[{}] = 0
         /\ \A s \in SUBSET Tid : g[s] \in Nat
         /\ \A s \in SUBSET Tid :
              s # {} => /\ One(s) \in s /\ <<p, One(s)>> \in Row /\ f[<<p, One(s)>>] \in Nat
                        /\ Rest(s) \in SUBSET Tid /\ g[Rest(s)] \in Nat
                        /\ g[s] = f[<<p, One(s)>>] + g[Rest(s)]
<1>1. g \in [SUBSET Tid -> Nat] /\ \A s \in SUBSET Tid : g[s] = Fold(f, p, g, s)
  BY DEF Sums
<1>2. g[{}] = Fold(f, p, g, {})
  BY <1>1
<1>3. g[{}] = 0
  BY <1>2 DEF Fold
<1>4. ASSUME NEW s \in SUBSET Tid, s # {}
      PROVE  /\ One(s) \in s /\ <<p, One(s)>> \in Row /\ f[<<p, One(s)>>] \in Nat
             /\ Rest(s) \in SUBSET Tid /\ g[Rest(s)] \in Nat
             /\ g[s] = f[<<p, One(s)>>] + g[Rest(s)]
  <2>1. One(s) \in s /\ One(s) \in Tid /\ Rest(s) \in SUBSET Tid
    BY <1>4, RestIs
  <2>2. <<p, One(s)>> \in Row
    BY <2>1 DEF Row
  <2>3. g[s] = f[<<p, One(s)>>] + g[Rest(s)]
    BY <1>1, <1>4 DEF Fold
  <2>. QED  BY <1>1, <2>1, <2>2, <2>3
<1>. QED  BY <1>1, <1>3, <1>4

\* Sums of sums.
LEMMA SumAdds ==
  ASSUME IsFiniteSet(Tid), NEW p \in Pid, NEW e \in [Row -> Nat], NEW f \in [Row -> Nat],
         NEW h \in [Row -> Nat], \A t \in Tid : h[<<p, t>>] = e[<<p, t>>] + f[<<p, t>>]
  PROVE  /\ SumOver(h, p) = SumOver(e, p) + SumOver(f, p)
         /\ SumOver(h, p) \in Nat /\ SumOver(e, p) \in Nat /\ SumOver(f, p) \in Nat
<1>1. PICK E : Sums(e, p, E) /\ SumOver(e, p) = E[Tid]
  BY SumIs
<1>2. PICK F : Sums(f, p, F) /\ SumOver(f, p) = F[Tid]
  BY SumIs
<1>3. PICK H : Sums(h, p, H) /\ SumOver(h, p) = H[Tid]
  BY SumIs
<1>4. /\ E[{}] = 0 /\ F[{}] = 0 /\ H[{}] = 0
      /\ E[Tid] \in Nat /\ F[Tid] \in Nat /\ H[Tid] \in Nat
  BY <1>1, <1>2, <1>3, SumsAre
<1>. DEFINE T == {s \in SUBSET Tid : H[s] = E[s] + F[s]}
<1>5. {} \in T
  BY <1>4
<1>6. ASSUME NEW s \in SUBSET Tid, s # {}, Rest(s) \in T PROVE s \in T
  <2>1. E[s] = e[<<p, One(s)>>] + E[Rest(s)] /\ e[<<p, One(s)>>] \in Nat /\ E[Rest(s)] \in Nat
    BY <1>1, <1>6, SumsAre
  <2>2. F[s] = f[<<p, One(s)>>] + F[Rest(s)] /\ f[<<p, One(s)>>] \in Nat /\ F[Rest(s)] \in Nat
    BY <1>2, <1>6, SumsAre
  <2>3. H[s] = h[<<p, One(s)>>] + H[Rest(s)]
    BY <1>3, <1>6, SumsAre
  <2>4. h[<<p, One(s)>>] = e[<<p, One(s)>>] + f[<<p, One(s)>>]
    <3>1. One(s) \in Tid
      BY <1>6, RestIs
    <3>. QED  BY <3>1
  <2>5. H[Rest(s)] = E[Rest(s)] + F[Rest(s)]
    BY <1>6
  <2>6. H[s] = E[s] + F[s]
    BY <2>1, <2>2, <2>3, <2>4, <2>5
  <2>. QED  BY <2>6
<1>. HIDE DEF T
<1>7. SUBSET Tid \subseteq T
  BY <1>5, <1>6, RestInduction
<1>8. H[Tid] = E[Tid] + F[Tid]
  BY <1>7 DEF T
<1>. QED  BY <1>1, <1>2, <1>3, <1>4, <1>8

\* A process without counts has none together.
LEMMA SumOfNone ==
  ASSUME IsFiniteSet(Tid), NEW p \in Pid, NEW f \in [Row -> Nat],
         \A t \in Tid : f[<<p, t>>] = 0
  PROVE  SumOver(f, p) = 0
<1>. DEFINE n == SumOver(f, p)
<1>1. \A t \in Tid : f[<<p, t>>] = f[<<p, t>>] + f[<<p, t>>]
  OBVIOUS
<1>2. n = n + n /\ n \in Nat
  BY <1>1, SumAdds
<1>. HIDE DEF n
<1>3. n = 0
  BY <1>2
<1>. QED  BY <1>3 DEF n

\* Rows that are the same have the same sum.
LEMMA SumSame ==
  ASSUME IsFiniteSet(Tid), NEW p \in Pid, NEW f \in [Row -> Nat], NEW h \in [Row -> Nat],
         \A t \in Tid : h[<<p, t>>] = f[<<p, t>>]
  PROVE  SumOver(h, p) = SumOver(f, p)
<1>. DEFINE z == [r \in Row |-> 0]
            n == SumOver(f, p)
            m == SumOver(h, p)
<1>1. z \in [Row -> Nat] /\ \A t \in Tid : z[<<p, t>>] = 0 /\ <<p, t>> \in Row
  BY DEF Row
<1>. HIDE DEF z
<1>2. SumOver(z, p) = 0
  BY <1>1, SumOfNone
<1>3. \A t \in Tid : h[<<p, t>>] = f[<<p, t>>] + z[<<p, t>>]
  BY <1>1
<1>4. m = n + SumOver(z, p) /\ n \in Nat
  BY <1>1, <1>3, SumAdds
<1>. HIDE DEF n, m
<1>5. m = n
  BY <1>2, <1>4
<1>. QED  BY <1>5 DEF n, m

\* One count more adds one.
LEMMA SumBump ==
  ASSUME IsFiniteSet(Tid), NEW p \in Pid, NEW f \in [Row -> Nat], NEW h \in [Row -> Nat],
         NEW a \in Tid,
         \A t \in Tid : h[<<p, t>>] = IF t = a THEN f[<<p, t>>] + 1 ELSE f[<<p, t>>]
  PROVE  SumOver(h, p) = SumOver(f, p) + 1
<1>1. PICK F : Sums(f, p, F) /\ SumOver(f, p) = F[Tid]
  BY SumIs
<1>2. PICK H : Sums(h, p, H) /\ SumOver(h, p) = H[Tid]
  BY SumIs
<1>3. F[{}] = 0 /\ H[{}] = 0
  BY <1>1, <1>2, SumsAre
<1>. DEFINE T == {s \in SUBSET Tid : H[s] = IF a \in s THEN F[s] + 1 ELSE F[s]}
<1>4. {} \in T
  BY <1>3
<1>5. ASSUME NEW s \in SUBSET Tid, s # {}, Rest(s) \in T PROVE s \in T
  <2>1. F[s] = f[<<p, One(s)>>] + F[Rest(s)] /\ f[<<p, One(s)>>] \in Nat /\ F[Rest(s)] \in Nat
    BY <1>1, <1>5, SumsAre
  <2>2. H[s] = h[<<p, One(s)>>] + H[Rest(s)]
    BY <1>2, <1>5, SumsAre
  <2>3. One(s) \in Tid /\ One(s) \in s
    BY <1>5, RestIs
  <2>4. h[<<p, One(s)>>] = IF One(s) = a THEN f[<<p, One(s)>>] + 1 ELSE f[<<p, One(s)>>]
    BY <2>3
  <2>5. H[Rest(s)] = IF a \in Rest(s) THEN F[Rest(s)] + 1 ELSE F[Rest(s)]
    BY <1>5
  <2>6. a \in Rest(s) <=> a \in s /\ a # One(s)
    BY DEF Rest
  <2>7. H[s] = IF a \in s THEN F[s] + 1 ELSE F[s]
    BY <2>1, <2>2, <2>3, <2>4, <2>5, <2>6
  <2>. QED  BY <2>7
<1>. HIDE DEF T
<1>6. SUBSET Tid \subseteq T
  BY <1>4, <1>5, RestInduction
<1>7. H[Tid] = F[Tid] + 1
  BY <1>6 DEF T
<1>. QED  BY <1>1, <1>2, <1>7

\* The fold of the model is that sum.
LEMMA SumRowsIs ==
  ASSUME NEW l, NEW p
  PROVE  SumRows(l, p) = SumOver(row[l], p)
<1>1. SumOver(row[l], p)
      = (CHOOSE g : g = [s \in SUBSET Tid |->
                  IF s = {} THEN 0
                  ELSE LET x == CHOOSE x \in s : TRUE IN row[l][<<p, x>>] + g[s \ {x}]])[Tid]
  BY DEF SumOver, Fold, One, Rest
<1>2. SumRows(l, p)
      = (CHOOSE g : g = [s \in SUBSET Tid |->
                  IF s = {} THEN 0
                  ELSE LET x == CHOOSE x \in s : TRUE IN row[l][<<p, x>>] + g[s \ {x}]])[Tid]
  BY DEF SumRows, MapThenSumSet, MapThenFoldSet
<1>. QED  BY <1>1, <1>2

\* RowsAddUp of one process in one place: f has its rows, n is its total.
Balanced(f, n, p) == IF p \in Oom THEN SumOver(f, p) =< n ELSE SumOver(f, p) = n

\* RowsAddUp is that everywhere.
LEMMA BalancedRows ==
  RowsAddUp <=> \A l \in Place, p \in Pid : Balanced(row[l], total[l][p], p)
BY SumRowsIs DEF RowsAddUp, Balanced

\* The same in the next state.
LEMMA BalancedRowsNext ==
  RowsAddUp' <=> \A l \in Place, p \in Pid : Balanced(row'[l], total'[l][p], p)
<1>1. (RowsAddUp <=> \A l \in Place, p \in Pid : Balanced(row[l], total[l][p], p))'
  BY BalancedRows, PTL
<1>. QED  BY <1>1 DEF Balanced, SumOver, Fold

\* Rows move together with the total.
LEMMA MoveBalances ==
  ASSUME TypeOK, RowsAddUp, NEW from \in Place, NEW to \in Place, from # to,
         NEW S \in SUBSET Pid, Move(from, to, S)
  PROVE  RowsAddUp'
<1>1. row \in [Place -> [Row -> Nat]] /\ total \in [Place -> [Pid -> Nat]]
  BY DEF TypeOK
<1>2. /\ row' \in [Place -> [Row -> Nat]]
      /\ \A p \in Pid :
           /\ total'[from][p] = IF p \in S THEN 0 ELSE total[from][p]
           /\ total'[to][p] = IF p \in S THEN total[to][p] + total[from][p]
                                         ELSE total[to][p]
      /\ \A r \in Row :
           /\ row'[from][r] = IF r[1] \in S THEN 0 ELSE row[from][r]
           /\ row'[to][r] = IF r[1] \in S THEN row[to][r] + row[from][r]
                                          ELSE row[to][r]
      /\ \A l \in Place \ {from, to} : total'[l] = total[l] /\ row'[l] = row[l]
  BY MoveEffect
<1>3. \A l \in Place, p \in Pid : Balanced(row[l], total[l][p], p)
  BY BalancedRows
<1>4. ASSUME NEW p \in Pid, NEW t \in Tid PROVE <<p, t>> \in Row /\ <<p, t>>[1] = p
  BY DEF Row
<1>5. /\ row[from] \in [Row -> Nat] /\ row[to] \in [Row -> Nat]
      /\ row'[from] \in [Row -> Nat] /\ row'[to] \in [Row -> Nat]
      /\ \A p \in Pid : total[from][p] \in Nat /\ total[to][p] \in Nat
  BY <1>1, <1>2
<1>6. ASSUME NEW p \in Pid, p \in S
      PROVE  Balanced(row'[from], total'[from][p], p) /\ Balanced(row'[to], total'[to][p], p)
  <2>1. \A t \in Tid : /\ row'[from][<<p, t>>] = 0
                       /\ row'[to][<<p, t>>] = row[to][<<p, t>>] + row[from][<<p, t>>]
    BY <1>2, <1>4, <1>6
  <2>2. SumOver(row'[from], p) = 0
    BY <1>5, <2>1, SumOfNone, TidAssumption
  <2>7. \A t \in Tid : row'[to][<<p, t>>] = row[to][<<p, t>>] + row[from][<<p, t>>]
    BY <2>1
  <2>3. /\ SumOver(row'[to], p) = SumOver(row[to], p) + SumOver(row[from], p)
        /\ SumOver(row[to], p) \in Nat /\ SumOver(row[from], p) \in Nat
    BY <1>5, <2>7, SumAdds, TidAssumption
  <2>4. Balanced(row[to], total[to][p], p) /\ Balanced(row[from], total[from][p], p)
    BY <1>3
  <2>5. total'[from][p] = 0 /\ total'[to][p] = total[to][p] + total[from][p]
    BY <1>2, <1>6
  <2>6. total[from][p] \in Nat /\ total[to][p] \in Nat
    BY <1>5
  <2>. QED  BY <2>2, <2>3, <2>4, <2>5, <2>6 DEF Balanced
<1>7. ASSUME NEW p \in Pid, p \notin S
      PROVE  Balanced(row'[from], total'[from][p], p) /\ Balanced(row'[to], total'[to][p], p)
  <2>1. \A t \in Tid : /\ row'[from][<<p, t>>] = row[from][<<p, t>>]
                       /\ row'[to][<<p, t>>] = row[to][<<p, t>>]
    BY <1>2, <1>4, <1>7
  <2>2. SumOver(row'[from], p) = SumOver(row[from], p)
    BY <1>5, <2>1, SumSame, TidAssumption
  <2>3. SumOver(row'[to], p) = SumOver(row[to], p)
    BY <1>5, <2>1, SumSame, TidAssumption
  <2>4. total'[from][p] = total[from][p] /\ total'[to][p] = total[to][p]
    BY <1>2, <1>7
  <2>. QED  BY <1>3, <2>2, <2>3, <2>4 DEF Balanced
<1>8. ASSUME NEW l \in Place, NEW p \in Pid PROVE Balanced(row'[l], total'[l][p], p)
  <2>1. CASE l \in {from, to}
    BY <1>6, <1>7, <2>1
  <2>2. CASE l \notin {from, to}
    BY <1>2, <1>3, <2>2
  <2>. QED  BY <2>1, <2>2
<1>. QED  BY <1>8, BalancedRowsNext

\* A store is charged to the process, then to the row, or to the process alone
\* when there is no memory for the row.
LEMMA TrackWriteBalances ==
  ASSUME TypeOK, RowsAddUp, TrackWrite
  PROVE  RowsAddUp'
<1>. DEFINE q == job[1]
            a == job[2]
<1>1. /\ row \in [Place -> [Row -> Nat]] /\ total \in [Place -> [Pid -> Nat]]
      /\ "current" \in Place /\ job \in Row /\ q \in Pid /\ a \in Tid /\ job = <<q, a>>
  BY DEF TypeOK, Place, Row
<1>2. /\ total' = [total EXCEPT !["current"][q] = @ + 1]
      /\ \/ row' = [row EXCEPT !["current"][job] = @ + 1]
         \/ q \in Oom /\ row' = row
  BY DEF TrackWrite
<1>. HIDE DEF q, a
<1>3. /\ total'["current"][q] = total["current"][q] + 1
      /\ \A p \in Pid \ {q} : total'["current"][p] = total["current"][p]
      /\ \A l \in Place \ {"current"} : total'[l] = total[l]
  BY <1>1, <1>2, BumpEffect
<1>4. \A l \in Place, p \in Pid : Balanced(row[l], total[l][p], p)
  BY BalancedRows
<1>5. /\ row["current"] \in [Row -> Nat] /\ total["current"][q] \in Nat
      /\ Balanced(row["current"], total["current"][q], q)
  BY <1>1, <1>4
<1>6. SumOver(row["current"], q) \in Nat
  <2>. DEFINE f == row["current"]
              h == [r \in Row |-> f[r] + f[r]]
  <2>1. f \in [Row -> Nat]
    BY <1>5
  <2>2. h \in [Row -> Nat] /\ \A t \in Tid : h[<<q, t>>] = f[<<q, t>>] + f[<<q, t>>]
    BY <1>1, <2>1 DEF Row
  <2>. HIDE DEF f, h
  <2>3. SumOver(f, q) \in Nat
    BY <1>1, <2>1, <2>2, SumAdds, TidAssumption
  <2>. QED  BY <2>3 DEF f
<1>7. CASE row' = [row EXCEPT !["current"][job] = @ + 1]
  <2>1. /\ row' \in [Place -> [Row -> Nat]]
        /\ row'["current"][job] = row["current"][job] + 1
        /\ \A r \in Row \ {job} : row'["current"][r] = row["current"][r]
        /\ \A l \in Place \ {"current"} : row'[l] = row[l]
    BY <1>1, <1>7, BumpEffect
  <2>2. row'["current"] \in [Row -> Nat]
    BY <1>1, <2>1
  <2>3. \A t \in Tid : row'["current"][<<q, t>>] = IF t = a THEN row["current"][<<q, t>>] + 1
                                                  ELSE row["current"][<<q, t>>]
    <3>1. \A t \in Tid : <<q, t>> \in Row /\ (<<q, t>> = job <=> t = a)
      BY <1>1 DEF Row
    <3>. QED  BY <1>1, <2>1, <3>1
  <2>4. SumOver(row'["current"], q) = SumOver(row["current"], q) + 1
    BY <1>1, <1>5, <2>2, <2>3, SumBump, TidAssumption
  <2>5. Balanced(row'["current"], total'["current"][q], q)
    BY <1>3, <1>5, <1>6, <2>4 DEF Balanced
  <2>6. ASSUME NEW p \in Pid \ {q} PROVE Balanced(row'["current"], total'["current"][p], p)
    <3>1. \A t \in Tid : row'["current"][<<p, t>>] = row["current"][<<p, t>>]
      <4>1. \A t \in Tid : <<p, t>> \in Row /\ <<p, t>> # job
        BY <1>1 DEF Row
      <4>. QED  BY <2>1, <4>1
    <3>2. SumOver(row'["current"], p) = SumOver(row["current"], p)
      BY <1>5, <2>2, <3>1, SumSame, TidAssumption
    <3>. QED  BY <1>1, <1>3, <1>4, <3>2 DEF Balanced
  <2>7. ASSUME NEW l \in Place, NEW p \in Pid PROVE Balanced(row'[l], total'[l][p], p)
    <3>1. CASE l = "current" /\ p = q
      BY <2>5, <3>1
    <3>2. CASE l = "current" /\ p # q
      BY <2>6, <3>2
    <3>3. CASE l # "current"
      BY <1>3, <1>4, <2>1, <3>3
    <3>. QED  BY <3>1, <3>2, <3>3
  <2>. QED  BY <2>7, BalancedRowsNext
<1>8. CASE q \in Oom /\ row' = row
  <2>1. Balanced(row'["current"], total'["current"][q], q)
    BY <1>3, <1>5, <1>6, <1>8 DEF Balanced
  <2>2. ASSUME NEW l \in Place, NEW p \in Pid PROVE Balanced(row'[l], total'[l][p], p)
    <3>1. CASE l = "current" /\ p = q
      BY <2>1, <3>1
    <3>2. CASE l = "current" /\ p # q
      BY <1>3, <1>4, <1>8, <3>2
    <3>3. CASE l # "current"
      BY <1>3, <1>4, <1>8, <3>3
    <3>. QED  BY <3>1, <3>2, <3>3
  <2>. QED  BY <2>2, BalancedRowsNext
<1>. QED  BY <1>2, <1>7, <1>8

\* No step leaves the rows behind the total, or ahead of it.
LEMMA NextBalances == IInv /\ RowsAddUp /\ [Next]_vars => RowsAddUp'
<1>. SUFFICES ASSUME IInv, RowsAddUp, [Next]_vars PROVE RowsAddUp'
  OBVIOUS
<1>1. TypeOK /\ listed \in [{"current", "entries"} -> SUBSET Pid]
      /\ {"current", "entries", "printed", "freed"} \subseteq Place
  BY DEF IInv, TypeOK, Place
<1>2. CASE UNCHANGED <<total, row>>
  <2>1. \A l \in Place, p \in Pid : Balanced(row'[l], total'[l][p], p)
    BY <1>2, BalancedRows
  <2>. QED  BY <2>1, BalancedRowsNext
<1>3. CASE FreeEntries
  BY <1>1, <1>3, MoveBalances DEF FreeEntries
<1>4. CASE TrackWrite
  BY <1>1, <1>4, TrackWriteBalances
<1>5. CASE Splice
  <2>1. CASE UNCHANGED books
    BY <1>2, <2>1 DEF books
  <2>2. CASE Move("current", "entries", listed["current"])
    BY <1>1, <2>2, MoveBalances
  <2>. QED  BY <1>5, <2>1, <2>2 DEF Splice
<1>6. CASE DumpEntry
  <2>1. PICK p \in listed["entries"] : Move("entries", "printed", {p})
    BY <1>6 DEF DumpEntry
  <2>2. {p} \in SUBSET Pid
    BY <1>1
  <2>. QED  BY <1>1, <2>1, <2>2, MoveBalances
<1>7. CASE MainStep /\ ~FreeEntries
  <2>1. \/ SpawnWorker \/ ListInit \/ LockInit \/ JoinSampler
        \/ StopWorker \/ JoinWorker \/ FreeLock \/ FreeUnlock
    BY <1>7 DEF MainStep
  <2>2. CASE SpawnWorker \/ ListInit \/ LockInit \/ JoinSampler
    BY <1>2, <2>2 DEF SpawnWorker, ListInit, LockInit, JoinSampler, books
  <2>3. CASE StopWorker \/ JoinWorker \/ FreeLock \/ FreeUnlock
    BY <1>2, <2>3 DEF StopWorker, JoinWorker, FreeLock, FreeUnlock, books
  <2>. QED  BY <2>1, <2>2, <2>3
<1>8. CASE SignalStop \/ \E r \in Row : StartWrite(r)
  BY <1>2, <1>8 DEF SignalStop, StartWrite, books
<1>9. CASE WriterStep /\ ~TrackWrite
  <2>1. UNCHANGED <<total, row>>
    BY <1>9 DEF WriterStep, WriterLock, FindEntry, GiveUp, Decode, WriterUnlock, WriterExit, books
  <2>. QED  BY <1>2, <2>1
<1>10. CASE WorkerStep /\ ~Splice /\ ~DumpEntry
  <2>1. UNCHANGED <<total, row>>
    BY <1>10 DEF WorkerStep, WorkerCheck, WorkerLock, WorkerUnlock, EndDump, books
  <2>. QED  BY <1>2, <2>1
<1>11. CASE UNCHANGED vars
  BY <1>2, <1>11 DEF vars, books
<1>. QED  BY <1>3, <1>4, <1>5, <1>6, <1>7, <1>8, <1>9, <1>10, <1>11 DEF Next, Step, Stopped

\* Without stores all is zero.
LEMMA InitBalances == Init => RowsAddUp
<1>. SUFFICES ASSUME Init PROVE RowsAddUp
  OBVIOUS
<1>1. ASSUME NEW l \in Place, NEW p \in Pid PROVE Balanced(row[l], total[l][p], p)
  <2>1. row[l] \in [Row -> Nat] /\ total[l][p] = 0 /\ \A t \in Tid : row[l][<<p, t>>] = 0
    BY DEF Init, Row
  <2>2. SumOver(row[l], p) = 0
    BY <2>1, SumOfNone, TidAssumption
  <2>. QED  BY <2>1, <2>2 DEF Balanced
<1>. QED  BY <1>1, BalancedRows

\* The rows of a process never lag behind its total, unless one could not be
\* allocated, in both lists and in what is printed, for any number of threads.
THEOREM RowsComplete == Spec => []RowsAddUp
<1>1. IInv /\ RowsAddUp /\ [Next]_vars /\ IInv' => RowsAddUp'
  BY NextBalances
<1>. QED  BY <1>1, InitBalances, Invariance, PTL DEF Spec
=============================================================================
