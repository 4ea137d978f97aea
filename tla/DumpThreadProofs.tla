--------------------------- MODULE DumpThreadProofs ---------------------------
(***************************************************************************)
(* Theorems about the time helpers and the dump thread, for any processes, *)
(* threads, memory, interval, and settings of the clock.                   *)
(*                                                                         *)
(* Time, text and heap have an invariant each; none needs another.         *)
(***************************************************************************)
EXTENDS DumpThread, ListOpsProofs

-----------------------------------------------------------------------------
(* The time helpers.                                                       *)

Time == [sec : Int, nsec : Int]

\* Less than a second has no whole seconds in it.
LEMMA WithinSecond ==
  ASSUME NEW d \in Nat, d < NS
  PROVE  d \div NS = 0 /\ d % NS = d
BY SecondAssumption, SMT DEF NS

\* Seconds in a sum and in a difference.
LEMMA Distributes ==
  ASSUME NEW a \in Int, NEW b \in Int
  PROVE  (a + b) * NS = a * NS + b * NS /\ (a - b) * NS = a * NS - b * NS
BY SecondAssumption, SMT DEF NS

\* What the carries leave of y, for a y that clock_gettime may return or a
\* difference of two such times, and an x of at most a whole second of units:
\* one second is borrowed where the units of x are fewer, and none carried back.
LEMMA Carried ==
  ASSUME NEW x \in Time, NEW y \in Time, x.nsec \in 0 .. NS, y.nsec \in 0 .. NS - 1
  PROVE  Carry(x, Borrow(x, y)) =
           IF x.nsec < y.nsec THEN [sec |-> y.sec + 1, nsec |-> y.nsec - NS] ELSE y
<1>. NS \in Nat \ {0} /\ NS = NanosecondsPerSecond
  BY SecondAssumption DEF NS
<1>. x.nsec \in Int /\ y.nsec \in Int /\ x.sec \in Int /\ y.sec \in Int
  BY DEF Time
<1>1. CASE x.nsec < y.nsec
  <2>1. (y.nsec - x.nsec) \div NS = 0
    BY <1>1, WithinSecond
  <2>2. Borrow(x, y) = [sec |-> y.sec + 1, nsec |-> y.nsec - NS]
    BY <1>1, <2>1 DEF Borrow
  <2>3. ~ (x.nsec - (y.nsec - NS) > NS)
    BY <1>1
  <2>. QED  BY <1>1, <2>2, <2>3 DEF Carry
<1>2. CASE ~ (x.nsec < y.nsec)
  <2>1. Borrow(x, y) = y
    BY <1>2 DEF Borrow
  <2>2. ~ (x.nsec - y.nsec > NS)
    OBVIOUS
  <2>. QED  BY <1>2, <2>1, <2>2 DEF Carry
<1>. QED  BY <1>1, <1>2

\* timespec_diff is subtraction: it loses nothing, its sign is that of the
\* difference, and the nanoseconds of the result are a whole second only where
\* those of x are and those of y are zero.
THEOREM DiffExact ==
  ASSUME NEW x \in Time, NEW y \in Time, x.nsec \in 0 .. NS, y.nsec \in 0 .. NS - 1
  PROVE  LET d == TimespecDiff(x, y)
         IN  /\ Total(d.value) = Total(x) - Total(y)
             /\ d.value.nsec \in 0 .. NS
             /\ d.value.nsec = NS <=> x.nsec = NS /\ y.nsec = 0
             /\ d.negative <=> d.value.sec < 0
<1>. NS \in Nat \ {0} /\ NS = NanosecondsPerSecond
  BY SecondAssumption DEF NS
<1>. x.nsec \in Int /\ y.nsec \in Int /\ x.sec \in Int /\ y.sec \in Int
  BY DEF Time
<1>. DEFINE d == TimespecDiff(x, y)
<1>1. CASE x.nsec < y.nsec
  <2>1. /\ d.value = [sec |-> x.sec - (y.sec + 1), nsec |-> x.nsec - (y.nsec - NS)]
        /\ d.negative <=> x.sec < y.sec + 1
    <3>1. Carry(x, Borrow(x, y)) = [sec |-> y.sec + 1, nsec |-> y.nsec - NS]
      BY <1>1, Carried
    <3>. DEFINE z == Carry(x, Borrow(x, y))
    <3>2. d = [value |-> [sec |-> x.sec - z.sec, nsec |-> x.nsec - z.nsec],
               negative |-> x.sec < z.sec]
      BY DEF TimespecDiff
    <3>3. z.sec = y.sec + 1 /\ z.nsec = y.nsec - NS
      BY <3>1
    <3>. HIDE DEF z, d
    <3>. QED  BY <3>2, <3>3
  <2>2. (x.sec - (y.sec + 1)) * NS = x.sec * NS - y.sec * NS - NS
    BY Distributes, 1 * NS = NS
  <2>3. Total(d.value) = Total(x) - Total(y)
    <3>. DEFINE a == (x.sec - (y.sec + 1)) * NS
                b == x.sec * NS
                c == y.sec * NS
    <3>1. a = b - c - NS /\ b \in Int /\ c \in Int
      BY <2>2
    <3>2. Total(d.value) = a + (x.nsec - (y.nsec - NS))
      BY <2>1 DEF Total
    <3>3. Total(x) = b + x.nsec /\ Total(y) = c + y.nsec
      BY DEF Total
    <3>. QED  BY <3>1, <3>2, <3>3
  <2>. QED  BY <1>1, <2>1, <2>3
<1>2. CASE ~ (x.nsec < y.nsec)
  <2>1. /\ d.value = [sec |-> x.sec - y.sec, nsec |-> x.nsec - y.nsec]
        /\ d.negative <=> x.sec < y.sec
    BY <1>2, Carried DEF TimespecDiff
  <2>2. (x.sec - y.sec) * NS = x.sec * NS - y.sec * NS
    BY Distributes
  <2>3. Total(d.value) = Total(x) - Total(y)
    <3>. DEFINE a == (x.sec - y.sec) * NS
                b == x.sec * NS
                c == y.sec * NS
    <3>1. a = b - c /\ b \in Int /\ c \in Int
      BY <2>2
    <3>2. Total(d.value) = a + (x.nsec - y.nsec)
      BY <2>1 DEF Total
    <3>3. Total(x) = b + x.nsec /\ Total(y) = c + y.nsec
      BY DEF Total
    <3>. QED  BY <3>1, <3>2, <3>3
  <2>. QED  BY <1>2, <2>1, <2>3
<1>. QED  BY <1>1, <1>2

\* Expiries are extended by exactly the extension, and stay times
\* clock_gettime could return.
THEOREM ExtendExact ==
  ASSUME NEW base \in Time, NEW extension \in Time,
         base.nsec \in 0 .. NS - 1, extension.nsec \in 0 .. NS - 1
  PROVE  LET t == ExpiryExtend(base, extension)
         IN  /\ Total(t) = Total(base) + Total(extension)
             /\ t.nsec \in 0 .. NS - 1
<1>. NS \in Nat \ {0} /\ NS = NanosecondsPerSecond
  BY SecondAssumption DEF NS
<1>. base.nsec \in Int /\ extension.nsec \in Int /\ base.sec \in Int /\ extension.sec \in Int
  BY DEF Time
<1>. DEFINE n == base.nsec + extension.nsec
            k == n \div NS
            m == n % NS
            t == ExpiryExtend(base, extension)
<1>1. n \in Int /\ k \in Int /\ m \in 0 .. NS - 1 /\ n = NS * k + m
  BY SMT
<1>2. t = [sec |-> base.sec + extension.sec + k, nsec |-> m]
  BY DEF ExpiryExtend
<1>. HIDE DEF k, m
<1>3. (base.sec + extension.sec + k) * NS = base.sec * NS + extension.sec * NS + k * NS
  BY <1>1, Distributes
<1>4. NS * k = k * NS
  BY <1>1
<1>5. Total(t) = Total(base) + Total(extension)
  <2>. DEFINE a == (base.sec + extension.sec + k) * NS
              b == base.sec * NS
              c == extension.sec * NS
              f == k * NS
  <2>1. a = b + c + f /\ b \in Int /\ c \in Int /\ f \in Int
    BY <1>1, <1>3
  <2>2. Total(t) = a + m
    BY <1>2 DEF Total
  <2>3. Total(base) = b + base.nsec /\ Total(extension) = c + extension.nsec
    BY DEF Total
  <2>4. base.nsec + extension.nsec = f + m
    BY <1>1, <1>4
  <2>5. base.nsec \in Int /\ extension.nsec \in Int /\ m \in Int
    BY <1>1
  <2>. HIDE DEF a, b, c, f, n, t
  <2>. QED  BY <2>1, <2>2, <2>3, <2>4, <2>5
<1>. QED  BY <1>1, <1>2, <1>5

\* An expiry has passed exactly when it is not later than now.
THEOREM PassedExact ==
  ASSUME NEW now \in Time, NEW expires \in Time,
         now.nsec \in 0 .. NS - 1, expires.nsec \in 0 .. NS - 1
  PROVE  ExpiryPassed(now, expires) <=> Total(expires) =< Total(now)
<1>. NS \in Nat \ {0} /\ NS = NanosecondsPerSecond
  BY SecondAssumption DEF NS
<1>. now.nsec \in Int /\ expires.nsec \in Int /\ now.sec \in Int /\ expires.sec \in Int
  BY DEF Time
<1>1. CASE expires.sec = now.sec
  BY <1>1, SMT DEF ExpiryPassed, Total
<1>2. CASE expires.sec < now.sec
  <2>1. expires.sec * NS =< (now.sec - 1) * NS
    BY <1>2, SMT
  <2>2. (now.sec - 1) * NS = now.sec * NS - NS
    BY Distributes, 1 * NS = NS
  <2>. QED  BY <1>2, <2>1, <2>2, SMT DEF ExpiryPassed, Total
<1>3. CASE expires.sec > now.sec
  <2>1. (expires.sec - 1) * NS >= now.sec * NS
    BY <1>3, SMT
  <2>2. (expires.sec - 1) * NS = expires.sec * NS - NS
    BY Distributes, 1 * NS = NS
  <2>. QED  BY <1>3, <2>1, <2>2, SMT DEF ExpiryPassed, Total
<1>. QED  BY <1>1, <1>2, <1>3

-----------------------------------------------------------------------------
(* The time from one record to the next.                                   *)

\* A time on the clock, however far it was set back.
LEMMA TimespecType ==
  ASSUME NEW n \in Int
  PROVE  /\ Timespec(n) \in Time
         /\ Timespec(n).nsec \in 0 .. NS - 1
         /\ Total(Timespec(n)) = n
<1>. NS \in Nat \ {0} /\ NS = NanosecondsPerSecond
  BY SecondAssumption DEF NS
<1>. DEFINE q == n \div NS
            m == n % NS
<1>1. q \in Int /\ m \in 0 .. NS - 1 /\ n = NS * q + m
  BY SMT
<1>2. Timespec(n) = [sec |-> q, nsec |-> m]
  BY DEF Timespec
<1>. HIDE DEF q, m
<1>3. q * NS = NS * q
  BY <1>1
<1>. QED  BY <1>1, <1>2, <1>3 DEF Time, Total

\* What is left is a time again, though not always a normal one.
LEMMA DiffType ==
  ASSUME NEW x \in Time, NEW y \in Time, x.nsec \in 0 .. NS, y.nsec \in 0 .. NS - 1
  PROVE  TimespecDiff(x, y).value \in Time
<1>. NS \in Nat \ {0} /\ NS = NanosecondsPerSecond
  BY SecondAssumption DEF NS
<1>1. Carry(x, Borrow(x, y)) \in Time
  BY Carried DEF Time
<1>. QED  BY <1>1 DEF TimespecDiff, Time

\* The rest of the interval, after an iteration of s units in which the clock
\* was set by d.
LEMMA Rest ==
  ASSUME NEW phase \in Int, NEW s \in Int, NEW d \in Int
  PROVE  LET passed == TimespecDiff(Timespec(phase + s + d), Timespec(phase)).value
             rest == TimespecDiff([sec |-> 0, nsec |-> Interval], passed)
         IN  /\ rest.value \in Time
             /\ rest.value.nsec \in 0 .. NS
             /\ rest.value.nsec = NS => Interval = NS
             /\ s + d = 0 /\ Interval = NS => rest.value.nsec = NS
             /\ Total(rest.value) = Interval - (s + d)
             /\ rest.negative <=> rest.value.sec < 0
<1>. NS \in Nat \ {0} /\ NS = NanosecondsPerSecond /\ Interval \in 1 .. NS
  BY SecondAssumption, TimeAssumption DEF NS
<1>. DEFINE x == Timespec(phase + s + d)
            y == Timespec(phase)
            passed == TimespecDiff(x, y).value
            z == [sec |-> 0, nsec |-> Interval]
            rest == TimespecDiff(z, passed)
<1>1. /\ x \in Time /\ x.nsec \in 0 .. NS - 1 /\ Total(x) = phase + s + d
      /\ y \in Time /\ y.nsec \in 0 .. NS - 1 /\ Total(y) = phase
  BY TimespecType
<1>. HIDE DEF x, y
<1>2. /\ Total(passed) = s + d
      /\ passed.nsec \in 0 .. NS - 1
  BY <1>1, DiffExact
<1>3. passed \in Time
  BY <1>1, DiffType
<1>4. z \in Time /\ z.nsec = Interval /\ Total(z) = Interval
  BY DEF Time, Total
<1>. HIDE DEF passed, z
<1>5. /\ Total(rest.value) = Total(z) - Total(passed)
      /\ rest.value.nsec \in 0 .. NS
      /\ rest.value.nsec = NS <=> z.nsec = NS /\ passed.nsec = 0
      /\ rest.negative <=> rest.value.sec < 0
  BY <1>2, <1>3, <1>4, DiffExact
<1>6. rest.value \in Time
  BY <1>2, <1>3, <1>4, DiffType
<1>7. s + d = 0 => passed.nsec = 0
  <2>. SUFFICES ASSUME s + d = 0 PROVE passed.nsec = 0
    OBVIOUS
  <2>1. passed.sec \in Int /\ passed.sec * NS = - passed.nsec
    BY <1>2, <1>3, SMT DEF Total, Time
  <2>2. CASE passed.sec < 0
    <3>1. passed.sec * NS =< (-1) * NS
      BY <2>1, <2>2, SMT
    <3>. QED  BY <1>2, <2>1, <3>1
  <2>3. CASE passed.sec >= 0
    <3>1. passed.sec * NS >= 0
      BY <2>1, <2>3, SMT
    <3>. QED  BY <1>2, <2>1, <3>1
  <2>. QED  BY <2>1, <2>2, <2>3
<1>. QED  BY <1>2, <1>4, <1>5, <1>6, <1>7 DEF x, y, passed, z

\* What is known of a sleep: the rest of the interval is still to come.
Sleeping ==
  workerPc = "sleep" /\ ~terminated =>
    /\ nap \in Time /\ nap.sec >= 0 /\ nap.nsec \in 0 .. NS
    /\ nap.nsec = NS => Interval = NS
    /\ spent + step = 0 /\ Interval = NS => nap.nsec = NS
    /\ Total(nap) = Interval - (spent + step)
    /\ elapsed = spent

\* The first record is not written before the thread starts.
FirstSet ==
  /\ mainPc \in {"settings", "init"} => workerPc = "none"
  /\ workerPc \in {"none", "start"} => first = TRUE

PaceInv ==
  /\ FirstSet
  /\ terminated \in BOOLEAN
  /\ spent \in Int /\ step \in Int
  /\ Sleeping
  /\ Paced

\* Nothing was slept yet.
LEMMA PaceInit == Init => PaceInv
<1>. SUFFICES ASSUME Init PROVE PaceInv
  OBVIOUS
<1>1. /\ mainPc = "settings" /\ terminated = FALSE /\ workerPc = "none"
      /\ first = TRUE /\ spent = 0 /\ step = 0
  BY DEF Init
<1>2. terminated \in BOOLEAN
  BY <1>1, Zenon
<1>. QED  BY <1>1, <1>2 DEF PaceInv, FirstSet, Sleeping, Paced

\* Steps that leave the time alone and lead neither to the loop condition nor
\* to the sleep.
LEMMA PaceFrame ==
  ASSUME PaceInv, FirstSet', UNCHANGED time,
         workerPc' = workerPc => UNCHANGED first,
         workerPc' # workerPc => workerPc' \notin {"sleep", "check"},
         terminated' = terminated \/ terminated' = TRUE
  PROVE  PaceInv'
<1>. Interval' = Interval /\ NS' = NS
  OBVIOUS
<1>1. CASE workerPc' = workerPc
  BY <1>1 DEF PaceInv, Sleeping, Paced, time, Total, NS, Time
<1>2. CASE workerPc' # workerPc
  BY <1>2 DEF PaceInv, Sleeping, Paced, time
<1>. QED  BY <1>1, <1>2

\* The next-state relation, one disjunct per action.
LEMMA NextCases ==
  ASSUME Next
  PROVE  \/ \E p \in Pid, t \in Tid, e \in Block : Store(p, t, e)
         \/ Start \/ Check \/ TakeList \/ OpenRecord \/ DumpEntry \/ FreeRow
         \/ FreeEntry \/ CloseRecord
         \/ \E phase \in 0 .. NS - 1, s \in 0 .. MaxSpent, d \in ClockStep :
              Measure(phase, s, d)
         \/ Sleep \/ Refuse
         \/ \E left \in 0 .. Total(nap) - 1 : Interrupt(left)
         \/ Signal
         \/ PrintSettings \/ InitAccounting \/ StopWorker \/ JoinWorker
         \/ FreeEntries \/ PrintDebug
         \/ Exited
BY DEF Next, Worker, Main

\* The rest that is measured is the one Sleeping speaks of, or there is none.
LEMMA PaceMeasure ==
  ASSUME PaceInv, NEW phase \in 0 .. NS - 1, NEW s \in 0 .. MaxSpent, NEW d \in ClockStep,
         Measure(phase, s, d)
  PROVE  PaceInv'
<1>. NS \in Nat \ {0} /\ NS = NanosecondsPerSecond /\ Interval \in 1 .. NS
  BY SecondAssumption, TimeAssumption DEF NS
<1>. phase \in Int /\ s \in Int /\ d \in Int /\ MaxSpent \in Nat
  BY TimeAssumption
<1>. DEFINE passed == TimespecDiff(Timespec(phase + s + d), Timespec(phase)).value
            rest == TimespecDiff([sec |-> 0, nsec |-> Interval], passed)
<1>1. /\ rest.value \in Time
      /\ rest.value.nsec \in 0 .. NS
      /\ rest.value.nsec = NS => Interval = NS
      /\ s + d = 0 /\ Interval = NS => rest.value.nsec = NS
      /\ Total(rest.value) = Interval - (s + d)
      /\ rest.negative <=> rest.value.sec < 0
  BY Rest
<1>2. /\ workerPc = "measure"
      /\ spent' = s /\ elapsed' = s /\ step' = d
      /\ IF rest.negative THEN workerPc' = "check" /\ UNCHANGED nap
         ELSE workerPc' = "sleep" /\ nap' = rest.value
      /\ UNCHANGED <<main, first>>
  BY DEF Measure
<1>. HIDE DEF rest
<1>3. FirstSet' /\ terminated' \in BOOLEAN /\ spent' \in Int /\ step' \in Int
  BY <1>2 DEF PaceInv, FirstSet, main
<1>4. CASE rest.negative
  <2>1. rest.value.sec =< -1 /\ rest.value.sec \in Int
    BY <1>1, <1>4 DEF Time
  <2>2. rest.value.sec * NS =< (-1) * NS
    BY <2>1, SMT
  <2>3. Total(rest.value) =< 0
    BY <1>1, <2>2, <2>1 DEF Total
  <2>4. s + d >= Interval
    BY <1>1, <2>3
  <2>. QED  BY <1>2, <1>3, <1>4, <2>4 DEF PaceInv, Sleeping, Paced
<1>5. CASE ~ rest.negative
  <2>1. workerPc' = "sleep" /\ nap' = rest.value /\ rest.value.sec >= 0
    BY <1>1, <1>2, <1>5 DEF Time
  <2>. QED  BY <1>1, <1>2, <1>3, <2>1 DEF PaceInv, Sleeping, Paced, Total, NS
<1>. QED  BY <1>4, <1>5

\* A sleep that is not interrupted fills the interval.
LEMMA PaceSleep ==
  ASSUME PaceInv, Sleep
  PROVE  PaceInv'
<1>. NS \in Nat \ {0} /\ NS = NanosecondsPerSecond /\ Interval \in 1 .. NS
  BY SecondAssumption, TimeAssumption DEF NS
<1>1. /\ workerPc = "sleep" /\ workerPc' = "check"
      /\ elapsed' = elapsed + Total(nap)
      /\ UNCHANGED <<main, first, nap, spent, step>>
  BY DEF Sleep, Go
<1>2. FirstSet' /\ terminated' \in BOOLEAN /\ spent' \in Int /\ step' \in Int
  BY <1>1 DEF PaceInv, FirstSet, main
<1>3. CASE ~ terminated
  <2>1. /\ Total(nap) = Interval - (spent + step) /\ elapsed = spent
        /\ nap.sec >= 0 /\ nap.sec \in Int /\ nap.nsec \in 0 .. NS - 1
    BY <1>1, <1>3 DEF PaceInv, Sleeping, Normal, Time, Sleep
  <2>2. ~ (spent + step = 0 /\ Interval = NS)
    BY <1>1, <1>3, <2>1 DEF PaceInv, Sleeping
  <2>3. nap.sec * NS >= 0
    BY <2>1, SMT
  <2>4. Total(nap) >= 0
    BY <2>1, <2>3 DEF Total
  <2>5. elapsed' = spent + (Interval - (spent + step)) /\ spent + step =< Interval
    BY <1>1, <2>1, <2>4 DEF PaceInv
  <2>6. Paced'
    BY <1>1, <2>2, <2>5 DEF PaceInv, Paced, NS
  <2>. QED  BY <1>1, <1>2, <2>6 DEF PaceInv, Sleeping
<1>4. CASE terminated
  BY <1>1, <1>2, <1>4 DEF PaceInv, Sleeping, Paced, main
<1>. QED  BY <1>3, <1>4

\* A refused sleep is a whole second, after an iteration that took no time.
LEMMA PaceRefuse ==
  ASSUME PaceInv, Refuse
  PROVE  PaceInv'
<1>. NS \in Nat \ {0} /\ NS = NanosecondsPerSecond /\ Interval \in 1 .. NS
  BY SecondAssumption, TimeAssumption DEF NS
<1>1. /\ workerPc = "sleep" /\ ~ Normal(nap)
      /\ workerPc' = IF Again(nap) THEN "sleep" ELSE "check"
      /\ UNCHANGED <<main, first, time>>
  BY DEF Refuse
<1>2. FirstSet' /\ terminated' \in BOOLEAN /\ spent' \in Int /\ step' \in Int
  BY <1>1 DEF PaceInv, FirstSet, main, time
<1>3. CASE terminated
  BY <1>1, <1>2, <1>3 DEF PaceInv, Sleeping, Paced, main
<1>4. CASE ~ terminated
  <2>1. /\ Total(nap) = Interval - (spent + step) /\ elapsed = spent
        /\ nap.nsec = NS /\ Interval = NS /\ nap.sec \in Int
    BY <1>1, <1>4 DEF PaceInv, Sleeping, Normal, Time
  <2>2. CASE Again(nap)
    BY <1>1, <1>2, <1>4, <2>2 DEF PaceInv, Sleeping, Paced, main, time, Total, NS
  <2>3. CASE ~ Again(nap)
    <3>1. nap.sec = 0
      BY <2>1, <2>3 DEF Again
    <3>2. Total(nap) = NS
      BY <2>1, <3>1 DEF Total
    <3>3. spent + step = 0
      BY <2>1, <3>2 DEF PaceInv
    <3>. QED  BY <1>1, <1>2, <2>1, <2>3, <3>3 DEF PaceInv, Sleeping, Paced, main, time
  <2>. QED  BY <2>2, <2>3
<1>. QED  BY <1>3, <1>4

\* The thread is started before its first record.
LEMMA PaceStart ==
  ASSUME PaceInv, Start \/ Check \/ CloseRecord \/ InitAccounting
  PROVE  PaceInv'
<1>1. CASE Start
  BY <1>1 DEF PaceInv, FirstSet, Sleeping, Paced, Start, Go, main, time
<1>2. CASE Check
  <2>1. /\ workerPc = "check" /\ workerPc' \in {"take", "exited"}
        /\ spent' = 0 /\ step' = 0 /\ UNCHANGED <<main, first>>
    BY <1>2 DEF Check
  <2>. QED  BY <2>1 DEF PaceInv, FirstSet, Sleeping, Paced, main
<1>3. CASE CloseRecord
  BY <1>3 DEF PaceInv, FirstSet, Sleeping, Paced, CloseRecord, Go, main, time
<1>4. CASE InitAccounting
  BY <1>4 DEF PaceInv, FirstSet, Sleeping, Paced, InitAccounting, MainGo, time
<1>. QED  BY <1>1, <1>2, <1>3, <1>4

\* A signal: nothing is said of the time once the program is to end.
LEMMA PaceSignal ==
  ASSUME PaceInv, Signal \/ \E left \in 0 .. Total(nap) - 1 : Interrupt(left)
  PROVE  PaceInv'
<1>1. CASE Signal
  BY <1>1 DEF PaceInv, FirstSet, Sleeping, Paced, Signal, time
<1>2. ASSUME NEW left \in 0 .. Total(nap) - 1, Interrupt(left)
      PROVE  PaceInv'
  <2>1. /\ workerPc = "sleep" /\ workerPc' \in {"sleep", "check"}
        /\ terminated' = TRUE
        /\ UNCHANGED <<mainPc, first, spent, step>>
    BY <1>2 DEF Interrupt
  <2>. QED  BY <2>1 DEF PaceInv, FirstSet, Sleeping, Paced
<1>. QED  BY <1>1, <1>2

\* The other steps of the dump thread, of the sampler and of main().
LEMMA PaceOther ==
  ASSUME PaceInv,
         \/ \E p \in Pid, t \in Tid, e \in Block : Store(p, t, e)
         \/ TakeList \/ OpenRecord \/ DumpEntry \/ FreeRow \/ FreeEntry
         \/ PrintSettings \/ StopWorker \/ JoinWorker \/ FreeEntries \/ PrintDebug
         \/ Exited \/ UNCHANGED vars
  PROVE  PaceInv'
<1>1. CASE \E p \in Pid, t \in Tid, e \in Block : Store(p, t, e)
  <2>1. UNCHANGED <<main, workerPc, first, time>>
    BY <1>1 DEF Store
  <2>. QED  BY <2>1, PaceFrame DEF PaceInv, FirstSet, main
<1>2. CASE TakeList
  BY <1>2, PaceFrame DEF PaceInv, FirstSet, main, TakeList, Go
<1>3. CASE OpenRecord
  BY <1>3, PaceFrame DEF PaceInv, FirstSet, main, OpenRecord, Go
<1>4. CASE DumpEntry
  BY <1>4, PaceFrame DEF PaceInv, FirstSet, main, DumpEntry, Go
<1>5. CASE FreeRow
  BY <1>5, PaceFrame DEF PaceInv, FirstSet, main, FreeRow
<1>6. CASE FreeEntry
  BY <1>6, PaceFrame DEF PaceInv, FirstSet, main, FreeEntry, Go
<1>7. CASE PrintSettings
  BY <1>7, PaceFrame DEF PaceInv, FirstSet, PrintSettings, MainGo
<1>8. CASE StopWorker
  BY <1>8, PaceFrame DEF PaceInv, FirstSet, StopWorker, MainGo
<1>9. CASE JoinWorker
  BY <1>9, PaceFrame DEF PaceInv, FirstSet, JoinWorker, MainGo
<1>10. CASE FreeEntries
  BY <1>10, PaceFrame DEF PaceInv, FirstSet, FreeEntries, MainGo
<1>11. CASE PrintDebug
  BY <1>11, PaceFrame DEF PaceInv, FirstSet, PrintDebug, MainGo
<1>12. CASE Exited \/ UNCHANGED vars
  <2>1. UNCHANGED <<main, workerPc, first, time>>
    BY <1>12 DEF Exited, vars
  <2>. QED  BY <2>1, PaceFrame DEF PaceInv, FirstSet, main
<1>. QED  BY <1>1, <1>2, <1>3, <1>4, <1>5, <1>6, <1>7, <1>8, <1>9, <1>10, <1>11, <1>12

\* Every step keeps the pace.
LEMMA PaceStep == PaceInv /\ [Next]_vars => PaceInv'
<1>. SUFFICES ASSUME PaceInv, [Next]_vars PROVE PaceInv'
  OBVIOUS
<1>1. CASE Next
  BY <1>1, NextCases, PaceStart, PaceSignal, PaceOther, PaceMeasure, PaceSleep, PaceRefuse
<1>2. CASE UNCHANGED vars
  BY <1>2, PaceOther
<1>. QED  BY <1>1, <1>2

\* From one look at the list to the next passes exactly the interval, or the time
\* the iteration took if that was longer, by the clock as it was set: for any
\* interval of up to a second, at any time of the clock, however it is set while
\* an iteration runs, and however long the loop around nanosleep is refused.
THEOREM Pacing == Spec => []Paced
<1>1. PaceInv => Paced
  BY DEF PaceInv
<1>. QED  BY PaceInit, PaceStep, <1>1, PTL DEF Spec

-----------------------------------------------------------------------------
(* The text on stdout.                                                     *)

\* The tokens that are printed, and what a reader makes of them.
LEMMA Reads ==
  /\ Read("empty", "settings") = "settings"
  /\ Read("settings", "[") = "array"
  /\ Read("array", "{") = "object" /\ Read("separator", "{") = "object"
  /\ Read("object", "entry") = "entry" /\ Read("comma", "entry") = "entry"
  /\ Read("entry", ",") = "comma"
  /\ Read("object", "]}") = "record" /\ Read("entry", "]}") = "record"
  /\ Read("record", ",") = "separator"
  /\ Read("array", "]") = "closed" /\ Read("record", "]") = "closed"
  /\ Read("closed", "debug") = "complete"
<1>1. ASSUME NEW s \in Syntax
      PROVE  Read(s[1], s[2]) = s[3]
  <2>1. \A r \in Syntax : r[1] = s[1] /\ r[2] = s[2] => r[3] = s[3]
    <3>1. ASSUME NEW r \in Syntax
          PROVE  \/ r[1] = "empty" /\ r[2] = "settings" /\ r[3] = "settings"
                 \/ r[1] = "settings" /\ r[2] = "[" /\ r[3] = "array"
                 \/ r[1] \in {"array", "separator"} /\ r[2] = "{" /\ r[3] = "object"
                 \/ r[1] \in {"object", "comma"} /\ r[2] = "entry" /\ r[3] = "entry"
                 \/ r[1] = "entry" /\ r[2] = "," /\ r[3] = "comma"
                 \/ r[1] \in {"object", "entry"} /\ r[2] = "]}" /\ r[3] = "record"
                 \/ r[1] = "record" /\ r[2] = "," /\ r[3] = "separator"
                 \/ r[1] \in {"array", "record"} /\ r[2] = "]" /\ r[3] = "closed"
                 \/ r[1] = "closed" /\ r[2] = "debug" /\ r[3] = "complete"
      <4>1. CASE r = <<"empty", "settings", "settings">>
        BY <4>1
      <4>2. CASE r = <<"settings", "[", "array">>
        BY <4>2
      <4>3. CASE r = <<"array", "{", "object">>
        BY <4>3
      <4>4. CASE r = <<"separator", "{", "object">>
        BY <4>4
      <4>5. CASE r = <<"object", "entry", "entry">>
        BY <4>5
      <4>6. CASE r = <<"comma", "entry", "entry">>
        BY <4>6
      <4>7. CASE r = <<"entry", ",", "comma">>
        BY <4>7
      <4>8. CASE r = <<"object", "]}", "record">>
        BY <4>8
      <4>9. CASE r = <<"entry", "]}", "record">>
        BY <4>9
      <4>10. CASE r = <<"record", ",", "separator">>
        BY <4>10
      <4>11. CASE r = <<"array", "]", "closed">>
        BY <4>11
      <4>12. CASE r = <<"record", "]", "closed">>
        BY <4>12
      <4>13. CASE r = <<"closed", "debug", "complete">>
        BY <4>13
      <4>. QED
        BY <4>1, <4>2, <4>3, <4>4, <4>5, <4>6, <4>7, <4>8, <4>9, <4>10, <4>11, <4>12, <4>13, Zenon DEF Syntax
    <3>. QED  BY <3>1
  <2>. DEFINE r == CHOOSE q \in Syntax : q[1] = s[1] /\ q[2] = s[2]
  <2>2. r \in Syntax /\ r[1] = s[1] /\ r[2] = s[2]
    BY Zenon
  <2>3. Read(s[1], s[2]) = r[3]
    BY Zenon DEF Read
  <2>. HIDE DEF r
  <2>. QED  BY <2>1, <2>2, <2>3
<1>2. /\ <<"empty", "settings", "settings">> \in Syntax
      /\ <<"settings", "[", "array">> \in Syntax
      /\ <<"array", "{", "object">> \in Syntax
      /\ <<"separator", "{", "object">> \in Syntax
      /\ <<"object", "entry", "entry">> \in Syntax
      /\ <<"comma", "entry", "entry">> \in Syntax
      /\ <<"entry", ",", "comma">> \in Syntax
      /\ <<"object", "]}", "record">> \in Syntax
      /\ <<"entry", "]}", "record">> \in Syntax
      /\ <<"record", ",", "separator">> \in Syntax
      /\ <<"array", "]", "closed">> \in Syntax
      /\ <<"record", "]", "closed">> \in Syntax
      /\ <<"closed", "debug", "complete">> \in Syntax
  BY DEF Syntax
<1>. QED  BY <1>1, <1>2

\* Who writes, and when the writer changes.
Turn ==
  /\ mainPc \in {"settings", "init"} => workerPc = "none"
  /\ mainPc \in {"settings", "init", "run"} => state = TRUE
  /\ workerPc = "none" => mainPc \in {"settings", "init"}
  /\ workerPc \in {"none", "start"} => first = TRUE
  /\ workerPc = "exited" => state = FALSE
  /\ mainPc \in {"free", "debug", "done"} => workerPc = "exited"

\* What the text holds before each token.
Text ==
  /\ mainPc = "settings" => doc = "empty"
  /\ mainPc = "init" => doc = "settings"
  /\ workerPc = "start" => doc = "settings"
  /\ workerPc \in {"check", "take", "open"} => doc = IF first THEN "array" ELSE "record"
  /\ workerPc = "walk" =>
       doc \in IF cur = Entries THEN {"object", "entry"} ELSE {"object", "comma"}
  /\ workerPc = "free" => doc = "entry"
  /\ workerPc \in {"measure", "sleep"} => doc = "record" /\ first = FALSE
  /\ workerPc = "exited" => doc = IF mainPc = "done" THEN "complete" ELSE "closed"

DocInv ==
  /\ mainPc \in {"settings", "init", "run", "join", "free", "debug", "done"}
  /\ workerPc \in {"none", "start", "check", "take", "open", "walk", "free",
                   "measure", "sleep", "exited"}
  /\ first \in BOOLEAN /\ state \in BOOLEAN
  /\ Turn
  /\ Text

\* Nothing is written before main() writes the settings.
LEMMA DocInit == Init => DocInv
<1>. SUFFICES ASSUME Init PROVE DocInv
  OBVIOUS
<1>1. /\ mainPc = "settings" /\ workerPc = "none" /\ first = TRUE
      /\ state = TRUE /\ doc = "empty"
  BY DEF Init
<1>2. first \in BOOLEAN /\ state \in BOOLEAN
  BY <1>1, Zenon
<1>. QED  BY <1>1, <1>2 DEF DocInv, Turn, Text

\* The steps that print nothing and stay where they are.
LEMMA DocFrame ==
  ASSUME DocInv, UNCHANGED <<mainPc, state, workerPc, first, cur, doc>>
  PROVE  DocInv'
BY DEF DocInv, Turn, Text

\* The dump thread's steps, in the order in which it takes them.
LEMMA DocWorker ==
  ASSUME DocInv,
         \/ Start \/ Check \/ TakeList \/ OpenRecord \/ DumpEntry \/ FreeRow
         \/ FreeEntry \/ CloseRecord
         \/ \E phase \in 0 .. NS - 1, s \in 0 .. MaxSpent, d \in ClockStep :
              Measure(phase, s, d)
         \/ Sleep \/ Refuse
         \/ \E left \in 0 .. Total(nap) - 1 : Interrupt(left)
  PROVE  DocInv'
<1>. USE DEF DocInv, Turn, Text
<1>1. CASE Start
  BY <1>1, Reads DEF Start, Go, Write, main
<1>2. CASE Check
  <2>1. /\ workerPc = "check" /\ UNCHANGED <<main, first>>
        /\ IF state THEN workerPc' = "take" /\ doc' = doc
           ELSE workerPc' = "exited" /\ doc' = Read(doc, "]")
    BY <1>2 DEF Check, Write
  <2>2. Read(doc, "]") = "closed"
    BY <2>1, Reads
  <2>3. CASE state
    BY <2>1, <2>3 DEF main
  <2>4. CASE ~ state
    <3>1. mainPc \notin {"settings", "init", "run", "free", "debug", "done"}
      BY <2>1, <2>4
    <3>2. state = FALSE
      BY <2>4
    <3>. QED  BY <2>1, <2>2, <2>4, <3>1, <3>2 DEF main
  <2>. QED  BY <2>3, <2>4
<1>3. CASE TakeList
  BY <1>3 DEF TakeList, Go, main
<1>4. CASE OpenRecord
  <2>1. /\ workerPc = "open" /\ workerPc' = "walk"
        /\ doc' = Read(IF first THEN doc ELSE Read(doc, ","), "{")
        /\ UNCHANGED <<main, first>>
    BY <1>4 DEF OpenRecord, Go
  <2>2. doc' = "object"
    BY <2>1, Reads
  <2>. QED  BY <2>1, <2>2 DEF main
<1>5. CASE DumpEntry
  BY <1>5, Reads DEF DumpEntry, Go, Write, main, walk
<1>6. CASE FreeRow
  BY <1>6 DEF FreeRow, main, walk
<1>7. CASE FreeEntry
  <2>1. /\ workerPc = "free" /\ workerPc' = "walk" /\ cur' = nxt
        /\ doc' = IF nxt = Entries THEN doc ELSE Read(doc, ",")
        /\ UNCHANGED <<main, first>>
    BY <1>7 DEF FreeEntry, Go
  <2>. QED  BY <2>1, Reads DEF main
<1>8. CASE CloseRecord
  <2>1. /\ workerPc = "walk" /\ cur = Entries /\ workerPc' = "measure"
        /\ doc' = Read(doc, "]}") /\ first' = FALSE /\ UNCHANGED main
    BY <1>8 DEF CloseRecord, Go, Write
  <2>2. doc' = "record"
    BY <2>1, Reads
  <2>3. first' \in BOOLEAN
    BY <2>1, Zenon
  <2>. QED  BY <2>1, <2>2, <2>3 DEF main
<1>9. ASSUME NEW phase \in 0 .. NS - 1, NEW s \in 0 .. MaxSpent, NEW d \in ClockStep,
             Measure(phase, s, d)
      PROVE  DocInv'
  <2>1. /\ workerPc = "measure" /\ workerPc' \in {"check", "sleep"}
        /\ UNCHANGED <<main, first, doc>>
    BY <1>9 DEF Measure
  <2>. QED  BY <2>1 DEF main
<1>10. CASE Sleep
  <2>1. /\ workerPc = "sleep" /\ workerPc' = "check"
        /\ UNCHANGED <<main, first, doc>>
    BY <1>10 DEF Sleep, Go
  <2>. QED  BY <2>1 DEF main
<1>11. CASE Refuse
  <2>1. /\ workerPc = "sleep" /\ workerPc' \in {"check", "sleep"}
        /\ UNCHANGED <<main, first, doc>>
    BY <1>11 DEF Refuse
  <2>. QED  BY <2>1 DEF main
<1>12. ASSUME NEW left \in 0 .. Total(nap) - 1, Interrupt(left)
       PROVE  DocInv'
  <2>1. /\ workerPc = "sleep" /\ workerPc' \in {"check", "sleep"}
        /\ UNCHANGED <<mainPc, state, first, doc>>
    BY <1>12 DEF Interrupt
  <2>. QED  BY <2>1
<1>. QED
  BY <1>1, <1>2, <1>3, <1>4, <1>5, <1>6, <1>7, <1>8, <1>9, <1>10, <1>11, <1>12

\* The steps of the other threads.
LEMMA DocOther ==
  ASSUME DocInv,
         \/ \E p \in Pid, t \in Tid, e \in Block : Store(p, t, e)
         \/ Signal
         \/ PrintSettings \/ InitAccounting \/ StopWorker \/ JoinWorker
         \/ FreeEntries \/ PrintDebug
         \/ Exited \/ UNCHANGED vars
  PROVE  DocInv'
<1>1. CASE \E p \in Pid, t \in Tid, e \in Block : Store(p, t, e)
  <2>1. UNCHANGED <<main, workerPc, first, walk, doc>>
    BY <1>1 DEF Store
  <2>. QED  BY <2>1, DocFrame DEF main, walk
<1>2. CASE Signal
  BY <1>2, DocFrame DEF Signal, walk
<1>3. CASE PrintSettings
  BY <1>3, Reads DEF PrintSettings, MainGo, Write, DocInv, Turn, Text, walk
<1>4. CASE InitAccounting
  BY <1>4 DEF InitAccounting, MainGo, DocInv, Turn, Text, walk
<1>5. CASE StopWorker
  BY <1>5 DEF StopWorker, MainGo, DocInv, Turn, Text, walk
<1>6. CASE JoinWorker
  BY <1>6 DEF JoinWorker, MainGo, DocInv, Turn, Text, walk
<1>7. CASE FreeEntries
  BY <1>7 DEF FreeEntries, MainGo, DocInv, Turn, Text, walk
<1>8. CASE PrintDebug
  BY <1>8, Reads DEF PrintDebug, MainGo, Write, DocInv, Turn, Text, walk
<1>9. CASE Exited \/ UNCHANGED vars
  <2>1. UNCHANGED <<main, workerPc, first, walk, doc>>
    BY <1>9 DEF Exited, vars
  <2>. QED  BY <2>1, DocFrame DEF main, walk
<1>. QED  BY <1>1, <1>2, <1>3, <1>4, <1>5, <1>6, <1>7, <1>8, <1>9

\* Who writes next, and what the text holds by then.
LEMMA DocInvariance == Spec => []DocInv
<1>1. DocInv /\ [Next]_vars => DocInv'
  BY NextCases, DocWorker, DocOther
<1>. QED  BY DocInit, <1>1, PTL DEF Spec

\* The text is well-formed at any time and complete when the program ends,
\* whatever is stored, however many entries there are, and whenever the program
\* is stopped: main() and the dump thread never write at the same time.
THEOREM Output == Spec => []OutputValid
<1>1. DocInv => OutputValid
  BY DEF DocInv, Turn, Text, OutputValid
<1>. QED  BY DocInvariance, <1>1, PTL

-----------------------------------------------------------------------------
(* The heap: what each operation on the lists does to the blocks of memory, *)
(* in terms of the lists as sequences.                                      *)

\* The entries of both lists, and what is taken out and not yet freed.
Kept(q, m, c) == Image(q) \cup Image(m) \cup c

\* Every block that is allocated is an entry or a row, of exactly one entry.
Blocks(u, q, m, c, rs) ==
  /\ q \in Seq(Block) /\ m \in Seq(Block) /\ c \subseteq Block
  /\ rs \in [Block -> Seq(Block)]
  /\ Image(q) \cap Image(m) = {} /\ c \cap (Image(q) \cup Image(m)) = {}
  /\ u \subseteq Block
  /\ \A b \in Block : b \in u <=> b \in Kept(q, m, c) \/ \E e \in Block : b \in Image(rs[e])
  /\ \A e \in Block : Image(rs[e]) \cap Kept(q, m, c) = {}
  /\ \A e, f \in Block : e # f => Image(rs[e]) \cap Image(rs[f]) = {}
  /\ \A e \in Block \ Kept(q, m, c) : rs[e] = <<>>

\* The rows of all entries, those that are none have none.
RowMap == [Block -> Seq(Block)]

\* The rows of every entry.
RowRings(l, X, rs) == \A e \in X : Ring(l, RowHead(e), rs[e])

\* A row r is put before those of e, and the first row r of e is taken off.
Pushed(rs, e, r, rs1) ==
  /\ rs1 \in RowMap /\ rs1[e] = <<r>> \o rs[e]
  /\ \A f \in Block \ {e} : rs1[f] = rs[f]

Popped(rs, e, r, rs1) ==
  /\ rs[e] # <<>> /\ r = rs[e][1]
  /\ rs1 \in RowMap /\ rs1[e] = Tail(rs[e])
  /\ \A f \in Block \ {e} : rs1[f] = rs[f]

\* Heads are no blocks, and every entry has a head of its own.
LEMMA Heads ==
  /\ Current \in Node /\ Entries \in Node /\ Block \subseteq Node
  /\ Current # Entries /\ Current \notin Block /\ Entries \notin Block
  /\ \A e \in Block : /\ RowHead(e) \in Node /\ RowHead(e) \notin Block
                      /\ RowHead(e) # Current /\ RowHead(e) # Entries
  /\ \A e, f \in Block : RowHead(e) = RowHead(f) => e = f
<1>1. \A e, f \in Block : RowHead(e) = RowHead(f) => e = f
  BY DEF RowHead
<1>. QED  BY <1>1, HeapAssumption DEF Fixed, Node

\* A list of blocks goes through its head and blocks.
LEMMA BlockList ==
  ASSUME NEW s \in Seq(Block)
  PROVE  /\ s \in Seq(Node) /\ Len(s) \in Nat /\ Image(s) \subseteq Block
         /\ \A h : Nodes(h, s) = {h} \cup Image(s)
         /\ \A i \in 1 .. Len(s) : s[i] \in Image(s)
         /\ Image(<<>>) = {}
         /\ s # <<>> => Len(s) >= 1 /\ s[1] \in Image(s)
<1>1. s \in Seq(Node)
  BY Heads, SeqMonotonic
<1>2. Len(s) \in Nat /\ Image(s) \subseteq Block
  BY DEF Image
<1>3. \A h : Nodes(h, s) = {h} \cup Image(s)
  BY DEF Nodes, Image
<1>4. \A i \in 1 .. Len(s) : s[i] \in Image(s)
  BY DEF Image
<1>5. Image(<<>>) = {}
  BY DEF Image
<1>6. s # <<>> => Len(s) >= 1
  OBVIOUS
<1>. QED  BY <1>1, <1>2, <1>3, <1>4, <1>5, <1>6

\* Adding at the end, adding at the front, taking the first.
LEMMA ImageOf ==
  ASSUME NEW s \in Seq(Block), NEW b \in Block
  PROVE  /\ Append(s, b) \in Seq(Block) /\ Image(Append(s, b)) = Image(s) \cup {b}
         /\ <<b>> \o s \in Seq(Block) /\ Image(<<b>> \o s) = Image(s) \cup {b}
         /\ s # <<>> => Tail(s) \in Seq(Block) /\ Image(s) = Image(Tail(s)) \cup {s[1]}
<1>. DEFINE k == Len(s)
<1>0. k \in Nat
  OBVIOUS
<1>1. Append(s, b) \in Seq(Block) /\ Image(Append(s, b)) = Image(s) \cup {b}
  <2>. DEFINE t == Append(s, b)
  <2>1. t \in Seq(Block) /\ Len(t) = k + 1 /\ t[k + 1] = b /\ \A i \in 1 .. k : t[i] = s[i]
    OBVIOUS
  <2>. HIDE DEF t
  <2>2. 1 .. k + 1 = (1 .. k) \cup {k + 1}
    BY <1>0
  <2>. QED  BY <2>1, <2>2 DEF Image
<1>2. <<b>> \o s \in Seq(Block) /\ Image(<<b>> \o s) = Image(s) \cup {b}
  <2>. DEFINE t == <<b>> \o s
  <2>1. /\ <<b>> \in Seq(Block) /\ Len(<<b>>) = 1 /\ <<b>>[1] = b
    OBVIOUS
  <2>2. /\ t \in Seq(Block) /\ Len(t) = 1 + k
        /\ \A i \in 1 .. 1 + k : t[i] = IF i <= 1 THEN <<b>>[i] ELSE s[i - 1]
    BY <2>1, ConcatProperties
  <2>. HIDE DEF t
  <2>3. /\ t[1] = b /\ 1 \in 1 .. 1 + k
        /\ \A i \in 1 .. k : i + 1 \in 1 .. 1 + k /\ t[i + 1] = s[i]
    BY <1>0, <2>1, <2>2
  <2>4. \A i \in 1 .. 1 + k : i = 1 \/ (i - 1 \in 1 .. k /\ t[i] = s[i - 1])
    BY <1>0, <2>2
  <2>5. ASSUME NEW x \in Image(t)
        PROVE  x \in Image(s) \cup {b}
    <3>1. PICK i \in 1 .. 1 + k : x = t[i]
      BY <2>2 DEF Image
    <3>. QED  BY <2>3, <2>4, <3>1 DEF Image
  <2>6. ASSUME NEW x \in Image(s) \cup {b}
        PROVE  x \in Image(t)
    <3>1. CASE x = b
      BY <2>2, <2>3, <3>1 DEF Image
    <3>2. CASE x # b
      <4>1. PICK i \in 1 .. k : x = s[i]
        BY <3>2 DEF Image
      <4>2. i + 1 \in 1 .. Len(t) /\ t[i + 1] = x
        BY <2>2, <2>3, <4>1
      <4>. QED  BY <4>2 DEF Image
    <3>. QED  BY <3>1, <3>2
  <2>7. Image(t) = Image(s) \cup {b}
    BY <2>5, <2>6
  <2>. QED  BY <2>2, <2>7 DEF t
<1>3. ASSUME s # <<>>
      PROVE  Tail(s) \in Seq(Block) /\ Image(s) = Image(Tail(s)) \cup {s[1]}
  <2>. DEFINE t == Tail(s)
  <2>1. t \in Seq(Block) /\ Len(t) = k - 1 /\ k >= 1 /\ \A i \in 1 .. k - 1 : t[i] = s[i + 1]
    BY <1>3
  <2>. HIDE DEF t
  <2>2. /\ 1 \in 1 .. k /\ \A i \in 1 .. k - 1 : i + 1 \in 1 .. k
        /\ \A i \in 1 .. k : i = 1 \/ (i - 1 \in 1 .. k - 1 /\ t[i - 1] = s[i])
    BY <1>0, <2>1
  <2>3. ASSUME NEW x \in Image(t) \cup {s[1]}
        PROVE  x \in Image(s)
    <3>1. CASE x = s[1]
      BY <2>2, <3>1 DEF Image
    <3>2. CASE x # s[1]
      <4>1. PICK i \in 1 .. k - 1 : x = t[i]
        BY <2>1, <3>2 DEF Image
      <4>2. i + 1 \in 1 .. k /\ s[i + 1] = x
        BY <2>1, <2>2, <4>1
      <4>. QED  BY <4>2 DEF Image
    <3>. QED  BY <3>1, <3>2
  <2>4. ASSUME NEW x \in Image(s)
        PROVE  x \in Image(t) \cup {s[1]}
    <3>1. PICK i \in 1 .. k : x = s[i]
      BY DEF Image
    <3>. QED  BY <2>1, <2>2, <3>1 DEF Image
  <2>5. Image(s) = Image(t) \cup {s[1]}
    BY <2>3, <2>4
  <2>. QED  BY <2>1, <2>5 DEF t
<1>. QED  BY <1>1, <1>2, <1>3

\* A list none of whose nodes is touched stays as it is.
LEMMA Untouched ==
  ASSUME NEW l, NEW l1, NEW h \in Node, NEW s \in Seq(Block), Ring(l, h, s),
         \A n \in {h} \cup Image(s) : l1.next[n] = l.next[n] /\ l1.prev[n] = l.prev[n]
  PROVE  Ring(l1, h, s)
<1>1. s \in Seq(Node) /\ Nodes(h, s) = {h} \cup Image(s)
  BY BlockList
<1>. QED  BY <1>1, RingFrame

\* An entry is made at the end of the list.
LEMMA EntryAdded ==
  ASSUME NEW l \in Links(Node), NEW u, NEW q, NEW m, NEW c, NEW rs,
         Blocks(u, q, m, c, rs), RowRings(l, Kept(q, m, c), rs), Ring(l, Current, q),
         NEW e \in Block \ u,
         NEW l1, l1 = ListInit(ListAddBefore(l, Current, e), RowHead(e))
  PROVE  /\ l1 \in Links(Node)
         /\ Blocks(u \cup {e}, Append(q, e), m, c, rs)
         /\ RowRings(l1, Kept(Append(q, e), m, c), rs)
         /\ Ring(l1, Current, Append(q, e))
         /\ Ring(l, Entries, m) => Ring(l1, Entries, m)
<1>. DEFINE q1 == Append(q, e)
            l0 == ListAddBefore(l, Current, e)
            rh == RowHead(e)
            X == {Current, rh, e} \cup Image(q)
<1>1. /\ q \in Seq(Block) /\ m \in Seq(Block) /\ rs \in [Block -> Seq(Block)]
      /\ Image(q) \subseteq Block /\ Image(m) \subseteq Block /\ c \subseteq Block
      /\ Image(q) \cap Image(m) = {} /\ c \cap (Image(q) \cup Image(m)) = {}
      /\ e \notin Kept(q, m, c) /\ \A f \in Block : e \notin Image(rs[f])
      /\ rs[e] = <<>>
  BY BlockList DEF Blocks
<1>2. q1 \in Seq(Block) /\ Image(q1) = Image(q) \cup {e}
  BY <1>1, ImageOf
<1>3. Kept(q1, m, c) = Kept(q, m, c) \cup {e}
  BY <1>2 DEF Kept
<1>4. Blocks(u \cup {e}, q1, m, c, rs)
  <2>1. \A b \in Block : b \in u \cup {e} <=> b \in Kept(q1, m, c) \/ \E f \in Block : b \in Image(rs[f])
    BY <1>3 DEF Blocks
  <2>2. Image(q1) \cap Image(m) = {} /\ c \cap (Image(q1) \cup Image(m)) = {}
    BY <1>1, <1>2 DEF Kept
  <2>3. \A f \in Block : Image(rs[f]) \cap Kept(q1, m, c) = {}
    BY <1>1, <1>3 DEF Blocks
  <2>. QED  BY <1>1, <1>2, <1>3, <2>1, <2>2, <2>3 DEF Blocks
<1>. HIDE DEF q1, rh
<1>5. /\ l0 \in Links(Node) /\ Ring(l0, Current, q1)
      /\ \A n \in Node \ X : l0.next[n] = l.next[n] /\ l0.prev[n] = l.prev[n]
  <2>1. /\ q \in Seq(Node) /\ Nodes(Current, q) = {Current} \cup Image(q)
        /\ e \in Node \ Nodes(Current, q)
    BY <1>1, BlockList, Heads DEF Kept
  <2>2. /\ l0 \in Links(Node) /\ Ring(l0, Current, q1)
        /\ \A n \in Node \ (Nodes(Current, q) \cup {e}) :
             l0.next[n] = l.next[n] /\ l0.prev[n] = l.prev[n]
    BY <2>1, Heads, AddBeforeRing DEF q1
  <2>. HIDE DEF l0
  <2>. QED  BY <2>1, <2>2
<1>. HIDE DEF l0
<1>6. rh \in Node /\ rh \notin Block /\ rh # Current /\ rh # Entries
  BY Heads DEF rh
<1>7. /\ l1 \in Links(Node) /\ Ring(l1, rh, <<>>)
      /\ \A n \in Node \ {rh} : l1.next[n] = l0.next[n] /\ l1.prev[n] = l0.prev[n]
  BY <1>5, <1>6, InitRing DEF l0, rh
<1>8. \A n \in Node \ X : l1.next[n] = l.next[n] /\ l1.prev[n] = l.prev[n]
  BY <1>5, <1>7
<1>9. Ring(l1, Current, q1)
  <2>1. \A n \in {Current} \cup Image(q1) : l1.next[n] = l0.next[n] /\ l1.prev[n] = l0.prev[n]
    BY <1>1, <1>2, <1>6, <1>7, Heads
  <2>2. Current \in Node /\ q1 \in Seq(Block) /\ Ring(l0, Current, q1)
    BY <1>2, <1>5, Heads
  <2>. HIDE DEF X
  <2>. QED  BY <2>1, <2>2, Untouched
<1>10. RowRings(l1, Kept(q1, m, c), rs)
  <2>. SUFFICES ASSUME NEW f \in Kept(q1, m, c) PROVE Ring(l1, RowHead(f), rs[f])
    BY DEF RowRings
  <2>1. CASE f = e
    BY <1>1, <1>7, <2>1 DEF rh
  <2>2. CASE f # e
    <3>1. f \in Kept(q, m, c) /\ f \in Block
      BY <1>1, <1>3, <2>2 DEF Kept
    <3>2. Ring(l, RowHead(f), rs[f])
      BY <3>1 DEF RowRings
    <3>3. RowHead(f) \in Node /\ RowHead(f) \notin X
      BY <1>1, <2>2, <3>1, Heads DEF rh
    <3>4. Image(rs[f]) \cap X = {}
      <4>1. Image(rs[f]) \subseteq Block
        BY <1>1, <3>1, BlockList
      <4>2. Image(rs[f]) \cap Image(q) = {}
        BY <3>1 DEF Blocks, Kept
      <4>. QED  BY <1>1, <1>6, <3>1, <4>1, <4>2, Heads
    <3>5. rs[f] \in Seq(Block)
      BY <1>1, <3>1
    <3>6. \A n \in {RowHead(f)} \cup Image(rs[f]) : l1.next[n] = l.next[n] /\ l1.prev[n] = l.prev[n]
      BY <1>8, <3>3, <3>4, <3>5, BlockList, Heads
    <3>7. RowHead(f) \in Node
      BY <3>3
    <3>. HIDE DEF X
    <3>. QED  BY <3>2, <3>5, <3>6, <3>7, Untouched
  <2>. QED  BY <2>1, <2>2
<1>11. Ring(l, Entries, m) => Ring(l1, Entries, m)
  <2>1. Entries \in Node /\ Entries \notin X
    BY <1>1, <1>6, Heads
  <2>2. Image(m) \cap X = {}
    BY <1>1, <1>6, Heads DEF Kept
  <2>3. \A n \in {Entries} \cup Image(m) : l1.next[n] = l.next[n] /\ l1.prev[n] = l.prev[n]
    BY <1>1, <1>8, <2>1, <2>2, Heads
  <2>4. Entries \in Node /\ m \in Seq(Block)
    BY <1>1, Heads
  <2>. HIDE DEF X
  <2>. QED  BY <2>3, <2>4, Untouched
<1>. QED  BY <1>4, <1>7, <1>9, <1>10, <1>11 DEF q1

\* Where the walk over the list taken over begins.
LEMMA WalkEnds ==
  ASSUME NEW l, NEW s \in Seq(Block), Ring(l, Entries, s)
  PROVE  /\ l.next[Entries] = At(Entries, s, 1)
         /\ l.next[At(Entries, s, 1)] = At(Entries, s, 2)
<1>1. Len(s) \in Nat /\ At(Entries, s, 0) = Entries
  BY DEF At
<1>2. l.next[Entries] = At(Entries, s, 1)
  BY <1>1 DEF Ring
<1>3. CASE Len(s) = 0
  <2>1. At(Entries, s, 1) = Entries /\ At(Entries, s, 2) = Entries
    BY <1>3 DEF At
  <2>. QED  BY <1>2, <2>1
<1>4. CASE Len(s) # 0
  BY <1>1, <1>2, <1>4 DEF Ring
<1>. QED  BY <1>1, <1>3, <1>4

\* The first entry of a ring is not among the others.
LEMMA FirstOnce ==
  ASSUME NEW l, NEW h, NEW s \in Seq(Block), Ring(l, h, s), s # <<>>
  PROVE  s[1] \notin Image(Tail(s))
<1>. DEFINE t == Tail(s)
<1>1. /\ Len(t) = Len(s) - 1 /\ Len(s) \in Nat /\ Len(s) >= 1
      /\ \A i \in 1 .. Len(s) - 1 : t[i] = s[i + 1]
  OBVIOUS
<1>2. \A i, j \in 1 .. Len(s) : s[i] = s[j] => i = j
  BY DEF Ring
<1>. HIDE DEF t
<1>3. ASSUME NEW i \in 1 .. Len(t), t[i] = s[1]
      PROVE  FALSE
  BY <1>1, <1>2, <1>3
<1>. QED  BY <1>3 DEF Image, t

\* The rows of entries none of whose nodes is touched.
LEMMA RowsUntouched ==
  ASSUME NEW l, NEW l1, NEW Y \in SUBSET Block, NEW rs \in RowMap,
         RowRings(l, Y, rs),
         \A f \in Y : \A n \in {RowHead(f)} \cup Image(rs[f]) :
           l1.next[n] = l.next[n] /\ l1.prev[n] = l.prev[n]
  PROVE  RowRings(l1, Y, rs)
<1>. SUFFICES ASSUME NEW f \in Y PROVE Ring(l1, RowHead(f), rs[f])
  BY DEF RowRings
<1>1. RowHead(f) \in Node
  BY Heads
<1>2. rs[f] \in Seq(Block)
  BY DEF RowMap
<1>3. Ring(l, RowHead(f), rs[f])
  BY DEF RowRings
<1>4. \A n \in {RowHead(f)} \cup Image(rs[f]) : l1.next[n] = l.next[n] /\ l1.prev[n] = l.prev[n]
  OBVIOUS
<1>. QED  BY <1>1, <1>2, <1>3, <1>4, Untouched

\* A row is made at the front of the rows of an entry.
LEMMA RowAdded ==
  ASSUME NEW l \in Links(Node), NEW u, NEW q, NEW m, NEW c, NEW rs,
         Blocks(u, q, m, c, rs), RowRings(l, Kept(q, m, c), rs),
         NEW e \in Kept(q, m, c), NEW r \in Block \ u,
         NEW l1, l1 = ListAddAfter(l, RowHead(e), r),
         NEW rs1, Pushed(rs, e, r, rs1)
  PROVE  /\ l1 \in Links(Node)
         /\ Blocks(u \cup {r}, q, m, c, rs1)
         /\ RowRings(l1, Kept(q, m, c), rs1)
         /\ Ring(l, Current, q) => Ring(l1, Current, q)
         /\ Ring(l, Entries, m) => Ring(l1, Entries, m)
<1>. DEFINE K == Kept(q, m, c)
            X == {RowHead(e), r} \cup Image(rs[e])
<1>1. /\ q \in Seq(Block) /\ m \in Seq(Block) /\ rs \in [Block -> Seq(Block)]
      /\ Image(q) \subseteq Block /\ Image(m) \subseteq Block /\ c \subseteq Block
      /\ K \subseteq Block /\ e \in Block
      /\ r \notin K /\ \A f \in Block : r \notin Image(rs[f])
      /\ \A f \in Block : Image(rs[f]) \subseteq Block
  BY BlockList DEF Blocks, Kept
<1>2. /\ rs1 \in [Block -> Seq(Block)]
      /\ rs1[e] = <<r>> \o rs[e] /\ Image(rs1[e]) = Image(rs[e]) \cup {r}
      /\ \A f \in Block \ {e} : rs1[f] = rs[f]
  <2>1. rs[e] \in Seq(Block)
    BY <1>1
  <2>2. /\ <<r>> \o rs[e] \in Seq(Block)
        /\ Image(<<r>> \o rs[e]) = Image(rs[e]) \cup {r}
    BY <2>1, ImageOf
  <2>. QED  BY <1>1, <2>2 DEF RowMap, Pushed
<1>3. Blocks(u \cup {r}, q, m, c, rs1)
  <2>1. \A b \in Block : b \in u \cup {r} <=> b \in K \/ \E f \in Block : b \in Image(rs1[f])
    <3>. TAKE b \in Block
    <3>1. b \in u <=> b \in K \/ \E f \in Block : b \in Image(rs[f])
      BY DEF Blocks
    <3>2. (\E f \in Block : b \in Image(rs1[f])) <=> b = r \/ \E f \in Block : b \in Image(rs[f])
      BY <1>1, <1>2
    <3>. QED  BY <3>1, <3>2
  <2>2. \A f \in Block : Image(rs1[f]) \cap K = {}
    <3>. TAKE f \in Block
    <3>1. Image(rs[f]) \cap K = {}
      BY DEF Blocks
    <3>2. CASE f = e
      BY <1>1, <1>2, <3>1, <3>2
    <3>3. CASE f # e
      <4>1. rs1[f] = rs[f]
        BY <1>2, <3>3
      <4>. QED  BY <3>1, <4>1
    <3>. QED  BY <3>2, <3>3
  <2>3. \A f, g \in Block : f # g => Image(rs1[f]) \cap Image(rs1[g]) = {}
    <3>. SUFFICES ASSUME NEW f \in Block, NEW g \in Block, f # g
                  PROVE  Image(rs1[f]) \cap Image(rs1[g]) = {}
      OBVIOUS
    <3>1. Image(rs[f]) \cap Image(rs[g]) = {}
      BY DEF Blocks
    <3>2. \A x \in Block : x # e => rs1[x] = rs[x] /\ r \notin Image(rs[x])
      BY <1>1, <1>2
    <3>3. CASE f = e
      <4>1. rs1[g] = rs[g] /\ r \notin Image(rs[g])
        BY <3>2, <3>3
      <4>. QED  BY <1>2, <3>1, <3>3, <4>1
    <3>4. CASE g = e
      <4>1. rs1[f] = rs[f] /\ r \notin Image(rs[f])
        BY <3>2, <3>4
      <4>. QED  BY <1>2, <3>1, <3>4, <4>1
    <3>5. CASE f # e /\ g # e
      <4>1. rs1[f] = rs[f] /\ rs1[g] = rs[g]
        BY <3>2, <3>5
      <4>. QED  BY <3>1, <4>1
    <3>. QED  BY <3>3, <3>4, <3>5
  <2>4. \A f \in Block \ K : rs1[f] = <<>>
    BY <1>1, <1>2 DEF Blocks
  <2>. QED  BY <1>1, <1>2, <2>1, <2>2, <2>3, <2>4 DEF Blocks
<1>4. /\ l1 \in Links(Node) /\ Ring(l1, RowHead(e), rs1[e])
      /\ \A n \in Node \ X : l1.next[n] = l.next[n] /\ l1.prev[n] = l.prev[n]
  <2>1. rs[e] \in Seq(Block)
    BY <1>1
  <2>2. /\ rs[e] \in Seq(Node) /\ Nodes(RowHead(e), rs[e]) = {RowHead(e)} \cup Image(rs[e])
    BY <2>1, BlockList
  <2>3. RowHead(e) \in Node /\ r \in Node \ Nodes(RowHead(e), rs[e])
    BY <1>1, <2>2, Heads
  <2>4. Ring(l, RowHead(e), rs[e])
    BY DEF RowRings
  <2>5. /\ l1 \in Links(Node) /\ Ring(l1, RowHead(e), <<r>> \o rs[e])
        /\ \A n \in Node \ (Nodes(RowHead(e), rs[e]) \cup {r}) :
             l1.next[n] = l.next[n] /\ l1.prev[n] = l.prev[n]
    BY <2>2, <2>3, <2>4, AddAfterRing
  <2>. QED  BY <1>2, <2>2, <2>5
<1>. HIDE DEF K
<1>5. RowRings(l1, K, rs1)
  <2>1. \A f \in K \ {e} : \A n \in {RowHead(f)} \cup Image(rs1[f]) :
          l1.next[n] = l.next[n] /\ l1.prev[n] = l.prev[n]
    <3>. TAKE f \in K \ {e}
    <3>1. f \in Block /\ rs1[f] = rs[f]
      BY <1>1, <1>2
    <3>2. Image(rs[f]) \cap Image(rs[e]) = {}
      BY <1>1, <3>1 DEF Blocks
    <3>3. RowHead(f) \in Node \ X /\ Image(rs[f]) \subseteq Node \ X
      BY <1>1, <3>1, <3>2, Heads
    <3>. QED  BY <1>4, <3>1, <3>3
  <2>2. RowRings(l, K \ {e}, rs1) /\ K \ {e} \in SUBSET Block
    BY <1>1, <1>2 DEF RowRings, K
  <2>. HIDE DEF X
  <2>3. rs1 \in RowMap
    BY DEF Pushed
  <2>4. RowRings(l1, K \ {e}, rs1)
    BY <2>1, <2>2, <2>3, RowsUntouched
  <2>. QED  BY <1>4, <2>4 DEF RowRings
<1>6. Ring(l, Current, q) => Ring(l1, Current, q)
  <2>1. Image(rs[e]) \cap Image(q) = {}
    BY <1>1 DEF Blocks, Kept
  <2>2. \A n \in {Current} \cup Image(q) : n \in Node \ X
    BY <1>1, <2>1, Heads DEF Kept, K
  <2>3. \A n \in {Current} \cup Image(q) : l1.next[n] = l.next[n] /\ l1.prev[n] = l.prev[n]
    BY <1>4, <2>2
  <2>4. Current \in Node /\ q \in Seq(Block)
    BY <1>1, Heads
  <2>. HIDE DEF X
  <2>. QED  BY <2>3, <2>4, Untouched
<1>7. Ring(l, Entries, m) => Ring(l1, Entries, m)
  <2>1. Image(rs[e]) \cap Image(m) = {}
    BY <1>1 DEF Blocks, Kept
  <2>2. \A n \in {Entries} \cup Image(m) : n \in Node \ X
    BY <1>1, <2>1, Heads DEF Kept, K
  <2>3. \A n \in {Entries} \cup Image(m) : l1.next[n] = l.next[n] /\ l1.prev[n] = l.prev[n]
    BY <1>4, <2>2
  <2>4. Entries \in Node /\ m \in Seq(Block)
    BY <1>1, Heads
  <2>. HIDE DEF X
  <2>. QED  BY <2>3, <2>4, Untouched
<1>. QED  BY <1>3, <1>4, <1>5, <1>6, <1>7 DEF K

\* The four writes of the hand-over move the whole list to the other head.
LEMMA SpliceRing ==
  ASSUME NEW l \in Links(Node), NEW q \in Seq(Block), Ring(l, Current, q),
         NEW r, r = Spliced(l)
  PROVE  /\ r \in Links(Node)
         /\ Ring(r, Current, <<>>) /\ Ring(r, Entries, q)
         /\ \A n \in Node \ ({Current, Entries} \cup Image(q)) :
              r.next[n] = l.next[n] /\ r.prev[n] = l.prev[n]
<1>. DEFINE head == ListInit(l, Entries)
            k == Len(q)
<1>1. /\ l.next \in [Node -> Node] /\ l.prev \in [Node -> Node]
      /\ Current \in Node /\ Entries \in Node /\ Current # Entries
  BY Heads DEF Links
<1>2. /\ head.next = [l.next EXCEPT ![Entries] = Entries]
      /\ head.prev = [l.prev EXCEPT ![Entries] = Entries]
  BY DEF ListInit
<1>3. /\ q \in Seq(Node) /\ k \in Nat /\ Image(q) \subseteq Block
      /\ \A i \in 1 .. k : q[i] \in Image(q) /\ q[i] \in Node /\ q[i] # Current /\ q[i] # Entries
  BY BlockList, Heads
<1>4. /\ q = <<>> => l.next[Current] = Current /\ l.prev[Current] = Current
      /\ q # <<>> => l.next[Current] = q[1] /\ l.prev[Current] = q[k] /\ 1 \in 1 .. k /\ k \in 1 .. k
  <2>1. /\ l.next[Current] = Current <=> q = <<>>
        /\ q # <<>> => l.next[Current] = q[1] /\ l.prev[Current] = q[Len(q)]
        /\ l.prev[Current] = At(Current, q, Len(q))
    BY <1>1, <1>3, RingEnds
  <2>2. q = <<>> => At(Current, q, Len(q)) = Current
    BY DEF At
  <2>. QED  BY <1>3, <2>1, <2>2, BlockList
<1>5. CASE q = <<>>
  <2>1. r = ListInit(head, Current)
    <3>1. head.next[Current] = Current /\ head.prev[Current] = Current
      BY <1>1, <1>2, <1>4, <1>5
    <3>. HIDE DEF head
    <3>. QED  BY <3>1 DEF Spliced, head
  <2>2. /\ head \in Links(Node) /\ Ring(head, Entries, <<>>)
        /\ \A n \in Node \ {Entries} : head.next[n] = l.next[n] /\ head.prev[n] = l.prev[n]
    BY <1>1, InitRing
  <2>. HIDE DEF head
  <2>3. /\ r \in Links(Node) /\ Ring(r, Current, <<>>)
        /\ \A n \in Node \ {Current} : r.next[n] = head.next[n] /\ r.prev[n] = head.prev[n]
    <3>1. head \in Links(Node) /\ Current \in Node
      BY <1>1, <2>2
    <3>. QED  BY <2>1, <3>1, InitRing
  <2>4. Ring(r, Entries, q)
    <3>1. \A n \in {Entries} \cup Image(q) : r.next[n] = head.next[n] /\ r.prev[n] = head.prev[n]
      BY <1>1, <1>5, <2>3, BlockList
    <3>2. Ring(head, Entries, q)
      BY <1>5, <2>2
    <3>. QED  BY <1>1, <3>1, <3>2, Untouched
  <2>. QED  BY <2>2, <2>3, <2>4
<1>6. CASE q # <<>>
  <2>. DEFINE a == q[1]
              z == q[k]
  <2>1. /\ a \in Node /\ z \in Node /\ a \in Image(q) /\ z \in Image(q)
        /\ a # Current /\ a # Entries /\ z # Current /\ z # Entries
    BY <1>3, <1>4, <1>6
  <2>2. /\ r.next = [[[head.next EXCEPT ![Entries] = a] EXCEPT ![z] = Entries] EXCEPT ![Current] = Current]
        /\ r.prev = [[[head.prev EXCEPT ![a] = Entries] EXCEPT ![Entries] = z] EXCEPT ![Current] = Current]
    <3>. DEFINE l1 == [next |-> [head.next EXCEPT ![Entries] = a],
                       prev |-> [head.prev EXCEPT ![a] = Entries]]
                l2 == [next |-> [l1.next EXCEPT ![z] = Entries],
                       prev |-> [l1.prev EXCEPT ![Entries] = z]]
    <3>1. head.next[Current] = a
      BY <1>1, <1>2, <1>4, <1>6
    <3>2. l1.prev[Current] = z
      BY <1>1, <1>2, <1>4, <1>6, <2>1
    <3>3. r = ListInit(l2, Current)
      <4>. HIDE DEF head
      <4>. QED  BY <2>1, <3>1, <3>2 DEF Spliced, head
    <3>. HIDE DEF head
    <3>. QED  BY <3>3 DEF ListInit
  <2>. HIDE DEF head, a, z
  <2>3. /\ r.next[Entries] = a /\ r.next[z] = Entries /\ r.next[Current] = Current
        /\ r.prev[Entries] = z /\ r.prev[a] = Entries /\ r.prev[Current] = Current
        /\ \A n \in Node \ {Entries, z, Current} : r.next[n] = l.next[n]
        /\ \A n \in Node \ {Entries, a, Current} : r.prev[n] = l.prev[n]
    BY <1>1, <1>2, <2>1, <2>2
  <2>4. r \in Links(Node)
    <3>1. r.next \in [Node -> Node] /\ r.prev \in [Node -> Node]
      BY <1>1, <1>2, <2>1, <2>2
    <3>2. r = [next |-> r.next, prev |-> r.prev]
      BY DEF Spliced, ListInit
    <3>. QED  BY <3>1, <3>2 DEF Links
  <2>5. Ring(r, Current, <<>>)
    <3>1. \A i \in 0 .. 1 : At(Current, <<>>, i) = Current
      BY DEF At
    <3>. QED  BY <2>3, <3>1 DEF Ring
  <2>6. Ring(r, Entries, q)
    <3>1. /\ \A i \in 1 .. k : At(Entries, q, i) = q[i] /\ At(Current, q, i) = q[i]
          /\ At(Entries, q, 0) = Entries /\ At(Entries, q, k + 1) = Entries
      BY <1>3 DEF At
    <3>2. ASSUME NEW i \in 0 .. k
          PROVE  /\ r.next[At(Entries, q, i)] = At(Entries, q, i + 1)
                 /\ r.prev[At(Entries, q, i + 1)] = At(Entries, q, i)
      <4>1. r.next[At(Entries, q, i)] = At(Entries, q, i + 1)
        <5>1. CASE i = 0
          BY <1>3, <1>4, <1>6, <2>3, <3>1, <5>1 DEF a
        <5>2. CASE i = k
          BY <1>3, <1>4, <1>6, <2>3, <3>1, <5>2 DEF z
        <5>3. CASE i # 0 /\ i # k
          <6>1. i \in 1 .. k /\ i + 1 \in 1 .. k /\ k \in 1 .. k
            BY <1>3, <5>3
          <6>2. l.next[q[i]] = q[i + 1]
            BY <3>1, <6>1 DEF Ring
          <6>3. q[i] # z
            BY <5>3, <6>1 DEF Ring, z
          <6>. QED  BY <1>3, <2>3, <3>1, <6>1, <6>2, <6>3
        <5>. QED  BY <5>1, <5>2, <5>3
      <4>2. r.prev[At(Entries, q, i + 1)] = At(Entries, q, i)
        <5>1. CASE i = 0
          BY <1>3, <1>4, <1>6, <2>3, <3>1, <5>1 DEF a
        <5>2. CASE i = k
          BY <1>3, <1>4, <1>6, <2>3, <3>1, <5>2 DEF z
        <5>3. CASE i # 0 /\ i # k
          <6>1. i \in 1 .. k /\ i + 1 \in 1 .. k /\ 1 \in 1 .. k
            BY <1>3, <5>3
          <6>2. l.prev[q[i + 1]] = q[i]
            BY <3>1, <6>1 DEF Ring
          <6>3. q[i + 1] # a
            <7>1. q[i + 1] = q[1] => i + 1 = 1
              BY <6>1 DEF Ring
            <7>. QED  BY <5>3, <7>1 DEF a
          <6>. QED  BY <1>3, <2>3, <3>1, <6>1, <6>2, <6>3
        <5>. QED  BY <5>1, <5>2, <5>3
      <4>. QED  BY <4>1, <4>2
    <3>3. /\ \A i \in 1 .. Len(q) : q[i] # Entries
          /\ \A i, j \in 1 .. Len(q) : q[i] = q[j] => i = j
      BY <1>3 DEF Ring
    <3>. QED  BY <3>2, <3>3 DEF Ring
  <2>. QED  BY <2>1, <2>3, <2>4, <2>5, <2>6
<1>. QED  BY <1>5, <1>6

\* The first entry of the list taken over is taken out.
LEMMA EntryTaken ==
  ASSUME NEW l \in Links(Node), NEW u, NEW q, NEW m, NEW rs,
         Blocks(u, q, m, {}, rs), RowRings(l, Kept(q, m, {}), rs), Ring(l, Entries, m),
         m # <<>>, NEW l1, l1 = ListRemove(l, m[1])
  PROVE  /\ l1 \in Links(Node)
         /\ Blocks(u, q, Tail(m), {m[1]}, rs)
         /\ RowRings(l1, Kept(q, Tail(m), {m[1]}), rs)
         /\ Ring(l1, Entries, Tail(m))
         /\ Ring(l, Current, q) => Ring(l1, Current, q)
<1>. DEFINE b == m[1]
            t == Tail(m)
            K == Kept(q, m, {})
<1>1. /\ q \in Seq(Block) /\ m \in Seq(Block) /\ rs \in [Block -> Seq(Block)]
      /\ Image(q) \subseteq Block /\ Image(m) \subseteq Block /\ K \subseteq Block
      /\ b \in Block /\ b \in Image(m)
      /\ \A f \in Block : Image(rs[f]) \subseteq Block /\ Image(rs[f]) \cap K = {}
  BY BlockList DEF Blocks, Kept
<1>2. t \in Seq(Block) /\ Image(m) = Image(t) \cup {b}
  BY <1>1, ImageOf
<1>3. b \notin Image(t)
  BY <1>1, FirstOnce
<1>. HIDE DEF t, b
<1>4. Kept(q, t, {b}) = K
  BY <1>2 DEF Kept
<1>5. Blocks(u, q, t, {b}, rs)
  <2>1. /\ Image(q) \cap Image(t) = {} /\ {b} \cap (Image(q) \cup Image(t)) = {}
    BY <1>1, <1>2, <1>3 DEF Blocks
  <2>. QED  BY <1>1, <1>2, <1>4, <2>1 DEF Blocks
<1>6. /\ l1 \in Links(Node) /\ Ring(l1, Entries, t)
      /\ \A n \in Node \ ({Entries} \cup Image(m)) : l1.next[n] = l.next[n] /\ l1.prev[n] = l.prev[n]
  <2>1. /\ m \in Seq(Node) /\ Nodes(Entries, m) = {Entries} \cup Image(m) /\ Entries \in Node
    BY <1>1, BlockList, Heads
  <2>2. /\ l1 \in Links(Node) /\ Ring(l1, Entries, t)
        /\ \A n \in Node \ Nodes(Entries, m) : l1.next[n] = l.next[n] /\ l1.prev[n] = l.prev[n]
    BY <2>1, RemoveRing DEF t
  <2>. QED  BY <2>1, <2>2
<1>7. RowRings(l1, K, rs)
  <2>1. \A f \in K : \A n \in {RowHead(f)} \cup Image(rs[f]) :
          l1.next[n] = l.next[n] /\ l1.prev[n] = l.prev[n]
    <3>. TAKE f \in K
    <3>1. Image(rs[f]) \cap Image(m) = {}
      BY <1>1 DEF Kept
    <3>. QED  BY <1>1, <1>6, <3>1, Heads
  <2>2. K \in SUBSET Block /\ RowRings(l, K, rs) /\ rs \in RowMap
    BY <1>1 DEF RowMap
  <2>. HIDE DEF K
  <2>. QED  BY <2>1, <2>2, RowsUntouched
<1>8. Ring(l, Current, q) => Ring(l1, Current, q)
  <2>1. Image(q) \cap Image(m) = {}
    BY DEF Blocks
  <2>2. \A n \in {Current} \cup Image(q) : l1.next[n] = l.next[n] /\ l1.prev[n] = l.prev[n]
    BY <1>1, <1>6, <2>1, Heads
  <2>3. Current \in Node /\ q \in Seq(Block)
    BY <1>1, Heads
  <2>. QED  BY <2>2, <2>3, Untouched
<1>. QED  BY <1>4, <1>5, <1>6, <1>7, <1>8 DEF b, t

\* What is freed is forgotten, the rest is as before.
LEMMA FreedFrame ==
  ASSUME NEW l \in Links(Node), NEW S
  PROVE  /\ Freed(l, S) \in Links(Node)
         /\ \A n \in Node \ S : /\ Freed(l, S).next[n] = l.next[n]
                                /\ Freed(l, S).prev[n] = l.prev[n]
<1>1. l.next \in [Node -> Node] /\ l.prev \in [Node -> Node] /\ Nowhere \in Node
  BY DEF Links, Node, Fixed
<1>2. \A f \in [Node -> Node] :
        Gone(f, S) \in [Node -> Node] /\ \A n \in Node \ S : Gone(f, S)[n] = f[n]
  BY <1>1 DEF Gone
<1>. QED  BY <1>1, <1>2 DEF Freed, Links

\* The first row of an entry that is no longer listed is freed.
LEMMA RowFreed ==
  ASSUME NEW l \in Links(Node), NEW u, NEW q, NEW m, NEW c \in Block, NEW rs,
         Blocks(u, q, m, {c}, rs), RowRings(l, Kept(q, m, {c}), rs),
         NEW r, NEW rs1, Popped(rs, c, r, rs1),
         NEW l1, l1 = Freed(ListRemove(l, r), {r})
  PROVE  /\ l1 \in Links(Node)
         /\ Blocks(u \ {r}, q, m, {c}, rs1)
         /\ RowRings(l1, Kept(q, m, {c}), rs1)
         /\ Ring(l, Current, q) => Ring(l1, Current, q)
         /\ Ring(l, Entries, m) => Ring(l1, Entries, m)
<1>. DEFINE K == Kept(q, m, {c})
            t == Tail(rs[c])
            X == {RowHead(c)} \cup Image(rs[c])
            l0 == ListRemove(l, r)
<1>1. /\ q \in Seq(Block) /\ m \in Seq(Block) /\ rs \in [Block -> Seq(Block)]
      /\ Image(q) \subseteq Block /\ Image(m) \subseteq Block
      /\ K \subseteq Block /\ c \in K /\ rs[c] \in Seq(Block)
      /\ \A f \in Block : Image(rs[f]) \subseteq Block /\ Image(rs[f]) \cap K = {}
      /\ rs[c] # <<>> /\ r = rs[c][1]
  BY BlockList DEF Blocks, Kept, Popped
<1>2. Ring(l, RowHead(c), rs[c])
  BY <1>1 DEF RowRings
<1>3. /\ r \in Block /\ r \in Image(rs[c])
      /\ t \in Seq(Block) /\ Image(rs[c]) = Image(t) \cup {r}
  BY <1>1, BlockList, ImageOf
<1>4. r \notin Image(t)
  <2>. DEFINE s == rs[c]
  <2>1. s \in Seq(Block) /\ s # <<>> /\ Ring(l, RowHead(c), s) /\ r = s[1]
    BY <1>1, <1>2
  <2>. HIDE DEF s
  <2>2. r \notin Image(Tail(s))
    BY <2>1, FirstOnce
  <2>. QED  BY <2>2 DEF s
<1>5. /\ rs1 \in [Block -> Seq(Block)] /\ rs1[c] = t
      /\ \A f \in Block \ {c} : rs1[f] = rs[f]
  BY DEF RowMap, Popped
<1>6. /\ l0 \in Links(Node) /\ Ring(l0, RowHead(c), t)
      /\ \A n \in Node \ X : l0.next[n] = l.next[n] /\ l0.prev[n] = l.prev[n]
  <2>1. /\ rs[c] \in Seq(Node) /\ Nodes(RowHead(c), rs[c]) = X /\ RowHead(c) \in Node
    BY <1>1, BlockList, Heads
  <2>2. /\ l0 \in Links(Node) /\ Ring(l0, RowHead(c), t)
        /\ \A n \in Node \ Nodes(RowHead(c), rs[c]) :
             l0.next[n] = l.next[n] /\ l0.prev[n] = l.prev[n]
    <3>. DEFINE s == rs[c]
    <3>1. s \in Seq(Node) /\ s # <<>> /\ Ring(l, RowHead(c), s) /\ r = s[1] /\ RowHead(c) \in Node
      BY <1>1, <1>2, <2>1
    <3>. HIDE DEF s
    <3>2. /\ ListRemove(l, s[1]) \in Links(Node)
          /\ Ring(ListRemove(l, s[1]), RowHead(c), Tail(s))
          /\ \A n \in Node \ Nodes(RowHead(c), s) :
               /\ ListRemove(l, s[1]).next[n] = l.next[n]
               /\ ListRemove(l, s[1]).prev[n] = l.prev[n]
      BY <3>1, RemoveRing
    <3>. QED  BY <3>1, <3>2 DEF s
  <2>. QED  BY <2>1, <2>2
<1>. HIDE DEF t, l0
<1>7. /\ l1 \in Links(Node)
      /\ \A n \in Node \ {r} : l1.next[n] = l0.next[n] /\ l1.prev[n] = l0.prev[n]
  BY <1>6, FreedFrame DEF l0
<1>8. \A n \in Node \ X : l1.next[n] = l.next[n] /\ l1.prev[n] = l.prev[n]
  BY <1>3, <1>6, <1>7
<1>9. Ring(l1, RowHead(c), t)
  <2>1. \A n \in {RowHead(c)} \cup Image(t) : l1.next[n] = l0.next[n] /\ l1.prev[n] = l0.prev[n]
    BY <1>1, <1>3, <1>4, <1>7, Heads
  <2>2. RowHead(c) \in Node /\ t \in Seq(Block) /\ Ring(l0, RowHead(c), t)
    BY <1>3, <1>6, Heads
  <2>. HIDE DEF X
  <2>. QED  BY <2>1, <2>2, Untouched
<1>10. Blocks(u \ {r}, q, m, {c}, rs1)
  <2>0. \A f \in Block \ {c} : r \notin Image(rs[f]) /\ Image(rs[f]) \cap Image(rs[c]) = {}
    BY <1>3 DEF Blocks
  <2>1. \A b \in Block : b \in u \ {r} <=> b \in K \/ \E f \in Block : b \in Image(rs1[f])
    <3>. TAKE b \in Block
    <3>1. b \in u <=> b \in K \/ \E f \in Block : b \in Image(rs[f])
      BY DEF Blocks
    <3>2. (\E f \in Block : b \in Image(rs1[f])) <=> b # r /\ \E f \in Block : b \in Image(rs[f])
      BY <1>1, <1>3, <1>4, <1>5, <2>0
    <3>3. r \notin K
      BY <1>1, <1>3
    <3>. QED  BY <3>1, <3>2, <3>3
  <2>2. \A f \in Block : Image(rs1[f]) \cap K = {}
    BY <1>1, <1>3, <1>5
  <2>3. \A f, g \in Block : f # g => Image(rs1[f]) \cap Image(rs1[g]) = {}
    <3>. SUFFICES ASSUME NEW f \in Block, NEW g \in Block, f # g
                  PROVE  Image(rs1[f]) \cap Image(rs1[g]) = {}
      OBVIOUS
    <3>1. Image(rs[f]) \cap Image(rs[g]) = {}
      BY DEF Blocks
    <3>2. Image(rs1[f]) \subseteq Image(rs[f]) /\ Image(rs1[g]) \subseteq Image(rs[g])
      <4>1. \A x \in Block : Image(rs1[x]) \subseteq Image(rs[x])
        <5>. TAKE x \in Block
        <5>1. x = c \/ rs1[x] = rs[x]
          BY <1>5
        <5>. QED  BY <1>3, <1>5, <5>1
      <4>. QED  BY <4>1
    <3>. QED  BY <3>1, <3>2
  <2>4. \A f \in Block \ K : rs1[f] = <<>>
    BY <1>1, <1>5 DEF Blocks
  <2>5. /\ u \ {r} \subseteq Block /\ {c} \subseteq Block
        /\ Image(q) \cap Image(m) = {} /\ {c} \cap (Image(q) \cup Image(m)) = {}
    BY DEF Blocks
  <2>. HIDE DEF K
  <2>. QED  BY <1>1, <1>5, <2>1, <2>2, <2>3, <2>4, <2>5 DEF Blocks, K
<1>11. RowRings(l1, K, rs1)
  <2>1. \A f \in K \ {c} : \A n \in {RowHead(f)} \cup Image(rs[f]) :
          l1.next[n] = l.next[n] /\ l1.prev[n] = l.prev[n]
    <3>. TAKE f \in K \ {c}
    <3>1. f \in Block
      BY <1>1
    <3>2. Image(rs[f]) \cap Image(rs[c]) = {}
      BY <3>1 DEF Blocks
    <3>3. RowHead(f) \in Node \ X /\ Image(rs[f]) \subseteq Node \ X
      BY <1>1, <3>1, <3>2, Heads
    <3>. QED  BY <1>8, <3>1, <3>3
  <2>. HIDE DEF X, K
  <2>2. RowRings(l, K \ {c}, rs) /\ K \ {c} \in SUBSET Block
    BY <1>1 DEF RowRings, K
  <2>3. RowRings(l1, K \ {c}, rs)
    <3>. DEFINE Y == K \ {c}
    <3>1. \A f \in Y : \A n \in {RowHead(f)} \cup Image(rs[f]) :
            l1.next[n] = l.next[n] /\ l1.prev[n] = l.prev[n]
      BY <2>1
    <3>2. Y \in SUBSET Block /\ RowRings(l, Y, rs) /\ rs \in RowMap
      BY <1>1, <2>2 DEF RowMap
    <3>. HIDE DEF Y
    <3>3. RowRings(l1, Y, rs)
      BY <3>1, <3>2, RowsUntouched
    <3>. QED  BY <3>3 DEF Y
  <2>. QED  BY <1>1, <1>5, <1>9, <2>3 DEF RowRings
<1>12. Ring(l, Current, q) => Ring(l1, Current, q)
  <2>1. Image(rs[c]) \cap Image(q) = {}
    BY <1>1 DEF Kept
  <2>2. \A n \in {Current} \cup Image(q) : n \in Node \ X
    BY <1>1, <2>1, Heads
  <2>3. \A n \in {Current} \cup Image(q) : l1.next[n] = l.next[n] /\ l1.prev[n] = l.prev[n]
    BY <1>8, <2>2
  <2>4. Current \in Node /\ q \in Seq(Block)
    BY <1>1, Heads
  <2>. HIDE DEF X
  <2>. QED  BY <2>3, <2>4, Untouched
<1>13. Ring(l, Entries, m) => Ring(l1, Entries, m)
  <2>1. Image(rs[c]) \cap Image(m) = {}
    BY <1>1 DEF Kept
  <2>2. \A n \in {Entries} \cup Image(m) : n \in Node \ X
    BY <1>1, <2>1, Heads
  <2>3. \A n \in {Entries} \cup Image(m) : l1.next[n] = l.next[n] /\ l1.prev[n] = l.prev[n]
    BY <1>8, <2>2
  <2>4. Entries \in Node /\ m \in Seq(Block)
    BY <1>1, Heads
  <2>. HIDE DEF X
  <2>. QED  BY <2>3, <2>4, Untouched
<1>. QED  BY <1>7, <1>10, <1>11, <1>12, <1>13

\* An entry without rows that is no longer listed is freed.
LEMMA EntryFreed ==
  ASSUME NEW l \in Links(Node), NEW u, NEW q, NEW m, NEW c \in Block, NEW rs,
         Blocks(u, q, m, {c}, rs), RowRings(l, Kept(q, m, {c}), rs), rs[c] = <<>>,
         NEW l1, l1 = Freed(l, {c, RowHead(c)})
  PROVE  /\ l1 \in Links(Node)
         /\ Blocks(u \ {c}, q, m, {}, rs)
         /\ RowRings(l1, Kept(q, m, {}), rs)
         /\ Ring(l, Current, q) => Ring(l1, Current, q)
         /\ Ring(l, Entries, m) => Ring(l1, Entries, m)
<1>. DEFINE K == Kept(q, m, {})
<1>1. /\ q \in Seq(Block) /\ m \in Seq(Block) /\ rs \in [Block -> Seq(Block)]
      /\ Image(q) \subseteq Block /\ Image(m) \subseteq Block /\ K \subseteq Block
      /\ c \notin Image(q) /\ c \notin Image(m) /\ c \notin K
      /\ Kept(q, m, {c}) = K \cup {c}
      /\ \A f \in Block : Image(rs[f]) \subseteq Block /\ Image(rs[f]) \cap (K \cup {c}) = {}
  BY BlockList DEF Blocks, Kept
<1>. HIDE DEF K
<1>2. /\ l1 \in Links(Node)
      /\ \A n \in Node \ {c, RowHead(c)} : l1.next[n] = l.next[n] /\ l1.prev[n] = l.prev[n]
  BY FreedFrame
<1>3. Blocks(u \ {c}, q, m, {}, rs)
  <2>1. \A b \in Block : b \in u \ {c} <=> b \in K \/ \E f \in Block : b \in Image(rs[f])
    BY <1>1 DEF Blocks
  <2>2. \A f \in Block \ K : rs[f] = <<>>
    BY <1>1 DEF Blocks
  <2>. QED  BY <1>1, <2>1, <2>2 DEF Blocks, K
<1>4. RowRings(l1, K, rs)
  <2>1. \A f \in K : \A n \in {RowHead(f)} \cup Image(rs[f]) :
          l1.next[n] = l.next[n] /\ l1.prev[n] = l.prev[n]
    <3>. TAKE f \in K
    <3>1. f \in Block /\ f # c /\ Image(rs[f]) \subseteq Block /\ c \notin Image(rs[f])
      BY <1>1
    <3>2. \A n \in {RowHead(f)} \cup Image(rs[f]) : n \in Node \ {c, RowHead(c)}
      BY <3>1, Heads
    <3>. QED  BY <1>2, <3>2
  <2>2. K \in SUBSET Block /\ RowRings(l, K, rs) /\ rs \in RowMap
    BY <1>1 DEF RowRings, RowMap
  <2>. QED  BY <2>1, <2>2, RowsUntouched
<1>5. Ring(l, Current, q) => Ring(l1, Current, q)
  <2>1. \A n \in {Current} \cup Image(q) : l1.next[n] = l.next[n] /\ l1.prev[n] = l.prev[n]
    <3>1. \A n \in {Current} \cup Image(q) : n \in Node \ {c, RowHead(c)}
      BY <1>1, Heads
    <3>. QED  BY <1>2, <3>1
  <2>2. Current \in Node /\ q \in Seq(Block)
    BY <1>1, Heads
  <2>. QED  BY <2>1, <2>2, Untouched
<1>6. Ring(l, Entries, m) => Ring(l1, Entries, m)
  <2>1. \A n \in {Entries} \cup Image(m) : l1.next[n] = l.next[n] /\ l1.prev[n] = l.prev[n]
    <3>1. \A n \in {Entries} \cup Image(m) : n \in Node \ {c, RowHead(c)}
      BY <1>1, Heads
    <3>. QED  BY <1>2, <3>1
  <2>2. Entries \in Node /\ m \in Seq(Block)
    BY <1>1, Heads
  <2>. QED  BY <2>1, <2>2, Untouched
<1>. QED  BY <1>2, <1>3, <1>4, <1>5, <1>6 DEF K

\* The whole list is taken over: the rows of its entries stay with them.
LEMMA ListTaken ==
  ASSUME NEW l \in Links(Node), NEW u, NEW q, NEW rs,
         Blocks(u, q, <<>>, {}, rs), RowRings(l, Kept(q, <<>>, {}), rs), Ring(l, Current, q),
         NEW l1, l1 = Spliced(l)
  PROVE  /\ l1 \in Links(Node)
         /\ Blocks(u, <<>>, q, {}, rs)
         /\ RowRings(l1, Kept(<<>>, q, {}), rs)
         /\ Ring(l1, Current, <<>>)
         /\ Ring(l1, Entries, q)
<1>. DEFINE K == Kept(q, <<>>, {})
<1>1. /\ q \in Seq(Block) /\ rs \in [Block -> Seq(Block)] /\ rs \in RowMap
      /\ Image(q) \subseteq Block /\ K \subseteq Block /\ Image(q) \subseteq K
      /\ \A f \in Block : Image(rs[f]) \subseteq Block /\ Image(rs[f]) \cap K = {}
  BY BlockList DEF Blocks, Kept, RowMap
<1>2. Kept(<<>>, q, {}) = K
  BY DEF Kept
<1>3. Blocks(u, <<>>, q, {}, rs)
  <2>1. Image(<<>>) \cap Image(q) = {} /\ <<>> \in Seq(Block)
    BY <1>1, BlockList
  <2>. QED  BY <1>1, <1>2, <2>1 DEF Blocks
<1>4. /\ l1 \in Links(Node)
      /\ Ring(l1, Current, <<>>) /\ Ring(l1, Entries, q)
      /\ \A n \in Node \ ({Current, Entries} \cup Image(q)) :
           l1.next[n] = l.next[n] /\ l1.prev[n] = l.prev[n]
  BY <1>1, SpliceRing
<1>5. RowRings(l1, K, rs)
  <2>1. \A f \in K : \A n \in {RowHead(f)} \cup Image(rs[f]) :
          l1.next[n] = l.next[n] /\ l1.prev[n] = l.prev[n]
    <3>. TAKE f \in K
    <3>1. Image(rs[f]) \cap Image(q) = {}
      BY <1>1
    <3>2. \A n \in {RowHead(f)} \cup Image(rs[f]) :
            n \in Node \ ({Current, Entries} \cup Image(q))
      BY <1>1, <3>1, Heads
    <3>. QED  BY <1>4, <3>2
  <2>2. K \in SUBSET Block /\ RowRings(l, K, rs) /\ rs \in RowMap
    BY <1>1
  <2>. HIDE DEF K
  <2>. QED  BY <2>1, <2>2, RowsUntouched
<1>. QED  BY <1>2, <1>3, <1>4, <1>5

-----------------------------------------------------------------------------
(* The inductive invariant of the heap, and what follows from it.           *)

\* The entry that is taken out and not yet freed.
Freeing == IF workerPc = "free" THEN {cur} ELSE {}

\* When main() has the list in memory, and when the dump thread has one.
Shares == mainPc \in {"run", "join", "free"}
Holds == workerPc \in {"open", "walk", "free"}

\* The inductive invariant: what is allocated is in the lists the pointers spell
\* out, and the walk is where it should be.
HInv ==
  /\ link \in Links(Node)
  /\ owner \in [Block -> Pid \cup Tid \cup {Nowhere}]
  /\ Blocks(used, queue, mine, Freeing, rows)
  /\ RowRings(link, Kept(queue, mine, Freeing), rows)
  /\ IF Shares THEN Ring(link, Current, queue) ELSE queue = <<>>
  /\ IF Holds THEN Ring(link, Entries, mine) ELSE mine = <<>>
  /\ workerPc = "walk" => cur = At(Entries, mine, 1) /\ nxt = At(Entries, mine, 2)
  /\ workerPc = "free" => nxt = At(Entries, mine, 1)

\* Nothing is allocated at first.
LEMMA HeapInit == Init => HInv
<1>. SUFFICES ASSUME Init PROVE HInv
  OBVIOUS
<1>1. /\ link = [next |-> [n \in Node |-> Nowhere], prev |-> [n \in Node |-> Nowhere]]
      /\ owner = [b \in Block |-> Nowhere] /\ used = {}
      /\ mainPc = "settings" /\ workerPc = "none"
      /\ queue = <<>> /\ mine = <<>> /\ rows = [e \in Block |-> <<>>]
  BY DEF Init
<1>2. link \in Links(Node)
  <2>1. Nowhere \in Node
    BY DEF Node, Fixed
  <2>. QED  BY <1>1, <2>1 DEF Links
<1>3. Image(<<>>) = {} /\ <<>> \in Seq(Block) /\ Freeing = {}
  BY <1>1 DEF Image, Freeing
<1>4. Kept(queue, mine, Freeing) = {} /\ \A e \in Block : rows[e] = <<>>
  BY <1>1, <1>3 DEF Kept
<1>5. Blocks(used, queue, mine, Freeing, rows)
  BY <1>1, <1>3, <1>4 DEF Blocks
<1>6. RowRings(link, Kept(queue, mine, Freeing), rows)
  BY <1>4 DEF RowRings
<1>. QED  BY <1>1, <1>2, <1>5, <1>6 DEF HInv, Shares, Holds

\* The walks of the sampler and of main() come past what is listed.
LEMMA WalksComplete ==
  ASSUME HInv, Shares
  PROVE  /\ Members(link, Current, Block) = Image(queue)
         /\ \A e \in Kept(queue, mine, Freeing) :
              Members(link, RowHead(e), Block) = Image(rows[e])
<1>1. \A h \in Node, s \in Seq(Block) :
        h \notin Block /\ Ring(link, h, s) => Members(link, h, Block) = Image(s)
  <2>. SUFFICES ASSUME NEW h \in Node, NEW s \in Seq(Block), h \notin Block, Ring(link, h, s)
                PROVE  Members(link, h, Block) = Image(s)
    OBVIOUS
  <2>1. s \in Seq(Node) /\ Block \in SUBSET Node /\ \A i \in 1 .. Len(s) : s[i] \in Block
    BY BlockList, Heads
  <2>2. Members(link, h, Block) = {s[i] : i \in 1 .. Len(s)}
    BY <2>1, MembersOfRing
  <2>. QED  BY <2>2 DEF Image
<1>2. queue \in Seq(Block) /\ Ring(link, Current, queue)
  BY DEF HInv, Blocks
<1>3. ASSUME NEW e \in Kept(queue, mine, Freeing)
      PROVE  Members(link, RowHead(e), Block) = Image(rows[e])
  <2>1. e \in Block /\ rows[e] \in Seq(Block)
    BY BlockList DEF HInv, Blocks, Kept
  <2>2. Ring(link, RowHead(e), rows[e])
    BY DEF HInv, RowRings
  <2>. QED  BY <1>1, <2>1, <2>2, Heads
<1>. QED  BY <1>1, <1>2, <1>3, Heads

\* The heap after the first part of a store: the entry is there.
LEMMA StoreEntry ==
  ASSUME HInv, NEW p \in Pid, NEW t \in Tid, NEW e \in Block, Store(p, t, e),
         NEW l1, NEW q1,
         l1 = IF Match(p) = {} THEN ListInit(ListAddBefore(link, Current, e), RowHead(e)) ELSE link,
         q1 = IF Match(p) = {} THEN Append(queue, e) ELSE queue
  PROVE  /\ l1 \in Links(Node)
         /\ Blocks(used \cup {e}, q1, mine, Freeing, rows)
         /\ RowRings(l1, Kept(q1, mine, Freeing), rows)
         /\ Ring(l1, Current, q1)
         /\ Ring(link, Entries, mine) => Ring(l1, Entries, mine)
         /\ e \in Kept(q1, mine, Freeing)
<1>1. /\ Shares /\ Ring(link, Current, queue)
      /\ IF Match(p) = {} THEN e \notin used ELSE e \in Match(p)
  BY DEF Store, HInv, Shares
<1>2. /\ link \in Links(Node) /\ queue \in Seq(Block)
      /\ Blocks(used, queue, mine, Freeing, rows)
      /\ RowRings(link, Kept(queue, mine, Freeing), rows)
  BY DEF HInv, Blocks
<1>3. CASE Match(p) = {}
  <2>1. /\ l1 = ListInit(ListAddBefore(link, Current, e), RowHead(e))
        /\ q1 = Append(queue, e) /\ e \in Block \ used
    BY <1>1, <1>3
  <2>2. e \in Image(Append(queue, e))
    <3>1. queue \in Seq(Block)
      BY <1>2
    <3>2. Image(Append(queue, e)) = Image(queue) \cup {e}
      BY <3>1, ImageOf
    <3>. QED  BY <3>2
  <2>3. e \in Kept(q1, mine, Freeing)
    BY <2>1, <2>2 DEF Kept
  <2>4. /\ l1 \in Links(Node)
        /\ Blocks(used \cup {e}, Append(queue, e), mine, Freeing, rows)
        /\ RowRings(l1, Kept(Append(queue, e), mine, Freeing), rows)
        /\ Ring(l1, Current, Append(queue, e))
        /\ Ring(link, Entries, mine) => Ring(l1, Entries, mine)
    <3>1. e \in Block \ used /\ Ring(link, Current, queue)
      BY <1>1, <2>1
    <3>2. l1 = ListInit(ListAddBefore(link, Current, e), RowHead(e))
      BY <2>1
    <3>. QED  BY <1>2, <3>1, <3>2, EntryAdded
  <2>. QED  BY <2>1, <2>3, <2>4
<1>4. CASE Match(p) # {}
  <2>1. e \in Image(queue)
    BY <1>1, <1>4, WalksComplete DEF Match
  <2>2. e \in Kept(queue, mine, Freeing)
    BY <2>1 DEF Kept
  <2>3. e \in used
    BY <1>2, <2>2 DEF Blocks
  <2>4. used \cup {e} = used
    BY <2>3
  <2>. QED  BY <1>1, <1>2, <1>4, <2>2, <2>4
<1>. QED  BY <1>3, <1>4

\* A store keeps the lists apart.
LEMMA HeapStore ==
  ASSUME HInv, NEW p \in Pid, NEW t \in Tid, NEW e \in Block, Store(p, t, e)
  PROVE  HInv'
<1>. DEFINE l1 == IF Match(p) = {} THEN ListInit(ListAddBefore(link, Current, e), RowHead(e)) ELSE link
            q1 == IF Match(p) = {} THEN Append(queue, e) ELSE queue
            u1 == used \cup {e}
<1>1. /\ queue' = q1 /\ UNCHANGED <<mine, mainPc, workerPc, cur, nxt>>
      /\ \/ link' = l1 /\ used' = u1 /\ rows' = rows
            /\ owner' = [owner EXCEPT ![e] = p]
         \/ \E r \in Block \ u1 :
              /\ owner' = [owner EXCEPT ![e] = p, ![r] = t]
              /\ link' = ListAddAfter(l1, RowHead(e), r) /\ used' = u1 \cup {r}
              /\ rows' = [rows EXCEPT ![e] = <<r>> \o @]
  BY DEF Store, main, walk
<1>2. /\ l1 \in Links(Node)
      /\ Blocks(u1, q1, mine, Freeing, rows)
      /\ RowRings(l1, Kept(q1, mine, Freeing), rows)
      /\ Ring(l1, Current, q1)
      /\ Ring(link, Entries, mine) => Ring(l1, Entries, mine)
      /\ e \in Kept(q1, mine, Freeing)
  BY StoreEntry
<1>. HIDE DEF l1, q1, u1
<1>3. /\ Freeing' = Freeing /\ Shares' = Shares /\ Holds' = Holds /\ Shares
  BY <1>1 DEF Freeing, Shares, Holds, Store
<1>4. owner' \in [Block -> Pid \cup Tid \cup {Nowhere}]
  BY <1>1 DEF HInv
<1>5. /\ link' \in Links(Node)
      /\ Blocks(used', q1, mine, Freeing, rows')
      /\ RowRings(link', Kept(q1, mine, Freeing), rows')
      /\ Ring(link', Current, q1)
      /\ Ring(link, Entries, mine) => Ring(link', Entries, mine)
  <2>1. CASE link' = l1 /\ used' = u1 /\ rows' = rows
    BY <1>2, <2>1
  <2>2. ASSUME NEW r \in Block \ u1,
               link' = ListAddAfter(l1, RowHead(e), r), used' = u1 \cup {r},
               rows' = [rows EXCEPT ![e] = <<r>> \o @]
        PROVE  /\ link' \in Links(Node)
               /\ Blocks(used', q1, mine, Freeing, rows')
               /\ RowRings(link', Kept(q1, mine, Freeing), rows')
               /\ Ring(link', Current, q1)
               /\ Ring(link, Entries, mine) => Ring(link', Entries, mine)
    <3>1. /\ link' \in Links(Node)
          /\ Blocks(u1 \cup {r}, q1, mine, Freeing, rows')
          /\ RowRings(link', Kept(q1, mine, Freeing), rows')
          /\ Ring(l1, Current, q1) => Ring(link', Current, q1)
          /\ Ring(l1, Entries, mine) => Ring(link', Entries, mine)
      <4>1. /\ l1 \in Links(Node)
            /\ Blocks(u1, q1, mine, Freeing, rows)
            /\ RowRings(l1, Kept(q1, mine, Freeing), rows)
            /\ e \in Kept(q1, mine, Freeing)
        BY <1>2
      <4>2. rows \in [Block -> Seq(Block)]
        BY DEF HInv, Blocks
      <4>3. <<r>> \o rows[e] \in Seq(Block)
        BY <4>2, ImageOf
      <4>4. /\ rows' \in RowMap /\ rows'[e] = <<r>> \o rows[e]
            /\ \A f \in Block \ {e} : rows'[f] = rows[f]
        BY <2>2, <4>2, <4>3 DEF RowMap
      <4>6. Pushed(rows, e, r, rows')
        BY <4>4 DEF Pushed
      <4>5. link' = ListAddAfter(l1, RowHead(e), r)
        BY <2>2
      <4>. HIDE DEF Freeing
      <4>. QED  BY <4>1, <4>5, <4>6, RowAdded
    <3>. QED  BY <1>2, <2>2, <3>1
  <2>. QED  BY <1>1, <2>1, <2>2
<1>6. /\ Blocks(used, queue, mine, Freeing, rows)'
      /\ RowRings(link, Kept(queue, mine, Freeing), rows)'
      /\ Ring(link, Current, queue)'
  <2>1. queue' = q1 /\ mine' = mine
    BY <1>1
  <2>2. Blocks(used', queue', mine', Freeing', rows')
    BY <1>3, <1>5, <2>1
  <2>3. RowRings(link', Kept(queue', mine', Freeing'), rows')
    BY <1>3, <1>5, <2>1
  <2>4. Ring(link', Current, queue')
    BY <1>5, <2>1
  <2>. QED  BY <2>2, <2>3, <2>4
<1>. QED  BY <1>1, <1>3, <1>4, <1>5, <1>6 DEF HInv

\* Steps that leave the heap as it is, away from the walk.
LEMMA HeapFrame ==
  ASSUME HInv, UNCHANGED heap, Shares' <=> Shares,
         UNCHANGED <<workerPc, walk>> \/ (~ Holds /\ ~ Holds')
  PROVE  HInv'
<1>1. UNCHANGED <<link, owner, used, queue, mine, rows>>
  BY DEF heap
<1>2. Freeing' = Freeing /\ (Holds' <=> Holds)
  BY DEF Freeing, Holds, walk
<1>3. /\ Blocks(used', queue', mine', Freeing', rows')
      /\ RowRings(link', Kept(queue', mine', Freeing'), rows')
  BY <1>1, <1>2 DEF HInv
<1>4. /\ IF Shares' THEN Ring(link', Current, queue') ELSE queue' = <<>>
      /\ IF Holds' THEN Ring(link', Entries, mine') ELSE mine' = <<>>
  BY <1>1, <1>2 DEF HInv
<1>5. /\ workerPc' = "walk" => cur' = At(Entries, mine', 1) /\ nxt' = At(Entries, mine', 2)
      /\ workerPc' = "free" => nxt' = At(Entries, mine', 1)
  <2>1. CASE UNCHANGED <<workerPc, walk>>
    BY <1>1, <2>1 DEF HInv, walk
  <2>2. CASE ~ Holds'
    BY <2>2 DEF Holds
  <2>. QED  BY <2>1, <2>2
<1>6. link' \in Links(Node) /\ owner' \in [Block -> Pid \cup Tid \cup {Nowhere}]
  BY <1>1 DEF HInv
<1>. QED  BY <1>3, <1>4, <1>5, <1>6 DEF HInv

\* The list is initialised while it has no entries.
LEMMA HeapMade ==
  ASSUME HInv, DocInv, InitAccounting
  PROVE  HInv'
<1>1. /\ mainPc = "init" /\ mainPc' = "run" /\ workerPc = "none" /\ workerPc' = "start"
      /\ link' = ListInit(link, Current)
      /\ UNCHANGED <<owner, used, queue, mine, rows, cur, nxt>>
  BY DEF InitAccounting, MainGo, walk, DocInv, Turn
<1>2. ~ Shares /\ Shares' /\ ~ Holds /\ ~ Holds' /\ Freeing = {} /\ Freeing' = {}
  BY <1>1 DEF Shares, Holds, Freeing
<1>3. queue = <<>> /\ mine = <<>> /\ link \in Links(Node) /\ Current \in Node
  BY <1>2, Heads DEF HInv
<1>4. link' \in Links(Node) /\ Ring(link', Current, <<>>)
  BY <1>1, <1>3, InitRing
<1>5. /\ Blocks(used', queue', mine', Freeing', rows')
      /\ RowRings(link', Kept(queue', mine', Freeing'), rows')
  <2>1. Kept(queue', mine', Freeing') = {}
    BY <1>1, <1>2, <1>3 DEF Kept, Image
  <2>2. Blocks(used', queue', mine', Freeing', rows')
    BY <1>1, <1>2 DEF HInv
  <2>. QED  BY <2>1, <2>2 DEF RowRings
<1>6. owner' \in [Block -> Pid \cup Tid \cup {Nowhere}]
  BY <1>1 DEF HInv
<1>. QED  BY <1>1, <1>2, <1>3, <1>4, <1>5, <1>6 DEF HInv

\* The list is taken over.
LEMMA HeapTake ==
  ASSUME HInv, DocInv, TakeList
  PROVE  HInv'
<1>1. /\ workerPc = "take" /\ workerPc' = "open" /\ link' = Spliced(link)
      /\ mine' = queue /\ queue' = <<>>
      /\ UNCHANGED <<owner, used, rows, mainPc>>
  BY DEF TakeList, Go, main
<1>2. /\ Shares /\ Shares' /\ ~ Holds /\ Holds' /\ Freeing = {} /\ Freeing' = {}
  BY <1>1 DEF Shares, Holds, Freeing, DocInv, Turn
<1>3. /\ mine = <<>> /\ link \in Links(Node) /\ Ring(link, Current, queue)
      /\ Blocks(used, queue, <<>>, {}, rows)
      /\ RowRings(link, Kept(queue, <<>>, {}), rows)
  BY <1>2 DEF HInv
<1>4. /\ link' \in Links(Node)
      /\ Blocks(used, <<>>, queue, {}, rows)
      /\ RowRings(link', Kept(<<>>, queue, {}), rows)
      /\ Ring(link', Current, <<>>)
      /\ Ring(link', Entries, queue)
  BY <1>1, <1>3, ListTaken
<1>5. /\ Blocks(used', queue', mine', Freeing', rows')
      /\ RowRings(link', Kept(queue', mine', Freeing'), rows')
      /\ Ring(link', Current, queue') /\ Ring(link', Entries, mine')
  BY <1>1, <1>2, <1>4
<1>6. owner' \in [Block -> Pid \cup Tid \cup {Nowhere}]
  BY <1>1 DEF HInv
<1>. QED  BY <1>1, <1>2, <1>4, <1>5, <1>6 DEF HInv

\* The walk begins at the first entry, or at the head of an empty list.
LEMMA HeapOpen ==
  ASSUME HInv, OpenRecord
  PROVE  HInv'
<1>1. /\ workerPc = "open" /\ workerPc' = "walk"
      /\ cur' = link.next[Entries] /\ nxt' = link.next[link.next[Entries]]
      /\ UNCHANGED <<link, owner, used, queue, mine, rows, mainPc>>
  BY DEF OpenRecord, Go, main, heap
<1>2. (Shares' <=> Shares) /\ Holds /\ Holds' /\ Freeing = {} /\ Freeing' = {}
  BY <1>1 DEF Shares, Holds, Freeing
<1>3. mine \in Seq(Block) /\ Ring(link, Entries, mine)
  BY <1>2 DEF HInv, Blocks
<1>4. cur' = At(Entries, mine, 1) /\ nxt' = At(Entries, mine, 2)
  <2>1. /\ link.next[Entries] = At(Entries, mine, 1)
        /\ link.next[At(Entries, mine, 1)] = At(Entries, mine, 2)
    BY <1>3, WalkEnds
  <2>. QED  BY <1>1, <2>1
<1>5. /\ Blocks(used', queue', mine', Freeing', rows')
      /\ RowRings(link', Kept(queue', mine', Freeing'), rows')
      /\ IF Shares' THEN Ring(link', Current, queue') ELSE queue' = <<>>
      /\ Ring(link', Entries, mine')
      /\ link' \in Links(Node) /\ owner' \in [Block -> Pid \cup Tid \cup {Nowhere}]
  BY <1>1, <1>2, <1>3 DEF HInv
<1>. QED  BY <1>1, <1>2, <1>4, <1>5 DEF HInv

\* An entry is printed and taken out of the list.
LEMMA HeapDump ==
  ASSUME HInv, DumpEntry
  PROVE  HInv' /\ mine # <<>> /\ cur = mine[1] /\ mine' = Tail(mine)
<1>1. /\ workerPc = "walk" /\ workerPc' = "free" /\ cur # Entries
      /\ link' = ListRemove(link, cur) /\ mine' = Tail(mine)
      /\ UNCHANGED <<owner, used, queue, rows, mainPc, cur, nxt>>
  BY DEF DumpEntry, Go, main, walk
<1>2. /\ (Shares' <=> Shares) /\ Holds /\ Holds' /\ Freeing = {} /\ Freeing' = {cur}
  BY <1>1 DEF Shares, Holds, Freeing
<1>3. /\ mine \in Seq(Block) /\ link \in Links(Node) /\ Ring(link, Entries, mine)
      /\ Blocks(used, queue, mine, {}, rows)
      /\ RowRings(link, Kept(queue, mine, {}), rows)
      /\ cur = At(Entries, mine, 1) /\ nxt = At(Entries, mine, 2)
  BY <1>1, <1>2 DEF HInv, Blocks
<1>4. mine # <<>> /\ cur = mine[1]
  <2>1. mine = <<>> => At(Entries, mine, 1) = Entries
    BY DEF At
  <2>2. mine # <<>> => At(Entries, mine, 1) = mine[1]
    BY <1>3 DEF At
  <2>. QED  BY <1>1, <1>3, <2>1, <2>2
<1>5. nxt = At(Entries, Tail(mine), 1)
  <2>1. /\ Len(Tail(mine)) = Len(mine) - 1 /\ Len(mine) \in Nat
        /\ \A i \in 1 .. Len(mine) - 1 : Tail(mine)[i] = mine[i + 1]
    BY <1>3, <1>4
  <2>. QED  BY <1>3, <2>1 DEF At
<1>6. /\ link' \in Links(Node)
      /\ Blocks(used, queue, Tail(mine), {cur}, rows)
      /\ RowRings(link', Kept(queue, Tail(mine), {cur}), rows)
      /\ Ring(link', Entries, Tail(mine))
      /\ Ring(link, Current, queue) => Ring(link', Current, queue)
  <2>1. link' = ListRemove(link, mine[1])
    BY <1>1, <1>4
  <2>2. /\ link' \in Links(Node)
        /\ Blocks(used, queue, Tail(mine), {mine[1]}, rows)
        /\ RowRings(link', Kept(queue, Tail(mine), {mine[1]}), rows)
        /\ Ring(link', Entries, Tail(mine))
        /\ Ring(link, Current, queue) => Ring(link', Current, queue)
    BY <1>3, <1>4, <2>1, EntryTaken
  <2>. QED  BY <1>4, <2>2
<1>7. /\ Blocks(used', queue', mine', Freeing', rows')
      /\ RowRings(link', Kept(queue', mine', Freeing'), rows')
      /\ Ring(link', Entries, mine')
      /\ nxt' = At(Entries, mine', 1)
  BY <1>1, <1>2, <1>5, <1>6
<1>8. /\ IF Shares' THEN Ring(link', Current, queue') ELSE queue' = <<>>
      /\ owner' \in [Block -> Pid \cup Tid \cup {Nowhere}]
  BY <1>1, <1>2, <1>6 DEF HInv
<1>. QED  BY <1>1, <1>2, <1>4, <1>6, <1>7, <1>8 DEF HInv

\* A row of the entry taken out is freed.
LEMMA HeapFreeRow ==
  ASSUME HInv, FreeRow
  PROVE  HInv' /\ \E r \in used \ Kept(queue, mine, {}) : owner' = Gone(owner, {r})
<1>0. PICK r : r = link.next[RowHead(cur)]
  OBVIOUS
<1>1. /\ workerPc = "free" /\ r # RowHead(cur)
      /\ link' = Freed(ListRemove(link, r), {r})
      /\ rows' = [rows EXCEPT ![cur] = Tail(@)]
      /\ used' = used \ {r} /\ owner' = Gone(owner, {r})
      /\ UNCHANGED <<queue, mine, mainPc, workerPc, cur, nxt>>
  BY <1>0 DEF FreeRow, Free, main, walk
<1>2. /\ (Shares' <=> Shares) /\ Holds /\ Holds' /\ Freeing = {cur} /\ Freeing' = {cur}
  BY <1>1 DEF Shares, Holds, Freeing
<1>3. /\ link \in Links(Node) /\ Ring(link, Entries, mine)
      /\ Blocks(used, queue, mine, {cur}, rows)
      /\ RowRings(link, Kept(queue, mine, {cur}), rows)
  BY <1>2 DEF HInv
<1>4. /\ cur \in Block /\ rows[cur] \in Seq(Block) /\ rows \in [Block -> Seq(Block)]
      /\ Ring(link, RowHead(cur), rows[cur])
  BY <1>3 DEF Blocks, RowRings, Kept
<1>5. rows[cur] # <<>> /\ r = rows[cur][1]
  <2>. DEFINE s == rows[cur]
  <2>1. s \in Seq(Node) /\ RowHead(cur) \in Node /\ Ring(link, RowHead(cur), s)
    BY <1>4, BlockList, Heads
  <2>. HIDE DEF s
  <2>2. link.next[RowHead(cur)] = RowHead(cur) <=> s = <<>>
    BY <2>1, RingEnds
  <2>3. s # <<>> => link.next[RowHead(cur)] = s[1]
    BY <2>1, RingEnds
  <2>. QED  BY <1>0, <1>1, <2>2, <2>3 DEF s
<1>6. Popped(rows, cur, r, rows')
  <2>1. Tail(rows[cur]) \in Seq(Block)
    BY <1>4, <1>5
  <2>. QED  BY <1>1, <1>4, <1>5, <2>1 DEF Popped, RowMap
<1>7. r \in used \ Kept(queue, mine, {})
  <2>1. r \in Image(rows[cur])
    BY <1>4, <1>5 DEF Image
  <2>2. r \in Block
    BY <1>4, <2>1, BlockList
  <2>. QED  BY <1>3, <1>4, <2>1, <2>2 DEF Blocks, Kept
<1>8. /\ link' \in Links(Node)
      /\ Blocks(used \ {r}, queue, mine, {cur}, rows')
      /\ RowRings(link', Kept(queue, mine, {cur}), rows')
      /\ Ring(link, Current, queue) => Ring(link', Current, queue)
      /\ Ring(link, Entries, mine) => Ring(link', Entries, mine)
  <2>1. link' = Freed(ListRemove(link, r), {r})
    BY <1>1
  <2>2. cur \in Block
    BY <1>4
  <2>3. /\ link \in Links(Node)
        /\ Blocks(used, queue, mine, {cur}, rows)
        /\ RowRings(link, Kept(queue, mine, {cur}), rows)
    BY <1>3
  <2>. HIDE DEF Freeing, Shares, Holds
  <2>4. Popped(rows, cur, r, rows')
    BY <1>6
  <2>5. ASSUME NEW l1, NEW rs1, l1 = Freed(ListRemove(link, r), {r}), Popped(rows, cur, r, rs1)
        PROVE  /\ l1 \in Links(Node)
               /\ Blocks(used \ {r}, queue, mine, {cur}, rs1)
               /\ RowRings(l1, Kept(queue, mine, {cur}), rs1)
               /\ Ring(link, Current, queue) => Ring(l1, Current, queue)
               /\ Ring(link, Entries, mine) => Ring(l1, Entries, mine)
    BY ONLY <2>2, <2>3, <2>5, RowFreed
  <2>. QED  BY ONLY <2>1, <2>4, <2>5
<1>9. /\ Blocks(used', queue', mine', Freeing', rows')
      /\ RowRings(link', Kept(queue', mine', Freeing'), rows')
      /\ Ring(link', Entries, mine')
  BY <1>1, <1>2, <1>3, <1>8
<1>10. owner' \in [Block -> Pid \cup Tid \cup {Nowhere}]
  BY <1>1 DEF HInv, Gone
<1>11. /\ IF Shares' THEN Ring(link', Current, queue') ELSE queue' = <<>>
       /\ nxt' = At(Entries, mine', 1) /\ workerPc' = "free"
  BY <1>1, <1>2, <1>8 DEF HInv
<1>. QED  BY <1>1, <1>2, <1>7, <1>8, <1>9, <1>10, <1>11 DEF HInv

\* An entry is freed, the walk goes on.
LEMMA HeapFreeEntry ==
  ASSUME HInv, FreeEntry
  PROVE  HInv' /\ cur \in used \ Kept(queue, mine, {}) /\ owner' = Gone(owner, {cur})
<1>1. /\ workerPc = "free" /\ workerPc' = "walk" /\ link.next[RowHead(cur)] = RowHead(cur)
      /\ link' = Freed(link, {cur, RowHead(cur)})
      /\ used' = used \ {cur} /\ owner' = Gone(owner, {cur})
      /\ cur' = nxt /\ nxt' = link.next[nxt]
      /\ UNCHANGED <<queue, mine, rows, mainPc>>
  BY DEF FreeEntry, Go, Free, main
<1>2. /\ (Shares' <=> Shares) /\ Holds /\ Holds' /\ Freeing = {cur} /\ Freeing' = {}
  BY <1>1 DEF Shares, Holds, Freeing
<1>3. /\ link \in Links(Node) /\ Ring(link, Entries, mine) /\ mine \in Seq(Block)
      /\ Blocks(used, queue, mine, {cur}, rows)
      /\ RowRings(link, Kept(queue, mine, {cur}), rows)
      /\ nxt = At(Entries, mine, 1)
  BY <1>1, <1>2 DEF HInv, Blocks
<1>4. /\ cur \in Block /\ rows[cur] \in Seq(Block) /\ Ring(link, RowHead(cur), rows[cur])
      /\ cur \in used \ Kept(queue, mine, {})
  BY <1>3 DEF Blocks, RowRings, Kept
<1>5. rows[cur] = <<>>
  <2>. DEFINE s == rows[cur]
  <2>1. s \in Seq(Node) /\ RowHead(cur) \in Node /\ Ring(link, RowHead(cur), s)
    BY <1>4, BlockList, Heads
  <2>. HIDE DEF s
  <2>2. link.next[RowHead(cur)] = RowHead(cur) <=> s = <<>>
    BY <2>1, RingEnds
  <2>. QED  BY <1>1, <2>2 DEF s
<1>6. /\ link' \in Links(Node)
      /\ Blocks(used \ {cur}, queue, mine, {}, rows)
      /\ RowRings(link', Kept(queue, mine, {}), rows)
      /\ Ring(link, Current, queue) => Ring(link', Current, queue)
      /\ Ring(link, Entries, mine) => Ring(link', Entries, mine)
  <2>1. link' = Freed(link, {cur, RowHead(cur)})
    BY <1>1
  <2>. QED  BY <1>3, <1>4, <1>5, <2>1, EntryFreed
<1>7. cur' = At(Entries, mine', 1) /\ nxt' = At(Entries, mine', 2)
  <2>1. mine \in Seq(Block) /\ Ring(link, Entries, mine)
    BY <1>3
  <2>2. link.next[At(Entries, mine, 1)] = At(Entries, mine, 2)
    BY <2>1, WalkEnds
  <2>. QED  BY <1>1, <1>3, <2>2
<1>8. /\ Blocks(used', queue', mine', Freeing', rows')
      /\ RowRings(link', Kept(queue', mine', Freeing'), rows')
      /\ Ring(link', Entries, mine')
  BY <1>1, <1>2, <1>3, <1>6
<1>9. owner' \in [Block -> Pid \cup Tid \cup {Nowhere}]
  BY <1>1 DEF HInv, Gone
<1>10. IF Shares' THEN Ring(link', Current, queue') ELSE queue' = <<>>
  BY <1>1, <1>2, <1>6 DEF HInv
<1>. QED  BY <1>1, <1>2, <1>4, <1>6, <1>7, <1>8, <1>9, <1>10 DEF HInv

\* main() frees what was not reported, and nothing is left.
LEMMA HeapDiscard ==
  ASSUME HInv, DocInv, FreeEntries
  PROVE  HInv' /\ used' = {} /\ mine = <<>>
<1>1. /\ mainPc = "free" /\ mainPc' = "debug"
      /\ used' = used \ UNION {{e} \cup Members(link, RowHead(e), Block) : e \in Members(link, Current, Block)}
      /\ queue' = <<>> /\ rows' = [e \in Block |-> <<>>]
      /\ UNCHANGED <<link, owner, mine, workerPc, cur, nxt>>
  BY DEF FreeEntries, MainGo, walk
<1>2. /\ Shares /\ ~ Shares' /\ ~ Holds /\ ~ Holds' /\ Freeing = {} /\ Freeing' = {}
      /\ mine = <<>>
  BY <1>1 DEF Shares, Holds, Freeing, DocInv, Turn, HInv
<1>3. /\ Blocks(used, queue, <<>>, {}, rows) /\ Kept(queue, <<>>, {}) = Image(queue)
      /\ Kept(queue, mine, Freeing) = Image(queue)
  BY <1>2, BlockList DEF HInv, Kept, Image
<1>4. used' = {}
  <2>1. /\ Members(link, Current, Block) = Image(queue)
        /\ \A e \in Image(queue) : Members(link, RowHead(e), Block) = Image(rows[e])
    BY <1>2, <1>3, WalksComplete
  <2>2. ASSUME NEW b \in used
        PROVE  \E e \in Image(queue) : b \in {e} \cup Image(rows[e])
    <3>1. b \in Block /\ (b \in Image(queue) \/ \E e \in Block : b \in Image(rows[e]))
      BY <1>3 DEF Blocks
    <3>2. \A e \in Block : b \in Image(rows[e]) => e \in Image(queue)
      <4>. SUFFICES ASSUME NEW e \in Block, e \notin Image(queue) PROVE b \notin Image(rows[e])
        OBVIOUS
      <4>1. rows[e] = <<>>
        BY <1>3 DEF Blocks
      <4>. QED  BY <4>1 DEF Image
    <3>. QED  BY <3>1, <3>2
  <2>. QED  BY <1>1, <2>1, <2>2
<1>5. Kept(queue', mine', Freeing') = {}
  BY <1>1, <1>2 DEF Kept, Image
<1>6. /\ Blocks(used', queue', mine', Freeing', rows')
      /\ RowRings(link', Kept(queue', mine', Freeing'), rows')
  <2>1. Image(<<>>) = {} /\ <<>> \in Seq(Block)
    BY DEF Image
  <2>2. rows' \in [Block -> Seq(Block)] /\ \A e \in Block : rows'[e] = <<>>
    BY <1>1, <2>1
  <2>3. \A e \in Block : Image(rows'[e]) = {}
    BY <2>1, <2>2
  <2>4. queue' = <<>> /\ mine' = <<>> /\ Freeing' = {}
    BY <1>1, <1>2
  <2>5. Blocks(used', queue', mine', Freeing', rows')
    BY <1>4, <1>5, <2>1, <2>2, <2>3, <2>4 DEF Blocks
  <2>. QED  BY <1>5, <2>5 DEF RowRings
<1>7. link' \in Links(Node) /\ owner' \in [Block -> Pid \cup Tid \cup {Nowhere}]
  BY <1>1 DEF HInv
<1>8. workerPc' \notin {"walk", "free"}
  BY <1>2 DEF Holds
<1>. QED  BY <1>1, <1>2, <1>4, <1>6, <1>7, <1>8 DEF HInv

\* A record is closed when the walk is back at the head: nothing is left then.
LEMMA HeapClose ==
  ASSUME HInv, CloseRecord
  PROVE  HInv'
<1>1. /\ workerPc = "walk" /\ workerPc' = "measure" /\ cur = Entries
      /\ UNCHANGED <<link, owner, used, queue, mine, rows, mainPc>>
  BY DEF CloseRecord, Go, main, heap
<1>2. /\ (Shares' <=> Shares) /\ Holds /\ ~ Holds' /\ Freeing = {} /\ Freeing' = {}
  BY <1>1 DEF Shares, Holds, Freeing
<1>3. mine = <<>>
  <2>1. mine \in Seq(Block) /\ cur = At(Entries, mine, 1)
    BY <1>1 DEF HInv, Blocks
  <2>2. mine # <<>> => At(Entries, mine, 1) = mine[1] /\ mine[1] \in Block
    BY <2>1 DEF At
  <2>. QED  BY <1>1, <2>1, <2>2, Heads
<1>4. /\ Blocks(used', queue', mine', Freeing', rows')
      /\ RowRings(link', Kept(queue', mine', Freeing'), rows')
      /\ link' \in Links(Node) /\ owner' \in [Block -> Pid \cup Tid \cup {Nowhere}]
      /\ IF Shares' THEN Ring(link', Current, queue') ELSE queue' = <<>>
  BY <1>1, <1>2 DEF HInv
<1>. QED  BY <1>1, <1>2, <1>3, <1>4 DEF HInv

\* Every step keeps the heap.
LEMMA HeapStep == HInv /\ DocInv /\ DocInv' /\ [Next]_vars => HInv'
<1>. SUFFICES ASSUME HInv, DocInv, DocInv', [Next]_vars PROVE HInv'
  OBVIOUS
<1>1. CASE Start \/ Check \/ Sleep \/ Refuse
  <2>1. UNCHANGED <<heap, mainPc>> /\ ~ Holds /\ ~ Holds'
    BY <1>1 DEF Start, Check, Sleep, Refuse, Go, main, Holds
  <2>. QED  BY <2>1, HeapFrame DEF Shares
<1>2. CASE \E phase \in 0 .. NS - 1, s \in 0 .. MaxSpent, d \in ClockStep : Measure(phase, s, d)
  <2>1. UNCHANGED <<heap, mainPc>> /\ ~ Holds /\ ~ Holds'
    BY <1>2 DEF Measure, main, Holds
  <2>. QED  BY <2>1, HeapFrame DEF Shares
<1>3. CASE \E left \in 0 .. Total(nap) - 1 : Interrupt(left)
  <2>1. UNCHANGED <<heap, mainPc>> /\ ~ Holds /\ ~ Holds'
    BY <1>3 DEF Interrupt, Holds
  <2>. QED  BY <2>1, HeapFrame DEF Shares
<1>4. CASE Signal \/ PrintSettings \/ StopWorker \/ JoinWorker \/ PrintDebug
  <2>1. UNCHANGED heap /\ UNCHANGED <<workerPc, walk>> /\ (Shares' <=> Shares)
    BY <1>4 DEF Signal, PrintSettings, StopWorker, JoinWorker, PrintDebug, MainGo, Shares
  <2>. QED  BY <2>1, HeapFrame
<1>5. CASE Exited \/ UNCHANGED vars
  <2>1. UNCHANGED heap /\ UNCHANGED <<workerPc, walk>> /\ (Shares' <=> Shares)
    BY <1>5 DEF Exited, vars, main, Shares
  <2>. QED  BY <2>1, HeapFrame
<1>6. CASE Next
  BY <1>1, <1>2, <1>3, <1>4, <1>5, <1>6, NextCases, HeapStore, HeapMade, HeapTake, HeapOpen,
     HeapDump, HeapFreeRow, HeapFreeEntry, HeapDiscard, HeapClose
<1>. QED  BY <1>5, <1>6

\* The heap is sound.
LEMMA HeapInvariance == Spec => []HInv
BY HeapInit, HeapStep, DocInvariance, PTL DEF Spec

\* Every block of the heap is listed, or a row of what is listed.
LEMMA HeapSafe == HInv /\ DocInv => ListsIntact /\ WalkSafe /\ NoLeak
<1>. SUFFICES ASSUME HInv, DocInv PROVE ListsIntact /\ WalkSafe /\ NoLeak
  OBVIOUS
<1>1. Listed = Kept(queue, mine, Freeing)
  BY DEF Listed, Kept, Freeing
<1>2. /\ used \subseteq Block /\ Listed \subseteq Block
      /\ \A b \in Block : b \in used <=> b \in Listed \/ \E e \in Block : b \in Image(rows[e])
      /\ Image(queue) \cap Image(mine) = {}
      /\ \A e \in Block : Image(rows[e]) \subseteq Block /\ Image(rows[e]) \cap Listed = {}
      /\ \A e, f \in Block : e # f => Image(rows[e]) \cap Image(rows[f]) = {}
      /\ \A e \in Block \ Listed : rows[e] = <<>>
  BY <1>1, BlockList DEF HInv, Blocks, Kept
<1>3. /\ Image(<<>>) = {}
      /\ \A e \in Block \ Listed : Image(rows[e]) = {}
  <2>1. Image(<<>>) = {}
    BY DEF Image
  <2>. QED  BY <1>2, <2>1
<1>4. ListsIntact
  BY <1>1 DEF HInv, RowRings, Shares, Holds, ListsIntact
<1>5. WalkSafe
  <2>1. workerPc = "free" => cur \in used
    BY <1>2 DEF Listed
  <2>. QED  BY <2>1 DEF HInv, WalkSafe
<1>6. used = Listed \cup UNION {Image(rows[e]) : e \in Listed}
  <2>1. ASSUME NEW b \in used
        PROVE  b \in Listed \/ \E e \in Listed : b \in Image(rows[e])
    BY <1>2, <1>3
  <2>2. ASSUME NEW e \in Listed, NEW b \in Image(rows[e])
        PROVE  b \in used
    BY <1>2
  <2>3. Listed \subseteq used
    BY <1>2
  <2>. QED  BY <2>1, <2>2, <2>3
<1>7. mainPc = "done" => used = {}
  <2>. SUFFICES ASSUME mainPc = "done" PROVE used = {}
    OBVIOUS
  <2>1. workerPc = "exited" /\ ~ Shares /\ ~ Holds
    BY DEF DocInv, Turn, Shares, Holds
  <2>2. queue = <<>> /\ mine = <<>> /\ Listed = {}
    BY <1>3, <2>1 DEF HInv, Listed, Holds
  <2>. QED  BY <1>3, <1>6, <2>2
<1>. QED  BY <1>2, <1>4, <1>5, <1>6, <1>7 DEF NoLeak

\* Both lists and the rows of their entries are intact: the hand-over leaves no
\* pointer from one list into the other, whatever is stored meanwhile, however
\* long the lists are.
THEOREM Lists == Spec => []ListsIntact
BY HeapInvariance, DocInvariance, HeapSafe, PTL

\* The walk of the dump thread is at entries that are still allocated, though
\* the memory of those before it may be in use again.
THEOREM Walk == Spec => []WalkSafe
BY HeapInvariance, DocInvariance, HeapSafe, PTL

\* What is allocated is listed once, and freed by the time the program ends.
THEOREM Memory == Spec => []NoLeak
BY HeapInvariance, DocInvariance, HeapSafe, PTL

-----------------------------------------------------------------------------
(* The hand-over as a queue of processes.                                   *)

\* The owners of a list, in its order.
Names(o, s) == [i \in 1 .. Len(s) |-> o[s[i]]]

\* Names(o, s) is a sequence as long as s, and depends on the owners in s only.
LEMMA NamesOf ==
  ASSUME NEW X, NEW o \in [Block -> X], NEW s \in Seq(Block)
  PROVE  /\ Names(o, s) \in Seq(X) /\ Len(Names(o, s)) = Len(s)
         /\ \A i \in 1 .. Len(s) : Names(o, s)[i] = o[s[i]]
         /\ Names(o, <<>>) = <<>>
         /\ Names(o, s) = <<>> => s = <<>>
<1>1. Names(o, s) \in Seq(X) /\ Len(Names(o, s)) = Len(s)
  BY DEF Names
<1>2. \A i \in 1 .. Len(s) : Names(o, s)[i] = o[s[i]]
  BY DEF Names
<1>3. Names(o, <<>>) = <<>>
  BY DEF Names
<1>4. Names(o, s) = <<>> => s = <<>>
  BY <1>1
<1>. QED  BY <1>1, <1>2, <1>3, <1>4

\* What happens to blocks outside of a list does not change its names.
LEMMA NamesFrame ==
  ASSUME NEW X, NEW o \in [Block -> X], NEW o1 \in [Block -> X], NEW s \in Seq(Block),
         \A b \in Image(s) : o1[b] = o[b]
  PROVE  Names(o1, s) = Names(o, s)
<1>1. \A i \in 1 .. Len(s) : o1[s[i]] = o[s[i]]
  BY BlockList
<1>. QED  BY <1>1 DEF Names

\* An entry at the end is a name at the end.
LEMMA NamesAppend ==
  ASSUME NEW X, NEW o \in [Block -> X], NEW s \in Seq(Block), NEW e \in Block
  PROVE  Names(o, Append(s, e)) = Append(Names(o, s), o[e])
<1>. DEFINE t == Append(s, e)
            n == Append(Names(o, s), o[e])
<1>1. /\ t \in Seq(Block) /\ Len(t) = Len(s) + 1 /\ Len(s) \in Nat
      /\ t[Len(s) + 1] = e /\ \A i \in 1 .. Len(s) : t[i] = s[i]
  BY AppendProperties
<1>2. /\ Names(o, s) \in Seq(X) /\ Len(Names(o, s)) = Len(s) /\ o[e] \in X
      /\ \A i \in 1 .. Len(s) : Names(o, s)[i] = o[s[i]]
  <2>1. Names(o, s) \in Seq(X) /\ Len(Names(o, s)) = Len(s)
    BY DEF Names
  <2>2. \A i \in 1 .. Len(s) : Names(o, s)[i] = o[s[i]]
    BY DEF Names
  <2>. QED  BY <2>1, <2>2
<1>3. /\ n \in Seq(X) /\ Len(n) = Len(s) + 1
      /\ n[Len(s) + 1] = o[e] /\ \A i \in 1 .. Len(s) : n[i] = o[s[i]]
  BY <1>2, AppendProperties
<1>. HIDE DEF t, n
<1>4. /\ Names(o, t) \in Seq(X) /\ Len(Names(o, t)) = Len(s) + 1
      /\ \A i \in 1 .. Len(s) + 1 : Names(o, t)[i] = o[t[i]]
  BY <1>1, NamesOf
<1>5. \A i \in 1 .. Len(s) + 1 : Names(o, t)[i] = n[i]
  <2>. TAKE i \in 1 .. Len(s) + 1
  <2>1. i \in 1 .. Len(s) \/ i = Len(s) + 1
    BY <1>1
  <2>. QED  BY <1>1, <1>3, <1>4, <2>1
<1>6. Names(o, t) = n
  BY <1>3, <1>4, <1>5, SeqEqual
<1>. QED  BY <1>6 DEF t, n

\* What is left of a list has what is left of its names.
LEMMA NamesTail ==
  ASSUME NEW X, NEW o \in [Block -> X], NEW s \in Seq(Block), s # <<>>
  PROVE  Names(o, Tail(s)) = Tail(Names(o, s))
<1>. DEFINE t == Tail(s)
            n == Tail(Names(o, s))
<1>1. /\ t \in Seq(Block) /\ Len(t) = Len(s) - 1 /\ Len(s) \in Nat
      /\ \A i \in 1 .. Len(s) - 1 : t[i] = s[i + 1] /\ i + 1 \in 1 .. Len(s)
  OBVIOUS
<1>2. /\ Names(o, s) \in Seq(X) /\ Len(Names(o, s)) = Len(s) /\ Names(o, s) # <<>>
      /\ \A i \in 1 .. Len(s) : Names(o, s)[i] = o[s[i]]
  BY NamesOf
<1>3. /\ n \in Seq(X) /\ Len(n) = Len(s) - 1
      /\ \A i \in 1 .. Len(s) - 1 : n[i] = o[s[i + 1]]
  <2>. DEFINE w == Names(o, s)
  <2>1. w \in Seq(X) /\ w # <<>>
    BY <1>2
  <2>. HIDE DEF w
  <2>2. /\ Tail(w) \in Seq(X) /\ Len(Tail(w)) = Len(w) - 1
        /\ \A i \in 1 .. Len(w) - 1 : Tail(w)[i] = w[i + 1]
    BY <2>1
  <2>. QED  BY <1>1, <1>2, <2>2 DEF w
<1>. HIDE DEF t, n
<1>4. /\ Names(o, t) \in Seq(X) /\ Len(Names(o, t)) = Len(s) - 1
      /\ \A i \in 1 .. Len(s) - 1 : Names(o, t)[i] = o[t[i]]
  <2>1. t \in Seq(Block)
    BY <1>1
  <2>2. /\ Names(o, t) \in Seq(X) /\ Len(Names(o, t)) = Len(t)
        /\ \A i \in 1 .. Len(t) : Names(o, t)[i] = o[t[i]]
    BY <2>1, NamesOf
  <2>. QED  BY <1>1, <2>2
<1>5. \A i \in 1 .. Len(n) : Names(o, t)[i] = n[i]
  BY <1>1, <1>3, <1>4
<1>6. Names(o, t) = n
  BY <1>3, <1>4, <1>5, SeqEqual
<1>. QED  BY <1>6 DEF t, n

\* What an entry or a row may be owned by.
Owner == Pid \cup Tid \cup {Nowhere}

\* The queue sees nothing of a step that leaves the lists and the owners of their
\* entries alone.
LEMMA QueueFrame ==
  ASSUME HInv, HInv', queue' = queue, mine' = mine,
         \A b \in Kept(queue, mine, {}) : owner'[b] = owner[b]
  PROVE  UNCHANGED Handover!vars
<1>1. /\ owner \in [Block -> Owner] /\ owner' \in [Block -> Owner]
      /\ queue \in Seq(Block) /\ mine \in Seq(Block)
  BY DEF HInv, Blocks, Owner
<1>2. /\ \A b \in Image(queue) : owner'[b] = owner[b]
      /\ \A b \in Image(mine) : owner'[b] = owner[b]
  BY DEF Kept
<1>3. Names(owner', queue) = Names(owner, queue) /\ Names(owner', mine) = Names(owner, mine)
  BY <1>1, <1>2, NamesFrame
<1>. QED  BY <1>3 DEF Handover!vars, Shared, Taken, Names

\* The first store of a process since the hand-over enters it, other stores are
\* not seen.
LEMMA QueueStore ==
  ASSUME HInv, HInv', NEW p \in Pid, NEW t \in Tid, NEW e \in Block, Store(p, t, e)
  PROVE  [Handover!Next]_(Handover!vars)
<1>1. /\ owner \in [Block -> Owner] /\ owner' \in [Block -> Owner]
      /\ queue \in Seq(Block) /\ mine \in Seq(Block) /\ mine' = mine /\ Shares
      /\ \A b \in Kept(queue, mine, {}) : b \in used /\ b \in Block
      /\ owner'[e] = p
      /\ \A b \in used : b # e => owner'[b] = owner[b]
  <2>1. /\ owner \in [Block -> Owner] /\ owner' \in [Block -> Owner]
        /\ queue \in Seq(Block) /\ mine \in Seq(Block)
    BY DEF HInv, Blocks, Owner
  <2>2. mine' = mine /\ Shares
    BY DEF Store, Shares
  <2>3. \A b \in Kept(queue, mine, {}) : b \in used /\ b \in Block
    BY BlockList DEF HInv, Blocks, Kept
  <2>4. CASE owner' = [owner EXCEPT ![e] = p]
    BY <2>1, <2>2, <2>3, <2>4
  <2>5. ASSUME NEW r \in Block \ (used \cup {e}), owner' = [owner EXCEPT ![e] = p, ![r] = t]
        PROVE  /\ owner'[e] = p
               /\ \A b \in used : b # e => owner'[b] = owner[b]
    BY <2>1, <2>5 DEF HInv, Blocks
  <2>. QED  BY <2>1, <2>2, <2>3, <2>4, <2>5 DEF Store
<1>2. CASE Match(p) = {}
  <2>1. queue' = Append(queue, e) /\ e \notin used
    BY <1>2 DEF Store
  <2>2. /\ \A b \in Image(queue) : owner'[b] = owner[b]
        /\ \A b \in Image(mine) : owner'[b] = owner[b]
    BY <1>1, <2>1 DEF Kept
  <2>3. Names(owner', queue) = Names(owner, queue) /\ Names(owner', mine) = Names(owner, mine)
    BY <1>1, <2>2, NamesFrame
  <2>4. Names(owner', Append(queue, e)) = Append(Names(owner', queue), owner'[e])
    BY <1>1, NamesAppend
  <2>5. \A i \in 1 .. Len(queue) : owner[queue[i]] # p
    <3>1. Members(link, Current, Block) = Image(queue)
      BY <1>1, WalksComplete
    <3>2. \A b \in Image(queue) : owner[b] # p
      BY <1>2, <3>1 DEF Match
    <3>. QED  BY <3>2 DEF Image
  <2>6. Shared' = Append(Shared, p) /\ Taken' = Taken
    BY <1>1, <2>1, <2>3, <2>4 DEF Shared, Taken, Names
  <2>7. \A i \in DOMAIN Shared : Shared[i] # p
    BY <2>5 DEF Shared
  <2>8. Handover!Enter(p)
    BY <2>6, <2>7 DEF Handover!Enter
  <2>. QED  BY <2>8 DEF Handover!Next
<1>3. CASE Match(p) # {}
  <2>1. queue' = queue /\ owner[e] = p
    BY <1>3 DEF Store, Match
  <2>2. \A b \in Kept(queue, mine, {}) : owner'[b] = owner[b]
    BY <1>1, <2>1
  <2>. QED  BY <1>1, <2>1, <2>2, QueueFrame
<1>. QED  BY <1>2, <1>3

\* The hand-over, a report, and the end are the steps of the queue.
LEMMA QueueTake ==
  ASSUME HInv, TakeList
  PROVE  Handover!TakeOver
<1>1. /\ mine = <<>> /\ mine' = queue /\ queue' = <<>> /\ owner' = owner
  BY DEF HInv, TakeList, Go, Holds
<1>. QED  BY <1>1 DEF Handover!TakeOver, Shared, Taken

\* Printing an entry reports the process at the front.
LEMMA QueueReport ==
  ASSUME HInv, DumpEntry
  PROVE  Handover!Report
<1>1. /\ mine # <<>> /\ mine' = Tail(mine) /\ queue' = queue /\ owner' = owner
  BY HeapDump DEF DumpEntry
<1>2. owner \in [Block -> Owner] /\ mine \in Seq(Block)
  BY DEF HInv, Blocks, Owner
<1>3. Names(owner, Tail(mine)) = Tail(Names(owner, mine)) /\ Names(owner, mine) # <<>>
  BY <1>1, <1>2, NamesOf, NamesTail
<1>. QED  BY <1>1, <1>3 DEF Handover!Report, Shared, Taken, Names

\* What main() frees at the end is discarded.
LEMMA QueueDiscard ==
  ASSUME HInv, DocInv, FreeEntries
  PROVE  Handover!Discard
<1>1. /\ mine = <<>> /\ mine' = mine /\ queue' = <<>> /\ owner' = owner
  BY HeapDiscard DEF FreeEntries
<1>. QED  BY <1>1 DEF Handover!Discard, Shared, Taken

\* Every step is one of the queue, or is not seen by it.
LEMMA QueueStep ==
  HInv /\ HInv' /\ DocInv /\ [Next]_vars => [Handover!Next]_(Handover!vars)
<1>. SUFFICES ASSUME HInv, HInv', DocInv, [Next]_vars PROVE [Handover!Next]_(Handover!vars)
  OBVIOUS
<1>1. CASE UNCHANGED <<owner, queue, mine>>
  BY <1>1, QueueFrame
<1>2. CASE FreeRow
  <2>1. PICK r \in used \ Kept(queue, mine, {}) : owner' = Gone(owner, {r})
    BY <1>2, HeapFreeRow
  <2>2. queue' = queue /\ mine' = mine
    BY <1>2 DEF FreeRow
  <2>3. \A b \in Kept(queue, mine, {}) : owner'[b] = owner[b]
    BY <2>1, BlockList DEF Gone, HInv, Blocks, Kept
  <2>. QED  BY <2>2, <2>3, QueueFrame
<1>3. CASE FreeEntry
  <2>1. cur \in used \ Kept(queue, mine, {}) /\ owner' = Gone(owner, {cur})
    BY <1>3, HeapFreeEntry
  <2>2. queue' = queue /\ mine' = mine
    BY <1>3 DEF FreeEntry
  <2>3. \A b \in Kept(queue, mine, {}) : owner'[b] = owner[b]
    BY <2>1, BlockList DEF Gone, HInv, Blocks, Kept
  <2>. QED  BY <2>2, <2>3, QueueFrame
<1>4. CASE TakeList \/ DumpEntry \/ FreeEntries
  BY <1>4, QueueTake, QueueReport, QueueDiscard DEF Handover!Next
<1>5. CASE \E p \in Pid, t \in Tid, e \in Block : Store(p, t, e)
  BY <1>5, QueueStore
<1>6. CASE Start \/ Check \/ OpenRecord \/ CloseRecord \/ Sleep \/ Refuse
  BY <1>1, <1>6 DEF Start, Check, OpenRecord, CloseRecord, Sleep, Refuse, heap
<1>7. CASE \E phase \in 0 .. NS - 1, s \in 0 .. MaxSpent, d \in ClockStep : Measure(phase, s, d)
  BY <1>1, <1>7 DEF Measure, heap
<1>8. CASE \E left \in 0 .. Total(nap) - 1 : Interrupt(left)
  BY <1>1, <1>8 DEF Interrupt, heap
<1>9. CASE \/ Signal \/ PrintSettings \/ InitAccounting \/ StopWorker \/ JoinWorker \/ PrintDebug
           \/ Exited \/ UNCHANGED vars
  BY <1>1, <1>9 DEF Signal, PrintSettings, InitAccounting, StopWorker, JoinWorker, PrintDebug,
     Exited, vars, heap
<1>. QED  BY <1>2, <1>3, <1>4, <1>5, <1>6, <1>7, <1>8, <1>9, NextCases

\* Both queues are empty at first.
LEMMA QueueInit == Init => Handover!Init
BY DEF Init, Handover!Init, Shared, Taken

\* Whatever is stored while the dump thread reports, frees and hands over, the
\* lists are the queues of EntryQueue: every process is reported once per record,
\* in the order of the first stores.
THEOREM Queueing == Spec => ImplementsQueue
BY QueueInit, QueueStep, HeapInvariance, DocInvariance, PTL DEF Spec, ImplementsQueue, Handover!Spec
=============================================================================
