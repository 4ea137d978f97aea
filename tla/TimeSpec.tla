------------------------------- MODULE TimeSpec -------------------------------
(***************************************************************************)
(* timespec_diff.h and the arithmetic of expiry.h.  A second has           *)
(* NanosecondsPerSecond units, so that the carries between the two parts   *)
(* of a time can be checked with a few.                                    *)
(***************************************************************************)
EXTENDS Integers

CONSTANT NanosecondsPerSecond

ASSUME SecondAssumption == NanosecondsPerSecond \in Nat \ {0}

NS == NanosecondsPerSecond

\* What clock_gettime returns after the epoch, and nanosleep accepts.
Normal(t) == t.sec >= 0 /\ t.nsec \in 0 .. NS - 1

Total(t) == t.sec * NS + t.nsec

\* The time that is n units after the epoch of the clock.
Timespec(n) == [sec |-> n \div NS, nsec |-> n % NS]

\* Mutant: the seconds are left as they are.
BorrowLost(x, y) ==
  LET n == (y.nsec - x.nsec) \div NS + 1
  IN  IF x.nsec < y.nsec THEN [sec |-> y.sec, nsec |-> y.nsec - NS * n] ELSE y

\* Units are carried from y.tv_sec to y.tv_nsec ...
Borrow(x, y) ==
  LET n == (y.nsec - x.nsec) \div NS + 1
  IN  IF x.nsec < y.nsec THEN [sec |-> y.sec + n, nsec |-> y.nsec - NS * n] ELSE y

\* ... and back.  A difference of exactly one second is not carried.
Carry(x, y) ==
  LET n == (x.nsec - y.nsec) \div NS
  IN  IF x.nsec - y.nsec > NS THEN [sec |-> y.sec - n, nsec |-> y.nsec + NS * n] ELSE y

\* timespec_diff: x - y, and whether it is negative.
TimespecDiff(x, y) ==
  LET z == Carry(x, Borrow(x, y))
  IN  [value |-> [sec |-> x.sec - z.sec, nsec |-> x.nsec - z.nsec],
       negative |-> x.sec < z.sec]

-----------------------------------------------------------------------------
\* expiry_extend
ExpiryExtend(base, extension) ==
  LET n == base.nsec + extension.nsec
  IN  [sec |-> base.sec + extension.sec + n \div NS, nsec |-> n % NS]

\* expiry_passed
ExpiryPassed(now, time) ==
  IF time.sec = now.sec THEN time.nsec =< now.nsec ELSE time.sec =< now.sec
=============================================================================
