----------------------------- MODULE WriteLedger -----------------------------
(***************************************************************************)
(* What the write accounting promises, without lists, locks or threads: a  *)
(* store is booked once, printed at most once, nothing is printed that was *)
(* not booked, and once the books are closed neither happens.              *)
(***************************************************************************)
EXTENDS Integers

CONSTANT Pid

VARIABLES
  open,     \* process -> stores booked and not printed
  printed,  \* process -> stores printed
  closed

vars == <<open, printed, closed>>

Init ==
  /\ open = [p \in Pid |-> 0]
  /\ printed = [p \in Pid |-> 0]
  /\ closed = FALSE

Book(p) ==
  /\ ~closed
  /\ open' = [open EXCEPT ![p] = @ + 1]
  /\ UNCHANGED <<printed, closed>>

Report(p, n) ==
  /\ ~closed
  /\ open' = [open EXCEPT ![p] = @ - n]
  /\ printed' = [printed EXCEPT ![p] = @ + n]
  /\ UNCHANGED closed

Close ==
  /\ ~closed
  /\ closed' = TRUE
  /\ UNCHANGED <<open, printed>>

Next ==
  \/ \E p \in Pid : Book(p)
  \/ \E p \in Pid : \E n \in 0 .. open[p] : Report(p, n)
  \/ Close

Spec == Init /\ [][Next]_vars
=============================================================================
