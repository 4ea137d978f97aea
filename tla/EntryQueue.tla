------------------------------ MODULE EntryQueue ------------------------------
(***************************************************************************)
(* What the hand-over of entries promises: processes are reported in the   *)
(* order of their first store since the last hand-over, each once, and     *)
(* stores that arrive meanwhile start a new queue.                         *)
(***************************************************************************)
EXTENDS Sequences

CONSTANT Pid

VARIABLES
  shared,  \* processes with an entry, in the order of their first store
  taken    \* those being reported

vars == <<shared, taken>>

Init == shared = <<>> /\ taken = <<>>

Enter(p) ==
  /\ \A i \in DOMAIN shared : shared[i] # p
  /\ shared' = Append(shared, p)
  /\ UNCHANGED taken

TakeOver ==
  /\ taken = <<>>
  /\ taken' = shared
  /\ shared' = <<>>

Report ==
  /\ taken # <<>>
  /\ taken' = Tail(taken)
  /\ UNCHANGED shared

\* At the end of the program.
Discard ==
  /\ taken = <<>>
  /\ shared' = <<>>
  /\ UNCHANGED taken

Next == (\E p \in Pid : Enter(p)) \/ TakeOver \/ Report \/ Discard

Spec == Init /\ [][Next]_vars
=============================================================================
