------------------------------ MODULE MCProcaff ------------------------------
(* Procaff for TLC: threads and CPUs are interchangeable.                  *)
EXTENDS Procaff, TLC

Symmetry == Permutations(Tid) \cup Permutations(Cpu)
=============================================================================
