-------------------------- MODULE MCSpecialization --------------------------
(* Specialization for TLC: threads are interchangeable, CPUs are not (the  *)
(* loop of main() takes them in order).                                    *)
EXTENDS Specialization, TLC

Symmetry == Permutations(Tid)
=============================================================================
