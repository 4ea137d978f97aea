------------------------------- MODULE CpuList -------------------------------
(***************************************************************************)
(* The lists of CPUs main() is given, as cpu_in_cpulist reads them         *)
(* (procaffinity/helper.h).  A list is a sequence of tokens: a number for  *)
(* every run of digits, and one token for every other character.           *)
(***************************************************************************)
EXTENDS Integers, Sequences

Comma == -1
Dash == -2
Other == -3

Number(list, i) == i \in DOMAIN list /\ list[i] >= 0
Has(list, i, token) == i \in DOMAIN list /\ list[i] = token

\* Mutant: the last CPU of a range is left out.
RangeOpen(list, i, cpu) == list[i] =< cpu /\ cpu < list[i + 2]

RangeHas(list, i, cpu) == list[i] =< cpu /\ cpu =< list[i + 2]

\* cpu_in_cpulist, from the token it is at.  After an item one character is
\* skipped, whatever it is.
CpuInCpulist(list, cpu) ==
  LET from[i \in 1 .. Len(list) + 4] ==
        /\ Number(list, i)
        /\ IF Has(list, i + 1, Dash)
           THEN Number(list, i + 2) /\ (RangeHas(list, i, cpu) \/ from[i + 4])
           ELSE \/ (Has(list, i + 1, Comma) \/ i = Len(list)) /\ cpu = list[i]
                \/ from[i + 2]
  IN  from[1]

-----------------------------------------------------------------------------
\* Items are numbers or ranges, with commas between them.
WellFormed(list) ==
  /\ Len(list) % 2 = 1
  /\ \A i \in DOMAIN list :
       IF i % 2 = 1 THEN list[i] >= 0
       ELSE list[i] = Comma \/ (list[i] = Dash /\ ~Has(list, i - 2, Dash))

\* The item that begins at i has the CPU in it.
Covers(list, i, cpu) ==
  /\ Number(list, i) /\ ~Has(list, i - 1, Dash)
  /\ IF Has(list, i + 1, Dash) THEN cpu \in list[i] .. list[i + 2] ELSE cpu = list[i]

\* The CPUs a well-formed list stands for.
Denotes(list, cpu) == \E i \in DOMAIN list : Covers(list, i, cpu)
=============================================================================
