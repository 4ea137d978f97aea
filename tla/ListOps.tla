------------------------------- MODULE ListOps -------------------------------
(***************************************************************************)
(* The intrusive list of list.h.  The pointers of all nodes are a record l *)
(* of two functions, l.next and l.prev; an operation is the pointers after *)
(* it.  A list is a ring through a head that is no entry.                  *)
(***************************************************************************)
EXTENDS Integers, Sequences

\* list_init
ListInit(l, n) ==
  [next |-> [l.next EXCEPT ![n] = n], prev |-> [l.prev EXCEPT ![n] = n]]

\* list_add_before: before the head is at the end of the list.
ListAddBefore(l, n, a) ==
  [next |-> [l.next EXCEPT ![a] = n, ![l.prev[n]] = a],
   prev |-> [l.prev EXCEPT ![a] = l.prev[n], ![n] = a]]

\* list_add_after: after the head is at the front of the list.
ListAddAfter(l, n, a) ==
  [next |-> [l.next EXCEPT ![a] = l.next[n], ![n] = a],
   prev |-> [l.prev EXCEPT ![a] = n, ![l.next[n]] = a]]

\* list_remove leaves the pointers of the entry itself as they are.
ListRemove(l, e) ==
  [next |-> [l.next EXCEPT ![l.prev[e]] = l.next[e]],
   prev |-> [l.prev EXCEPT ![l.next[e]] = l.prev[e]]]

\* From the head and from every node of X the list leads to X or to the head.
Closed(l, h, X) == \A n \in X \cup {h} : l.next[n] \in X \cup {h}

\* The nodes list_for_each_entry comes past on its way from the head back to it,
\* of a list whose entries are in S.
Members(l, h, S) == {n \in S : \A X \in SUBSET S : Closed(l, h, X) => n \in X}

-----------------------------------------------------------------------------
\* The pointers between h and its list, both ways, spell out the sequence s.
At(h, s, i) == IF i \in 1 .. Len(s) THEN s[i] ELSE h

Ring(l, h, s) ==
  /\ \A i \in 1 .. Len(s) : s[i] # h
  /\ \A i, j \in 1 .. Len(s) : s[i] = s[j] => i = j
  /\ \A i \in 0 .. Len(s) :
       /\ l.next[At(h, s, i)] = At(h, s, i + 1)
       /\ l.prev[At(h, s, i + 1)] = At(h, s, i)
=============================================================================
