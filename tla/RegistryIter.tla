---------------------------- MODULE RegistryIter ----------------------------
(* Iterators over the structures of a registry (dmi_registry_iter_* of       *)
(* libopendmi/src/registry.c), which a filter may restrict.  An iterator     *)
(* holds its place in the sequence, and looks for the next structure anew    *)
(* when it is asked whether there is one and when it moves there.  A filter  *)
(* is the set of the structures that match it; no filter matches them all.   *)
EXTENDS Registry, FiniteSetsExt

(* dmi_registry_iter_initialize: nullptr, which stands before the head as    *)
(* well as past the tail, is place 0.                                        *)
NewIter(filter) == [position |-> 0, isDone |-> FALSE, filter |-> filter]

(* From a place on, structures that do not match are passed over: the next   *)
(* one that does, or the place past the tail.                                *)
Seek(filter, from) ==
  Min({k \in from..Len(sequence) : sequence[k] \in filter} \cup {Len(sequence) + 1})

\* Mutant of HasNext: the filter is forgotten.
HasNextOfAny(iter) ==
  /\ ~iter.isDone
  /\ iter.position + 1 <= Len(sequence)

(* dmi_registry_iter_has_next                                                *)
HasNext(iter) ==
  /\ ~iter.isDone
  /\ Seek(iter.filter, iter.position + 1) <= Len(sequence)

(* dmi_registry_iter_next: the iterator moves, and gives the structure it    *)
(* has moved to.                                                             *)
Moved(iter) ==
  LET next == Seek(iter.filter, iter.position + 1)
  IN  IF iter.isDone THEN iter
      ELSE IF next <= Len(sequence) THEN [iter EXCEPT !.position = next]
      ELSE [iter EXCEPT !.position = 0, !.isDone = TRUE]

Current(iter) == IF iter.isDone THEN Nothing ELSE sequence[iter.position]

-----------------------------------------------------------------------------
(* An iterator after each of the calls that moves it, more of them than      *)
(* there are structures.                                                     *)
Rounds == Len(sequence) + 2
Calls(filter) ==
  LET iter[n \in 0..Rounds] == IF n = 0 THEN NewIter(filter) ELSE Moved(iter[n - 1])
  IN  iter

(* Called again and again, an iterator gives the structures that match: the  *)
(* n-th of them in the order of the sequence by the n-th call, and nothing   *)
(* after the last; before every call it tells, without moving, whether that  *)
(* call gives a structure (registry.h:389-433).                              *)
Places(filter) == {k \in DOMAIN sequence : sequence[k] \in filter}
Rank(k, filter) == Cardinality(Places(filter) \cap 1..k)

IterGivesMatches ==
  phase = "done" /\ answer = Nothing =>
    \A filter \in SUBSET Entities :
      LET iter   == Calls(filter)
          wanted == Cardinality(Places(filter))
      IN  /\ \A k \in Places(filter) : Current(iter[Rank(k, filter)]) = sequence[k]
          /\ \A n \in 1..Rounds : HasNext(iter[n - 1]) <=> n <= wanted
          /\ \A n \in 1..Rounds : n > wanted => Current(iter[n]) = Nothing
=============================================================================
