------------------------------ MODULE MinQueue ------------------------------
(***************************************************************************)
(* What anomaly/indexed_priority_queue.h promises: a set of elements that  *)
(* can be added, removed and taken from the top, where the top is an       *)
(* element no other one comes before.  AlarmMonitor relies on no more than *)
(* this (operator Soonest).                                                *)
(***************************************************************************)
EXTENDS Integers

CONSTANTS
  Elements,
  Priority     \* what Comparator compares: the alarm's time

VARIABLES
  elements,
  topElement   \* what top() returns, "nullptr" for an empty queue

IsTop(S, a) ==
  IF S = {} THEN a = "nullptr" ELSE a \in S /\ \A b \in S : Priority[a] <= Priority[b]

Init == elements = {} /\ topElement = "nullptr"

Becomes(S) == elements' = S /\ IsTop(S, topElement')

Push(a) == Becomes(elements \cup {a})
Remove(a) == Becomes(elements \ {a})
Pop == Becomes(elements \ {topElement})
Clear == Becomes({})

Next == (\E a \in Elements : Push(a) \/ Remove(a)) \/ Pop \/ Clear

Spec == Init /\ [][Next]_<<elements, topElement>>
=============================================================================
