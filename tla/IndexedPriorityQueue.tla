------------------------ MODULE IndexedPriorityQueue ------------------------
(***************************************************************************)
(* anomaly/indexed_priority_queue.h: the binary heap behind AlarmMonitor,  *)
(* with an index of where each element is so that elements inside the heap *)
(* can be removed.  A heap is a record of the two members: pq without the  *)
(* null element in place 0, and indices without the entry for null.        *)
(***************************************************************************)
EXTENDS Integers, Sequences, SequencesExt

CONSTANTS
  Elements,
  Priority     \* what Comparator compares: the alarm's time

VARIABLE heap

NoIndices == [a \in {} |-> 0]

EmptyHeap == [pq |-> << >>, indices |-> NoIndices]

\* size() and empty()
size(h) == Len(h.pq)

top(h) == IF size(h) < 1 THEN "nullptr" ELSE h.pq[1]

contains(h, a) == a \in DOMAIN h.indices

higher(h, idx1, idx2) ==
  /\ idx1 \in 1 .. size(h) /\ idx2 \in 1 .. size(h)
  /\ Priority[h.pq[idx1]] < Priority[h.pq[idx2]]

swap_indices(h, i, j) ==
  IF i \in 1 .. size(h) /\ j \in 1 .. size(h)
    THEN [pq |-> [h.pq EXCEPT ![i] = h.pq[j], ![j] = h.pq[i]],
          indices |-> [h.indices EXCEPT ![h.pq[i]] = j, ![h.pq[j]] = i]]
    ELSE h

RECURSIVE sift_up(_, _)
sift_up(h, idx) ==
  LET parent == idx \div 2
  IN  IF idx > 1 /\ higher(h, idx, parent)
        THEN sift_up(swap_indices(h, idx, parent), parent) ELSE h

\* The child of idx that is closer to the top.
HigherChild(h, idx) ==
  IF 2 * idx < size(h) /\ higher(h, 2 * idx + 1, 2 * idx) THEN 2 * idx + 1 ELSE 2 * idx

RECURSIVE sift_down(_, _)
sift_down(h, idx) ==
  LET child == HigherChild(h, idx)
  IN  IF 2 * idx <= size(h) /\ higher(h, child, idx)
        THEN sift_down(swap_indices(h, child, idx), child) ELSE h

\* a, which is not the last element, is overwritten by the last one.
LastMovedTo(h, a, idx) ==
  LET last == h.pq[size(h)]
  IN  [pq |-> Front([h.pq EXCEPT ![idx] = last]),
       indices |-> [b \in DOMAIN h.indices \ {a} |-> IF b = last THEN idx ELSE h.indices[b]]]

\* a, which is the last element, is dropped.
LastDropped(h, a) ==
  [pq |-> Front(h.pq), indices |-> [b \in DOMAIN h.indices \ {a} |-> h.indices[b]]]

-----------------------------------------------------------------------------
Init == heap = EmptyHeap

push(a) ==
  IF contains(heap, a) THEN UNCHANGED heap
  ELSE LET idx == size(heap) + 1
           added == [pq |-> Append(heap.pq, a),
                     indices |-> [b \in DOMAIN heap.indices \cup {a} |->
                                    IF b = a THEN idx ELSE heap.indices[b]]]
       IN  heap' = sift_up(added, idx)

remove(a) ==
  IF ~contains(heap, a) THEN UNCHANGED heap
  ELSE LET idx == heap.indices[a]
       IN  heap' = IF idx > size(heap) THEN heap
                   ELSE IF idx = size(heap) THEN LastDropped(heap, a)
                   ELSE sift_down(sift_up(LastMovedTo(heap, a, idx), idx), idx)

\* Mutant of pop: the element moved to the top stays there.
popWithoutSiftDown ==
  /\ size(heap) >= 1
  /\ heap' = IF size(heap) = 1 THEN LastDropped(heap, top(heap))
             ELSE LastMovedTo(heap, top(heap), 1)

pop ==
  /\ size(heap) >= 1
  /\ heap' = IF size(heap) = 1 THEN LastDropped(heap, top(heap))
             ELSE sift_down(LastMovedTo(heap, top(heap), 1), 1)

clear == heap' = EmptyHeap

Next == (\E a \in Elements : push(a) \/ remove(a)) \/ pop \/ clear

Spec == Init /\ [][Next]_heap

-----------------------------------------------------------------------------
\* indices is the inverse of pq, and every element of the heap comes after its
\* parent, whatever elements of equal or different priority are added, removed
\* from inside the heap and popped.
HeapConsistent ==
  /\ \A a \in DOMAIN heap.indices :
       heap.indices[a] \in 1 .. size(heap) /\ heap.pq[heap.indices[a]] = a
  /\ \A i \in 1 .. size(heap) : contains(heap, heap.pq[i])
  /\ \A i \in 2 .. size(heap) : ~higher(heap, i, i \div 2)

Abstract == INSTANCE MinQueue WITH elements <- DOMAIN heap.indices, topElement <- top(heap)

\* The heap implements the queue AlarmMonitor relies on: push, remove, pop and
\* clear change the set of elements as they should, and top is soonest.
ImplementsMinQueue == Abstract!Spec
=============================================================================
