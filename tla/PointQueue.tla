------------------------------- MODULE PointQueue -------------------------------
(***************************************************************************)
(* What the inverse Julia methods expect of their queue: points come out   *)
(* in the order they went in (breadth first) or the other way round (depth *)
(* first); a queue holds one point less than its size.                     *)
(***************************************************************************)
EXTENDS Integers, Sequences

CONSTANTS PointsGiven, \* the points that are put in
          NoPoint      \* what an empty queue gives

VARIABLES size,   \* 0 when there is no queue
          items, taken

vars == <<size, items, taken>>

Init == size = 0 /\ items = <<>> /\ taken = NoPoint

Set(points, point) == items' = points /\ taken' = point

\* A queue that is full takes nothing.
Push == /\ size # 0 /\ UNCHANGED size
        /\ IF Len(items) < size - 1 THEN \E p \in PointsGiven : Set(Append(items, p), NoPoint)
           ELSE Set(items, NoPoint)

Dequeue == /\ size # 0 /\ UNCHANGED size
           /\ IF items # <<>> THEN Set(Tail(items), Head(items)) ELSE Set(<<>>, NoPoint)

Pop == /\ size # 0 /\ UNCHANGED size
       /\ IF items # <<>> THEN Set(SubSeq(items, 1, Len(items) - 1), items[Len(items)]) ELSE Set(<<>>, NoPoint)

Clear == size # 0 /\ UNCHANGED size /\ Set(<<>>, NoPoint)

Resize == size' \in Nat /\ Set(<<>>, NoPoint)

Next == Push \/ Dequeue \/ Pop \/ Clear \/ Resize

Spec == Init /\ [][Next]_vars

=============================================================================
