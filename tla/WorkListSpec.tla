----------------------------- MODULE WorkListSpec -----------------------------
(***************************************************************************)
(* The work list used on its own: rectangles are added and the front entry *)
(* is taken, in any order.  "owed" remembers what was asked of the list,   *)
(* pixel by pixel, so that merging and sorting can be held against it.     *)
(***************************************************************************)
EXTENDS WorkList, FiniteSets

CONSTANT Pool       \* the entries that may be added

\* What the engine makes of a window: its corners are in order, and it begins in
\* one of its own columns.
Proper(e) == /\ e.start.x <= e.stop.x /\ e.start.y <= e.stop.y
             /\ e.begin.x <= e.stop.x

ASSUME PoolAssumption == Pool \subseteq {e \in Entries : Proper(e)}

VARIABLES list,     \* g_work_list[0 .. g_num_work_list - 1]
          owed      \* <<x, y, pass>> added and not yet taken (history)

vars == <<list, owed>>

Rectangle(e) == (e.start.x .. e.stop.x) \X (e.start.y .. e.stop.y)

\* The pixels an entry stands for: its rectangle from begin on, row by row.
Pixels(e) == {p \in Rectangle(e) : \/ p[2] > e.begin.y
                                   \/ p[2] = e.begin.y /\ p[1] >= e.begin.x}

Owes(e) == {<<p[1], p[2], e.pass>> : p \in Pixels(e)}

Init == list = <<>> /\ owed = {}

\* The engine only adds a rectangle that no pending entry overlaps.
Add(e) == /\ \A k \in 1 .. Len(list) : Rectangle(e) \cap Rectangle(list[k]) = {}
          /\ list' = AddWorkList(list, e)
          /\ owed' = IF ListFull(list) THEN owed ELSE owed \cup Owes(e)

Pop == /\ Len(list) > 0
       /\ list' = PopWorkListFront(list)
       /\ owed' = owed \ Owes(Head(list))

Next == (\E e \in Pool : Add(e)) \/ Pop

Spec == Init /\ [][Next]_vars

-----------------------------------------------------------------------------
\* The list never outgrows its table and holds proper entries
\* (work_list.cpp:17, 36 refuse an entry when the table is full).
TypeOK == /\ list \in Seq(Entries)
          /\ Len(list) <= MaxCalcWork

\* Merging and sorting lose no pixel of any pass that was added
\* (combine_work_list moves start, stop and begin of the surviving entry).
NothingForgotten == owed \subseteq UNION {Owes(list[k]) : k \in 1 .. Len(list)}

\* Merging never grows an entry over a neighbour: no two entries overlap.
NoOverlap == \A i, j \in 1 .. Len(list) :
                i # j => Rectangle(list[i]) \cap Rectangle(list[j]) = {}

\* The front entry is one of the lowest pass, topmost, then leftmost: the
\* order TwoPass relies on to finish every first pass before a second one.
InOrder == \A i, j \in 1 .. Len(list) : i < j => ~Before(list[j], list[i])

\* No two untouched entries that could be merged are left side by side
\* (tidy_work_list repeats until combine_work_list finds nothing).
FullyCombined ==
    \A i, j \in 1 .. Len(list) :
        i # j /\ list[i].begin = list[i].start => ~Combinable(list[i], list[j])

\* The list is tidy whenever it is looked at: a merge moves the corner an entry is sorted
\* by, and sorting brings entries together that were not compared before.
Tidy == InOrder /\ FullyCombined

=============================================================================
