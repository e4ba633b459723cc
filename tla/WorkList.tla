------------------------------- MODULE WorkList -------------------------------
(***************************************************************************)
(* The work list of the standard escape-time engine: the rectangles of the *)
(* image that are still to be calculated (engine/work_list.cpp).  Entries  *)
(* that touch are merged and the list is kept sorted, so that the engine   *)
(* always takes the entry with the lowest pass, topmost and leftmost.      *)
(***************************************************************************)
EXTENDS Integers, Sequences

CONSTANT MaxCalcWork    \* MAX_CALC_WORK, the capacity of g_work_list

ASSUME MaxCalcWorkAssumption == MaxCalcWork \in Nat \ {0}

-----------------------------------------------------------------------------
\* Points and entries.

Pt(x, y) == [x |-> x, y |-> y]

\* Per axis, what set_symmetry has decided: nothing yet (bits 0), that the axis
\* is not used (bit 0x10 or 0x20 alone), that it is used (bit 1 or 2 as well).
Decision == {"new", "no", "yes"}
Undecided == [x |-> "new", y |-> "new"]
DecidedNo == [x |-> "no", y |-> "no"]

Entry(start, stop, begin, pass, symmetry) ==
    [start |-> start, stop |-> stop, begin |-> begin,
     pass |-> pass, symmetry |-> symmetry]

\* Every entry whose coordinates are integers.
Points == [x : Int, y : Int]
Entries == [start : Points, stop : Points, begin : Points,
            pass : Int, symmetry : [x : Decision, y : Decision]]

-----------------------------------------------------------------------------
\* combine_work_list: look for two entries which can freely merge.

\* The condition common to every merge; it is not symmetric in e and f.
FreelyMergeAnyPass(e, f) == /\ e.start.y = e.begin.y            \* mutant
                            /\ f.start = f.begin
                            /\ f.symmetry = e.symmetry
FreelyMerge(e, f) == /\ e.start.y = e.begin.y
                     /\ f.start = f.begin
                     /\ f.symmetry = e.symmetry
                     /\ f.pass = e.pass

\* e and f agree in one coordinate and f follows e directly in the other one.
TouchesUneven(e, f, along, across) ==                           \* mutant
    /\ e.start[across] = f.start[across]
    /\ e.begin[across] = f.begin[across]
    /\ e.stop[along] + 1 = f.start[along]
Touches(e, f, along, across) == /\ e.start[across] = f.start[across]
                                /\ e.begin[across] = f.begin[across]
                                /\ e.stop[across] = f.stop[across]
                                /\ e.stop[along] + 1 = f.start[along]

Above(e, f)  == Touches(e, f, "y", "x")
LeftOf(e, f) == Touches(e, f, "x", "y")

Combinable(e, f) == /\ FreelyMerge(e, f)
                    /\ Above(e, f) \/ Above(f, e) \/ LeftOf(e, f) \/ LeftOf(f, e)

\* What entry e becomes when it swallows f.
Merged(e, f) ==
    CASE Above(e, f)  -> [e EXCEPT !.stop.y = f.stop.y]
      [] Above(f, e)  -> [e EXCEPT !.start.y = f.start.y, !.begin.y = f.begin.y]
      [] LeftOf(e, f) -> [e EXCEPT !.stop.x = f.stop.x]
      [] OTHER        -> [e EXCEPT !.start.x = f.start.x, !.begin.x = f.begin.x]

CombinablePairs(list) ==
    {p \in (1 .. Len(list)) \X (1 .. Len(list)) :
        p[1] < p[2] /\ Combinable(list[p[1]], list[p[2]])}

\* The pair the two nested loops meet first.
FirstPair(pairs) ==
    CHOOSE p \in pairs : \A q \in pairs : \/ p[1] < q[1]
                                          \/ p[1] = q[1] /\ p[2] <= q[2]

Delete(list, j) == SubSeq(list, 1, j - 1) \o SubSeq(list, j + 1, Len(list))

\* One turn of the loop of tidy_work_list: merge a pair and delete the gone one.
CombineWorkList(list) ==
    LET pairs == CombinablePairs(list)
        p     == FirstPair(pairs)
    IN  IF pairs = {} THEN list
        ELSE Delete([list EXCEPT ![p[1]] = Merged(list[p[1]], list[p[2]])], p[2])

CombinedOnce(list) == CombineWorkList(list)                     \* mutant
\* Every merge shortens the list, so Len(list) turns reach the fixed point.
Combined(list) ==
    LET after[n \in 0 .. Len(list)] ==
            IF n = 0 THEN list ELSE CombineWorkList(after[n - 1])
    IN  after[Len(list)]

-----------------------------------------------------------------------------
\* The "dumb sort" of tidy_work_list: by pass, then top row, then left column.

Before(e, f) == \/ e.pass < f.pass
                \/ /\ e.pass = f.pass
                   /\ \/ e.start.y < f.start.y
                      \/ e.start.y = f.start.y /\ e.start.x < f.start.x

SwapIfBefore(list, i, j) ==
    IF i < j /\ Before(list[j], list[i])
    THEN [list EXCEPT ![i] = list[j], ![j] = list[i]]
    ELSE list

\* Turn n of the two nested loops compares positions i < j of that turn.
Sorted(list) ==
    LET size == Len(list)
        after[n \in 0 .. size * size] ==
            IF n = 0 THEN list
            ELSE SwapIfBefore(after[n - 1], ((n - 1) \div size) + 1, ((n - 1) % size) + 1)
    IN  after[size * size]

-----------------------------------------------------------------------------
\* The operations of the list.

TidyWorkList(list) == IF Len(list) < 2 THEN list ELSE Sorted(Combined(list))

\* add_work_list returns true, and changes nothing, when the table is full.
ListFull(list) == Len(list) >= MaxCalcWork

AddWorkList(list, entry) ==
    IF ListFull(list) THEN list ELSE TidyWorkList(Append(list, entry))

PopWorkListFront(list) == Tail(list)

=============================================================================
