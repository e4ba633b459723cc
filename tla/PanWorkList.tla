------------------------------ MODULE PanWorkList ------------------------------
(***************************************************************************)
(* Panning (ui/zoom.cpp): a full-size zoom box that was only moved shifts  *)
(* the picture and the saved work list with it, and the edges that come    *)
(* into view are added to the list.  Symmetric windows that no longer lie  *)
(* on the screen as a whole are cut.                                       *)
(*                                                                         *)
(* The engine is taken one item at a time: an item of the list is done, or *)
(* a key stops it at one of its pixels.  StandardEngine has its steps.     *)
(***************************************************************************)
EXTENDS WorkList, FiniteSets

CONSTANTS XDots, YDots, Sym, Between,   \* as in SetSymmetry
          HomeAxis,         \* where the axes are before the first pan
          CalcMode,         \* "ONE_PASS" or "TWO_PASS"
          CompletedPans,    \* what the user may pan a completed image by,
          SuspendedPans,    \* and an interrupted one: points, x columns and y rows
          MaxPans, MaxStops \* bounds: pans, and keys that stop an item

\* The middle of the zoom box stays on the screen (move_box).  Zooming out of the
\* box pans the other way.
PansOfBox == [x : -(XDots \div 2) .. XDots \div 2, y : -(YDots \div 2) .. YDots \div 2]

VARIABLES calc_status,  \* g_calc_status
          resume_data,  \* the list in g_resume_data, <<>> when there is none
          axis,         \* y_axis_col and x_axis_row
          shown,        \* the pixels that show their own colour
          pans_left, stops_left

vars == <<calc_status, resume_data, axis, shown, pans_left, stops_left>>

\* The symmetry of the image as it is now: the axes move with the picture.
S == INSTANCE SetSymmetry WITH Axis <- axis

ASSUME PanAssumption == /\ XDots \in Nat \ {0} /\ YDots \in Nat \ {0}
                        /\ Sym \in S!SymmetryKinds /\ Between \in [x : BOOLEAN, y : BOOLEAN]
                        /\ HomeAxis \in [x : Int, y : Int]
                        /\ CalcMode \in {"ONE_PASS", "TWO_PASS"}
                        /\ CompletedPans \cup SuspendedPans \subseteq PansOfBox \ {Pt(0, 0)}
                        /\ MaxPans \in Nat /\ MaxStops \in Nat

Screen == [x : 0 .. XDots - 1, y : 0 .. YDots - 1]

Init == /\ calc_status = "PARAMS_CHANGED" /\ resume_data = <<>>
        /\ axis = HomeAxis /\ shown = {}
        /\ pans_left = MaxPans /\ stops_left = MaxStops

-----------------------------------------------------------------------------
\* The engine: the front item of the list, its symmetry decided.

WholeScreen == S!WholeScreen

List == IF calc_status = "RESUMABLE" THEN resume_data ELSE <<WholeScreen>>
Old  == IF calc_status = "RESUMABLE" THEN shown ELSE {}

Cut == S!SetSymmetry(S!Window(Head(List)), PopWorkListFront(List))

Even(n) == n % 2 = 0
FirstPass(w) == CalcMode = "TWO_PASS" /\ w.pass = 0
LastOfTwo(w) == CalcMode = "TWO_PASS" /\ w.pass # 0

AtOrAfter(p, q) == p.y > q.y \/ (p.y = q.y /\ p.x >= q.x)

Half(w) == [x : w.start.x .. w.i_stop.x, y : w.start.y .. w.i_stop.y]

\* The first pass of two copies even points, and steps over the copies.
CopiesDown(w, p)  == FirstPass(w) /\ Even(p.y) /\ p.y < w.i_stop.y
CopiesRight(w, p) == FirstPass(w) /\ Even(p.x) /\ p.x < w.i_stop.x
Copies(w, p) == {c \in {Pt(p.x, p.y + 1), Pt(p.x + 1, p.y), Pt(p.x + 1, p.y + 1)} :
                    (c.y > p.y => CopiesDown(w, p)) /\ (c.x > p.x => CopiesRight(w, p))}

\* The pixels the pass calculates, from where the entry begins.
Calculated(w) ==
    {p \in Half(w) :
        /\ AtOrAfter(p, w.begin)
        /\ FirstPass(w) => /\ Even(p.y) \/ p.y \in {w.start.y, w.begin.y}
                           /\ Even(p.x) \/ p.x = w.start.x \/ p = w.begin
        /\ LastOfTwo(w) => ~(Even(p.x) /\ Even(p.y))}

Right(w, p) == S!Targets(w, p) \cap S!SameColour(p)
Written(w, pixels) == UNION {UNION {S!Targets(w, c) : c \in {p} \cup Copies(w, p)} :
                                p \in pixels}

\* What is shown when these pixels have been plotted, mirrored and copied.
Plotted(w, pixels) == (Old \ Written(w, pixels)) \cup UNION {Right(w, p) : p \in pixels}

\* The item is done; an item that has done the first pass waits for the second.
FinishItem(w, list) ==
    LET rest == IF FirstPass(w)
                THEN AddWorkList(list, Entry(w.start, w.stop, w.start, 1, w.symmetry))
                ELSE list
    IN  /\ shown' = Plotted(w, Calculated(w))
        /\ resume_data' = rest
        /\ calc_status' = IF rest = <<>> THEN "COMPLETED" ELSE "RESUMABLE"

\* The rows that remain, when the bottom ones mirror the top ones.
StopRowForResume(w, row) == IF w.i_stop.y # w.stop.y THEN w.stop.y - (row - w.start.y)
                            ELSE w.stop.y

\* A key stops the item at one of its pixels, and the list is saved.
StopItem(w, list, at) ==
    LET interrupted == IF FirstPass(w) THEN Entry(w.start, w.stop, at, 0, w.symmetry)
                       ELSE Entry(Pt(w.start.x, at.y), Pt(w.stop.x, StopRowForResume(w, at.y)),
                                  at, w.pass, w.symmetry)
    IN  /\ at \in Calculated(w)
        /\ shown' = Plotted(w, {p \in Calculated(w) : ~AtOrAfter(p, at)})
        /\ resume_data' = AddWorkList(list, interrupted)
        /\ calc_status' = "RESUMABLE"

Calculate ==
    /\ calc_status # "COMPLETED"
    /\ LET cut == Cut
       IN  \/ FinishItem(cut.win, cut.list) /\ UNCHANGED stops_left
           \/ /\ stops_left > 0 /\ stops_left' = stops_left - 1
              /\ \E at \in Screen : StopItem(cut.win, cut.list, at)
    /\ UNCHANGED <<axis, pans_left>>

-----------------------------------------------------------------------------
\* init_pan_or_recalc: the picture moves by -d, so pixel p shows what p + d was.

Minus(p, d) == Pt(p.x - d.x, p.y - d.y)
Plus(p, d)  == Pt(p.x + d.x, p.y + d.y)

\* check_pan: an interrupted image of two passes moves by even steps.  A box that
\* was moved while it was smaller may stand at an odd one.
AnyAlignment(d) == TRUE                                         \* mutant
Aligned(d) == calc_status = "RESUMABLE" /\ CalcMode = "TWO_PASS" => Even(d.x) /\ Even(d.y)

\* The work list loaded from the resume data, shifted.
Shifted(d) ==
    LET list == IF calc_status = "RESUMABLE" THEN resume_data ELSE <<>>
    IN  [k \in 1 .. Len(list) |-> [list[k] EXCEPT !.start = Minus(@, d), !.stop = Minus(@, d),
                                                  !.begin = Minus(@, d)]]

Strip(start, stop) == Entry(start, stop, start, 0, Undecided)

\* The edges that come into view: whole rows, then the columns of the other rows.
EdgeRows(d) ==
    CASE d.y < 0 -> <<Strip(Pt(0, 0), Pt(XDots - 1, -d.y - 1))>>
      [] d.y > 0 -> <<Strip(Pt(0, YDots - d.y), Pt(XDots - 1, YDots - 1))>>
      [] OTHER   -> <<>>
ColumnTop(d)       == IF d.y < 0 THEN -d.y ELSE 0
ColumnBottom(d)    == IF d.y > 0 THEN YDots - d.y - 1 ELSE YDots - 1
EdgeColumns(d) ==
    CASE d.x < 0 -> <<Strip(Pt(0, ColumnTop(d)), Pt(-d.x - 1, ColumnBottom(d)))>>
      [] d.x > 0 -> <<Strip(Pt(XDots - d.x, ColumnTop(d)), Pt(XDots - 1, ColumnBottom(d)))>>
      [] OTHER   -> <<>>
Edges(d) == EdgeRows(d) \o EdgeColumns(d)

\* The list after the first n edges, and whether one of them found it full.
WithEdges(d, n) == LET after[k \in 0 .. n] == IF k = 0 THEN Shifted(d)
                                              ELSE AddWorkList(after[k - 1], Edges(d)[k])
                   IN  after[n]
EdgeRefused(d) == \E k \in 1 .. Len(Edges(d)) : ListFull(WithEdges(d, k - 1))

-----------------------------------------------------------------------------
\* fix_work_list: the state is the list, the position in it, and the pixels that
\* restart_window has blanked.  An entry that passes Offscreen has its first row on
\* the screen, so the branches for an entry partly off the top edge and for one
\* with its first row below the bottom edge are never taken.

Offscreen(e) == \/ e.start.y >= YDots \/ e.start.y < 0
                \/ e.start.x >= XDots \/ e.stop.x < 0

Rectangle(e) == [x : e.start.x .. e.stop.x, y : e.start.y .. e.stop.y]

DeleteEntry(st) == [st EXCEPT !.list = Delete(st.list, st.at)]

\* The entry at the position becomes e.
Put(st, e) == [st EXCEPT !.list = [@ EXCEPT ![st.at] = e]]

RestartWindow(st) ==
    LET e == st.list[st.at]
    IN  [Put(st, Entry(e.start, e.stop, e.start, 0, Undecided))
             EXCEPT !.blanked = @ \cup (Rectangle(e) \cap Screen)]

RoomToCopy(list) == ~ListFull(list)

Columns(e, first, last) == [e EXCEPT !.start.x = first, !.stop.x = last]

\* A copy of the entry, for columns first to last, goes to the end of the table.
SplitOff(st, first, last) ==
    [st EXCEPT !.list = Append(@, Columns(st.list[st.at], first, last))]

\* Partly off the left edge: the columns whose mirror images are off the screen
\* are no longer symmetric and start over.
FixLeftEdge(st) ==
    LET e == st.list[st.at]
        j == e.stop.x + e.start.x
    IN  CASE e.start.x >= 0 -> st
          [] e.start.x < 0 /\ e.symmetry.x # "yes" -> Put(st, Columns(e, 0, e.stop.x))
          [] OTHER ->
                 RestartWindow(IF j > 0 /\ RoomToCopy(st.list)
                               THEN Put(SplitOff(st, 0, j), Columns(e, j + 1, e.stop.x))
                               ELSE Put(st, Columns(e, 0, e.stop.x)))

StillSymmetric(e) == e                                          \* mutant
NoLongerSymmetric(e) == IF e.symmetry.x = "yes" THEN [e EXCEPT !.symmetry.x = "no"] ELSE e

\* Partly off the right edge: the columns whose mirror images are off the screen
\* are the ones being calculated, and go on without symmetry.
FixRightEdge(st) ==
    LET e      == st.list[st.at]
        last   == XDots - 1
        k      == e.start.x + (e.stop.x - last)
        splits == e.symmetry.x = "yes" /\ k < last
        room   == RoomToCopy(st.list)
        next   == CASE splits /\ room  -> SplitOff(st, k, last)
                    [] splits /\ ~room -> RestartWindow(st)
                    [] OTHER           -> st
        stop   == IF splits /\ room THEN k - 1 ELSE last
    IN  IF e.stop.x < XDots THEN st
        ELSE Put(next, NoLongerSymmetric(Columns(next.list[st.at], e.start.x, stop)))

BeginOfRow(e) == Pt(e.begin.x, e.start.y)                       \* mutant
\* The entry resumes in its own columns, and from its first row.
BeginWithin(e) == Pt(CASE e.begin.x < e.start.x -> e.start.x
                       [] e.begin.x > e.stop.x  -> e.stop.x
                       [] OTHER                 -> e.begin.x, e.start.y)

FixBegin(st) == Put(st, [st.list[st.at] EXCEPT !.begin = BeginWithin(st.list[st.at])])

FixEntry(st) ==
    CASE st.at > Len(st.list) -> st
      [] st.at <= Len(st.list) /\ Offscreen(st.list[st.at]) -> DeleteEntry(st)
      [] OTHER -> [FixBegin(FixRightEdge(FixLeftEdge(st))) EXCEPT !.at = @ + 1]

\* Every entry is deleted or fixed and may leave up to two copies behind it.
FixWorkList(list) ==
    LET after[n \in 0 .. 3 * MaxCalcWork] ==
            IF n = 0 THEN [list |-> list, at |-> 1, blanked |-> {}]
            ELSE FixEntry(after[n - 1])
        fixed == after[3 * MaxCalcWork]
    IN  [fixed EXCEPT !.list = TidyWorkList(@)]

-----------------------------------------------------------------------------
\* The user pans.

Recalc == calc_status' = "PARAMS_CHANGED" /\ UNCHANGED <<resume_data, shown>>

PanBy(d) ==
    LET fixed == FixWorkList(WithEdges(d, Len(Edges(d))))
    IN  /\ calc_status' = "RESUMABLE"
        /\ resume_data' = fixed.list
        /\ shown' = {p \in Screen : Plus(p, d) \in shown} \ fixed.blanked

\* Tables full: the user may keep the old image and resume it.
InitPanOrRecalc(d) ==
    \/ ~Aligned(d) /\ Recalc /\ axis' = Minus(axis, d)
    \/ /\ Aligned(d)
       /\ IF EdgeRefused(d)
          THEN \/ Recalc /\ axis' = Minus(axis, d)
               \/ UNCHANGED <<calc_status, resume_data, shown, axis>>
          ELSE PanBy(d) /\ axis' = Minus(axis, d)

Pan(d) == /\ \/ calc_status = "COMPLETED" /\ d \in CompletedPans
             \/ calc_status = "RESUMABLE" /\ d \in SuspendedPans
          /\ pans_left > 0 /\ pans_left' = pans_left - 1
          /\ InitPanOrRecalc(d)
          /\ UNCHANGED stops_left

WaitForKey == calc_status = "COMPLETED" /\ UNCHANGED vars

Next == Calculate \/ (\E d \in CompletedPans \cup SuspendedPans : Pan(d)) \/ WaitForKey

Spec == Init /\ [][Next]_vars

-----------------------------------------------------------------------------
\* The pixels an entry still gives their colour.
Due(w) == {p \in Half(w) :
              CASE FirstPass(w) -> AtOrAfter(p, w.begin) \/ ~(Even(p.x) /\ Even(p.y))
                [] OTHER -> AtOrAfter(p, w.begin) /\ (LastOfTwo(w) => ~(Even(p.x) /\ Even(p.y)))}

PendingOf(e) ==
    LET cut == S!SetSymmetry(S!Window(e), <<>>)
    IN  (UNION {Right(cut.win, p) : p \in Due(cut.win)})
        \cup (UNION {Rectangle(cut.list[k]) : k \in 1 .. Len(cut.list)})
Pending(list) == UNION {PendingOf(list[k]) : k \in 1 .. Len(list)}

TypeOK == /\ calc_status \in {"PARAMS_CHANGED", "RESUMABLE", "COMPLETED"}
          /\ resume_data \in Seq(Entries) /\ Len(resume_data) <= MaxCalcWork
          /\ axis \in Points /\ shown \subseteq Screen
          /\ pans_left \in 0 .. MaxPans /\ stops_left \in 0 .. MaxStops

\* However an image is stopped and panned, each of its pixels shows its colour or
\* is covered by the saved list; a completed image shows them all (help.src: "Id
\* just moves what's already on the screen and then fills in the new edges").
NothingLeftOut == /\ calc_status = "RESUMABLE" => Screen \subseteq shown \cup Pending(resume_data)
                  /\ calc_status = "COMPLETED" => shown = Screen

\* The entries fix_work_list leaves are windows of the screen and begin in
\* themselves ("fix out of bounds ... stuff").
EntriesOnScreen ==
    \A k \in 1 .. Len(resume_data) :
        LET e == resume_data[k]
        IN  e.start \in Screen /\ e.stop \in Screen /\ e.begin \in Rectangle(e)

\* The symmetric parts split off and the edges share no pixel with what is left.
EntriesApart == \A i, j \in 1 .. Len(resume_data) :
                    i # j => Rectangle(resume_data[i]) \cap Rectangle(resume_data[j]) = {}

\* The list a pan leaves can be resumed: it fits into its table, and its entries are
\* windows of the screen that share no pixel (fix_work_list clips, splits and copies them).
PanInv == TypeOK /\ EntriesOnScreen /\ EntriesApart

\* Resuming a panned image never plots over a pixel that shows its colour and that
\* no entry covers: a window still called symmetric is so, and guesses and mirror
\* images only go where the list says that there is work.
FinishedStays == [][Calculate /\ calc_status = "RESUMABLE" =>
                        shown \ Pending(resume_data) \subseteq shown']_vars

=============================================================================
