------------------------------ MODULE SetSymmetry ------------------------------
(***************************************************************************)
(* How the engine exploits the symmetry of a fractal (set_symmetry and the *)
(* sym_plot functions of engine/calcfrac.cpp): the current window is cut   *)
(* so that an axis runs through its middle, the piece cut off goes to the  *)
(* work list, one half is calculated and every plot is mirrored.           *)
(***************************************************************************)
EXTENDS WorkList

CONSTANTS XDots, YDots,  \* g_logical_screen.x_dots, y_dots
          Sym,           \* the symmetry of the fractal, once its parameters are tested
          Axis,          \* Axis.x: y_axis_col, Axis.y: x_axis_row, -1 when off screen
          Between        \* the axis lies between that pixel and the next one

SymmetryKinds == {"NONE", "X_AXIS", "Y_AXIS", "XY_AXIS", "ORIGIN"}

ASSUME SymmetryAssumption == /\ XDots \in Nat \ {0} /\ YDots \in Nat \ {0}
                             /\ Sym \in SymmetryKinds
                             /\ Axis \in [x : Int, y : Int]
                             /\ Between \in [x : BOOLEAN, y : BOOLEAN]

Screen == [x : 0 .. XDots - 1, y : 0 .. YDots - 1]

WholeScreen == Entry(Pt(0, 0), Pt(XDots - 1, YDots - 1), Pt(0, 0), 0, Undecided)

-----------------------------------------------------------------------------
\* The window being calculated: an entry, the corner where the calculation
\* stops (g_i_stop_pt) and the plot function.  g_i_start_pt is always start.

Window(e) == [start |-> e.start, stop |-> e.stop, i_stop |-> e.stop, begin |-> e.begin,
              pass |-> e.pass, symmetry |-> e.symmetry, plot |-> "put_color"]

\* The coordinate d of the pixel across the axis.
Across(d, c) == 2 * Axis[d] - c + (IF Between[d] THEN 1 ELSE 0)

\* A split needs two free places: for the piece and for the window itself.
RoomForOne(list)   == Len(list) < MaxCalcWork                   \* mutant
RoomToSplit(list)  == Len(list) < MaxCalcWork - 1

\* A piece cut off the window starts over, with its symmetry undecided.
CutOff(win, d, first) == LET corner == [win.start EXCEPT ![d] = first]
                         IN  Entry(corner, win.stop, corner, win.pass, Undecided)

\* The axis runs strictly inside the window.
Inside(d, win) == win.start[d] < Axis[d] /\ Axis[d] < win.stop[d]

\* The image of the window's first coordinate, and the last with an image in it.
Far(d, win)  == Across(d, win.start[d])
Last(d, win) == Across(d, win.stop[d]) - 1

\* The state of a split is the window, the work list, and whether the axis is a
\* go (the C++ functions return FALSE).
NotUsed(d, st) == [st EXCEPT !.win.symmetry[d] = "no", !.go = FALSE]
Used(d, st, middle) == [st EXCEPT !.win.symmetry[d] = "yes", !.win.i_stop[d] = middle,
                                  !.go = TRUE]

\* The far piece has the symmetry: it is put on the list.
ListFarPiece(d, st) ==
    LET last == Last(d, st.win)
    IN  [NotUsed(d, st) EXCEPT !.list = AddWorkList(st.list, CutOff(st.win, d, last + 1)),
                               !.win.stop[d] = last, !.win.i_stop[d] = last]

\* The near piece has the symmetry: it stays, the rest is put on the list.
KeepNearPiece(d, st) ==
    LET far == Far(d, st.win)
    IN  [Used(d, st, Axis[d]) EXCEPT !.list = AddWorkList(st.list, CutOff(st.win, d, far + 1)),
                                     !.win.stop[d] = far]

\* The axis is inside the window, but not in its middle, and the list is too full.
NoRoomToCut(d, st) == Far(d, st.win) # st.win.stop[d] /\ ~RoomToSplit(st.list)

\* x_sym_split (d = "y") and y_sym_split (d = "x").
AxisSplit(d, st) ==
    LET symmetry == st.win.symmetry[d]
        stop     == st.win.stop[d]
    IN  CASE symmetry = "yes" -> Used(d, st, (st.win.start[d] + stop) \div 2)
          [] symmetry = "no" -> NotUsed(d, st)
          [] symmetry = "new" /\ (~Inside(d, st.win) \/ NoRoomToCut(d, st)) -> NotUsed(d, st)
          [] OTHER -> CASE Far(d, st.win) = stop -> Used(d, st, Axis[d])
                        [] Far(d, st.win) > stop -> ListFarPiece(d, st)
                        [] Far(d, st.win) < stop -> KeepNearPiece(d, st)

Plots == {"put_color", "sym_plot2", "sym_plot2y", "sym_plot2j", "sym_plot4"}

\* The plot function XY_AXIS installs, by the axes that are a go.
XYPlot(win) == CASE win.symmetry.x = "yes" /\ win.symmetry.y = "yes" -> "sym_plot4"
                 [] win.symmetry.x # "yes" /\ win.symmetry.y = "yes" -> "sym_plot2"
                 [] win.symmetry.x = "yes" /\ win.symmetry.y # "yes" -> "sym_plot2y"
                 [] OTHER -> "put_color"

WithPlot(st, plot) == [st EXCEPT !.win.plot = plot]

\* X_AXIS and Y_AXIS: one axis; the mirror plot is installed if it is a go.
OneAxisSplit(d, plot, st) == LET cut == AxisSplit(d, st)
                             IN  IF cut.go THEN WithPlot(cut, plot) ELSE cut

\* XY_AXIS: both axes, each for itself.
BothAxesSplit(st) == AxisSplit("x", AxisSplit("y", st))

\* ORIGIN: x_sym_split && y_sym_split; the columns are mirrored within the rows.
OriginSplit(st) ==
    LET rows == AxisSplit("y", st)
        both == BothAxesSplit(st)
        tried == IF rows.go THEN both ELSE rows
    IN  IF rows.go /\ both.go
        THEN WithPlot([both EXCEPT !.win.i_stop.x = both.win.stop.x], "sym_plot2j")
        ELSE [tried EXCEPT !.win.i_stop.y = tried.win.stop.y, !.win.symmetry = DecidedNo]

\* set_symmetry(g_symmetry, true), for a window on list; returns both.
SetSymmetry(win, list) ==
    LET st == [win |-> win, list |-> list, go |-> FALSE]
    IN  CASE Sym = "NONE"    -> st
          [] Sym = "X_AXIS"  -> OneAxisSplit("y", "sym_plot2", st)
          [] Sym = "Y_AXIS"  -> OneAxisSplit("x", "sym_plot2y", st)
          [] Sym = "XY_AXIS" -> WithPlot(BothAxesSplit(st), XYPlot(BothAxesSplit(st).win))
          [] Sym = "ORIGIN"  -> OriginSplit(st)

-----------------------------------------------------------------------------
\* The pixels g_plot(p) writes: p and its mirror images in the window.

Targets(win, p) ==
    LET i == win.stop.y - (p.y - win.start.y)
        j == win.stop.x - (p.x - win.start.x)
        below == i > win.i_stop.y /\ i < YDots
        right == j < XDots
        over  == IF below THEN {i} ELSE {}
        aside == IF right THEN {j} ELSE {}
    IN  CASE win.plot = "put_color"  -> {p}
          [] win.plot = "sym_plot2"  -> {p} \cup {Pt(p.x, y) : y \in over}
          [] win.plot = "sym_plot2y" -> {p} \cup {Pt(x, p.y) : x \in aside}
          [] win.plot = "sym_plot2j" -> {p} \cup (IF below /\ right THEN {Pt(j, i)} ELSE {})
          [] win.plot = "sym_plot4"  -> {Pt(x, y) : x \in {p.x} \cup aside, y \in {p.y} \cup over}

\* The pixels that have the colour of p by the symmetry of the fractal.
SameColour(p) ==
    LET x == Across("x", p.x)
        y == Across("y", p.y)
    IN  {p} \cup CASE Sym = "NONE"    -> {}
                   [] Sym = "X_AXIS"  -> {Pt(p.x, y)}
                   [] Sym = "Y_AXIS"  -> {Pt(x, p.y)}
                   [] Sym = "XY_AXIS" -> {Pt(p.x, y), Pt(x, p.y), Pt(x, y)}
                   [] Sym = "ORIGIN"  -> {Pt(x, y)}

=============================================================================
