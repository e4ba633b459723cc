-------------------------- MODULE SetSymmetry_proofs --------------------------
(***************************************************************************)
(* Lemmas about set_symmetry: what it returns for any window and any list, *)
(* and that a split leaves a free place on the list.                       *)
(***************************************************************************)
EXTENDS SetSymmetry, WorkList_proofs

Windows == [start : Points, stop : Points, i_stop : Points, begin : Points,
            pass : Int, symmetry : [x : Decision, y : Decision], plot : Plots]

Lists == {l \in Seq(Entries) : Len(l) <= MaxCalcWork}

\* What a split takes and returns.
SplitStates == [win : Windows, list : Lists, go : BOOLEAN]

\* The list is as it was, or there is still a free place on it.
LeavesRoom(before, after) == after = before \/ Len(after) < MaxCalcWork

-----------------------------------------------------------------------------
\* A window cut from an entry is a window.
LEMMA WindowType == ASSUME NEW e \in Entries  PROVE Window(e) \in Windows
  BY DEF Window, Windows, Entries, Plots

LEMMA AcrossType ==
    ASSUME NEW d \in {"x", "y"}, NEW c \in Int  PROVE Across(d, c) \in Int
  BY SymmetryAssumption DEF Across

\* The piece cut off is an entry.
LEMMA CutOffType ==
    ASSUME NEW w \in Windows, NEW d \in {"x", "y"}, NEW c \in Int
    PROVE  CutOff(w, d, c) \in Entries
  <1>1. [w.start EXCEPT ![d] = c] \in Points  BY DEF Windows, Points
  <1>2. Undecided \in [x : Decision, y : Decision]  BY DEF Undecided, Decision
  <1>3. w.stop \in Points /\ w.pass \in Int  BY DEF Windows
  <1>. QED  BY <1>1, <1>2, <1>3 DEF CutOff, Entry, Entries

\* Putting a piece on a list with room for two leaves room for one.
LEMMA AddedLeavesRoom ==
    ASSUME NEW l \in Lists, RoomToSplit(l), NEW e \in Entries
    PROVE  AddWorkList(l, e) \in Lists /\ Len(AddWorkList(l, e)) < MaxCalcWork
  <1>1. /\ AddWorkList(l, e) \in Seq(Entries)
        /\ Len(AddWorkList(l, e)) <= MaxCalcWork
        /\ Len(AddWorkList(l, e)) <= Len(l) + 1
    BY AddWorkListType DEF Lists
  <1>2. Len(l) < MaxCalcWork - 1 /\ Len(l) \in Nat /\ MaxCalcWork \in Nat
    BY MaxCalcWorkAssumption DEF RoomToSplit, Lists
  <1>. QED  BY <1>1, <1>2 DEF Lists

\* One axis: the window stays a window and the list a list with room.
LEMMA AxisSplitType ==
    ASSUME NEW d \in {"x", "y"}, NEW st \in SplitStates
    PROVE  AxisSplit(d, st) \in SplitStates /\ LeavesRoom(st.list, AxisSplit(d, st).list)
  <1>. DEFINE far == Far(d, st.win)
              last == Last(d, st.win)
              below == AddWorkList(st.list, CutOff(st.win, d, last + 1))
              above == AddWorkList(st.list, CutOff(st.win, d, far + 1))
              middle == (st.win.start[d] + st.win.stop[d]) \div 2
  <1>1. /\ st.win \in Windows /\ st.list \in Lists
        /\ st.win.start[d] \in Int /\ st.win.stop[d] \in Int /\ Axis[d] \in Int
        /\ st.win.symmetry[d] \in Decision
    BY SymmetryAssumption DEF SplitStates, Windows, Points
  <1>2. far \in Int /\ last \in Int /\ middle \in Int
    BY <1>1, AcrossType DEF Far, Last
  <1>3. \A s \in SplitStates : \A c \in Int :
           /\ [s EXCEPT !.win.stop[d] = c] \in SplitStates
           /\ [s EXCEPT !.win.i_stop[d] = c] \in SplitStates
           /\ [s EXCEPT !.win.stop[d] = c].list = s.list
           /\ [s EXCEPT !.win.i_stop[d] = c].list = s.list
    BY DEF SplitStates, Windows, Points
  <1>4. \A s \in SplitStates : \A l \in Lists :
           [s EXCEPT !.list = l] \in SplitStates /\ [s EXCEPT !.list = l].list = l
    BY DEF SplitStates
  <1>5. NotUsed(d, st) \in SplitStates /\ NotUsed(d, st).list = st.list
    BY <1>1 DEF NotUsed, SplitStates, Windows, Decision
  <1>6. \A c \in Int : Used(d, st, c) \in SplitStates /\ Used(d, st, c).list = st.list
    BY <1>1 DEF Used, SplitStates, Windows, Points, Decision
  <1>7. ASSUME RoomToSplit(st.list)
        PROVE  /\ below \in Lists /\ Len(below) < MaxCalcWork
               /\ above \in Lists /\ Len(above) < MaxCalcWork
    <2>1. CutOff(st.win, d, last + 1) \in Entries /\ CutOff(st.win, d, far + 1) \in Entries
      BY <1>1, <1>2, CutOffType
    <2>. QED  BY <1>1, <1>7, <2>1, AddedLeavesRoom
  <1>8. ASSUME RoomToSplit(st.list)
        PROVE  ListFarPiece(d, st) \in SplitStates /\ ListFarPiece(d, st).list = below
    <2>. DEFINE s1 == [NotUsed(d, st) EXCEPT !.list = below]
                s2 == [s1 EXCEPT !.win.stop[d] = last]
                s3 == [s2 EXCEPT !.win.i_stop[d] = last]
    <2>1. ListFarPiece(d, st) = s3  BY DEF ListFarPiece
    <2>2. s1 \in SplitStates /\ s1.list = below  BY <1>4, <1>5, <1>7, <1>8
    <2>3. s2 \in SplitStates /\ s2.list = below
      <3>. HIDE DEF s1, last, below
      <3>. QED  BY <1>2, <1>3, <2>2
    <2>4. s3 \in SplitStates /\ s3.list = below
      <3>. HIDE DEF s2, last, below
      <3>. QED  BY <1>2, <1>3, <2>3
    <2>. QED  BY <2>1, <2>4
  <1>9. ASSUME RoomToSplit(st.list)
        PROVE  KeepNearPiece(d, st) \in SplitStates /\ KeepNearPiece(d, st).list = above
    <2>. DEFINE used == Used(d, st, Axis[d])
                s1 == [used EXCEPT !.list = above]
                s2 == [s1 EXCEPT !.win.stop[d] = far]
    <2>1. KeepNearPiece(d, st) = s2  BY DEF KeepNearPiece
    <2>2. used \in SplitStates  BY <1>1, <1>6
    <2>3. s1 \in SplitStates /\ s1.list = above
      <3>. HIDE DEF used, above
      <3>. QED  BY <1>4, <1>7, <1>9, <2>2
    <2>4. s2 \in SplitStates /\ s2.list = above
      <3>. HIDE DEF s1, far, above
      <3>. QED  BY <1>2, <1>3, <2>3
    <2>. QED  BY <2>1, <2>4
  <1>10. \/ AxisSplit(d, st) = NotUsed(d, st)
         \/ \E c \in Int : AxisSplit(d, st) = Used(d, st, c)
         \/ RoomToSplit(st.list) /\ AxisSplit(d, st) \in {ListFarPiece(d, st), KeepNearPiece(d, st)}
    <2>1. far = st.win.stop[d] \/ far < st.win.stop[d] \/ far > st.win.stop[d]
      BY <1>1, <1>2
    <2>. HIDE DEF middle
    <2>. QED  BY <1>1, <1>2, <2>1 DEF AxisSplit, Decision, NoRoomToCut, middle
  <1>. HIDE DEF below, above
  <1>. QED  BY <1>5, <1>6, <1>7, <1>8, <1>9, <1>10 DEF LeavesRoom

\* What the split along axis d makes of the window.
AxisResult(st, c, d, s, x, y) ==
    /\ c.win.start = st.win.start /\ c.win.begin = st.win.begin
    /\ c.win.pass = st.win.pass /\ c.win.plot = st.win.plot
    /\ c.win.symmetry[d] = s /\ c.win.stop[d] = x /\ c.win.i_stop[d] = y /\ (c.go <=> s = "yes")
    /\ \A o \in {"x", "y"} \ {d} : /\ c.win.symmetry[o] = st.win.symmetry[o]
                                   /\ c.win.stop[o] = st.win.stop[o]
                                   /\ c.win.i_stop[o] = st.win.i_stop[o]

LEMMA AxisSplitCases ==
    ASSUME NEW d \in {"x", "y"}, NEW st \in SplitStates
    PROVE  LET w == st.win
               c == AxisSplit(d, st)
           IN  \/ /\ w.symmetry[d] = "yes" /\ c.list = st.list
                  /\ AxisResult(st, c, d, "yes", w.stop[d], (w.start[d] + w.stop[d]) \div 2)
               \/ /\ w.symmetry[d] # "yes" /\ c.list = st.list
                  /\ AxisResult(st, c, d, "no", w.stop[d], w.i_stop[d])
               \/ /\ w.symmetry[d] = "new" /\ Inside(d, w) /\ Far(d, w) = w.stop[d] /\ c.list = st.list
                  /\ AxisResult(st, c, d, "yes", w.stop[d], Axis[d])
               \/ /\ w.symmetry[d] = "new" /\ Inside(d, w) /\ Far(d, w) > w.stop[d] /\ RoomToSplit(st.list)
                  /\ c.list = AddWorkList(st.list, CutOff(w, d, Last(d, w) + 1))
                  /\ AxisResult(st, c, d, "no", Last(d, w), Last(d, w))
               \/ /\ w.symmetry[d] = "new" /\ Inside(d, w) /\ Far(d, w) < w.stop[d] /\ RoomToSplit(st.list)
                  /\ c.list = AddWorkList(st.list, CutOff(w, d, Far(d, w) + 1))
                  /\ AxisResult(st, c, d, "yes", Far(d, w), Axis[d])
  <1>. DEFINE w == st.win
              c == AxisSplit(d, st)
              far == Far(d, w)
              last == Last(d, w)
              middle == (w.start[d] + w.stop[d]) \div 2
              below == AddWorkList(st.list, CutOff(st.win, d, last + 1))
              above == AddWorkList(st.list, CutOff(st.win, d, far + 1))
  <1>1. /\ w \in Windows /\ w.start[d] \in Int /\ w.stop[d] \in Int /\ Axis[d] \in Int
        /\ w.symmetry[d] \in Decision
    BY SymmetryAssumption DEF SplitStates, Windows, Points
  <1>2. far \in Int /\ last \in Int  BY <1>1, AcrossType DEF Far, Last
  <1>3. /\ AxisResult(st, NotUsed(d, st), d, "no", w.stop[d], w.i_stop[d])
        /\ NotUsed(d, st).list = st.list
    BY DEF NotUsed, SplitStates, Windows, Points, AxisResult
  <1>4. ASSUME NEW m
        PROVE  AxisResult(st, Used(d, st, m), d, "yes", w.stop[d], m) /\ Used(d, st, m).list = st.list
    BY DEF Used, SplitStates, Windows, Points, AxisResult
  <1>. HIDE DEF last, far, below, above
  <1>5. /\ AxisResult(st, ListFarPiece(d, st), d, "no", last, last)
        /\ ListFarPiece(d, st).list = below
    BY DEF ListFarPiece, NotUsed, SplitStates, Windows, Points, AxisResult, last, below
  <1>6. /\ AxisResult(st, KeepNearPiece(d, st), d, "yes", far, Axis[d])
        /\ KeepNearPiece(d, st).list = above
    BY DEF KeepNearPiece, Used, SplitStates, Windows, Points, AxisResult, far, above
  <1>7. \/ w.symmetry[d] = "yes" /\ c = Used(d, st, middle)
        \/ w.symmetry[d] # "yes" /\ c = NotUsed(d, st)
        \/ w.symmetry[d] = "new" /\ Inside(d, w) /\ far = w.stop[d] /\ c = Used(d, st, Axis[d])
        \/ /\ w.symmetry[d] = "new" /\ Inside(d, w) /\ far > w.stop[d] /\ RoomToSplit(st.list)
           /\ c = ListFarPiece(d, st)
        \/ /\ w.symmetry[d] = "new" /\ Inside(d, w) /\ far < w.stop[d] /\ RoomToSplit(st.list)
           /\ c = KeepNearPiece(d, st)
    <2>1. far = w.stop[d] \/ far < w.stop[d] \/ far > w.stop[d]  BY <1>1, <1>2
    <2>2. far = w.stop[d] => ~(far < w.stop[d]) /\ ~(far > w.stop[d])  BY <1>1, <1>2
    <2>3. far < w.stop[d] => ~(far > w.stop[d])  BY <1>1, <1>2
    <2>. HIDE DEF middle
    <2>4. CASE w.symmetry[d] = "yes"  BY <2>4 DEF AxisSplit, middle
    <2>5. CASE w.symmetry[d] = "no"  BY <2>5 DEF AxisSplit
    <2>6. CASE w.symmetry[d] = "new" /\ (~Inside(d, w) \/ NoRoomToCut(d, st))
      BY <2>6 DEF AxisSplit
    <2>7. CASE w.symmetry[d] = "new" /\ Inside(d, w) /\ ~NoRoomToCut(d, st)
      <3>1. c = CASE far = w.stop[d] -> Used(d, st, Axis[d])
                  [] far > w.stop[d] -> ListFarPiece(d, st)
                  [] far < w.stop[d] -> KeepNearPiece(d, st)
        BY <2>7 DEF AxisSplit, far
      <3>2. far # w.stop[d] => RoomToSplit(st.list)  BY <2>7 DEF NoRoomToCut, far
      <3>. HIDE DEF c
      <3>. QED  BY <2>1, <2>2, <2>3, <2>7, <3>1, <3>2
    <2>. QED  BY <1>1, <2>4, <2>5, <2>6, <2>7 DEF Decision
  <1>. HIDE DEF c, middle
  <1>. QED  BY <1>3, <1>4, <1>5, <1>6, <1>7 DEF c, middle, last, far, below, above

\* What every form of split returns for st.
IsSplitOf(st, cut) == cut \in SplitStates /\ LeavesRoom(st.list, cut.list)

LEMMA WithPlotType ==
    ASSUME NEW st \in SplitStates, NEW cut, IsSplitOf(st, cut), NEW plot \in Plots
    PROVE  IsSplitOf(st, WithPlot(cut, plot))
  BY DEF IsSplitOf, WithPlot, SplitStates, Windows

LEMMA BothAxesSplitType ==
    ASSUME NEW st \in SplitStates  PROVE IsSplitOf(st, BothAxesSplit(st))
  <1>1. IsSplitOf(st, AxisSplit("y", st))  BY AxisSplitType DEF IsSplitOf
  <1>2. IsSplitOf(AxisSplit("y", st), BothAxesSplit(st))
    BY <1>1, AxisSplitType DEF IsSplitOf, BothAxesSplit
  <1>. QED  BY <1>1, <1>2 DEF IsSplitOf, LeavesRoom

LEMMA OriginSplitType ==
    ASSUME NEW st \in SplitStates  PROVE IsSplitOf(st, OriginSplit(st))
  <1>. DEFINE rows == AxisSplit("y", st)
              both == BothAxesSplit(st)
              tried == IF rows.go THEN both ELSE rows
              moved == [both EXCEPT !.win.i_stop.x = both.win.stop.x]
              reset == [tried EXCEPT !.win.i_stop.y = tried.win.stop.y]
              undone == [reset EXCEPT !.win.symmetry = DecidedNo]
  <1>1. \A s \in SplitStates : \A c \in Int : \A d \in {"x", "y"} :
           /\ [s EXCEPT !.win.i_stop[d] = c] \in SplitStates
           /\ [s EXCEPT !.win.i_stop[d] = c].list = s.list
    BY DEF SplitStates, Windows, Points
  <1>2. \A s \in SplitStates :
           /\ [s EXCEPT !.win.symmetry = DecidedNo] \in SplitStates
           /\ [s EXCEPT !.win.symmetry = DecidedNo].list = s.list
    BY DEF SplitStates, Windows, DecidedNo, Decision
  <1>3. \A s \in SplitStates : s.win.stop.x \in Int /\ s.win.stop.y \in Int
    BY DEF SplitStates, Windows, Points
  <1>4. IsSplitOf(st, rows) /\ IsSplitOf(st, both)
    BY AxisSplitType, BothAxesSplitType DEF IsSplitOf
  <1>5. OriginSplit(st) = IF rows.go /\ both.go THEN WithPlot(moved, "sym_plot2j") ELSE undone
    BY DEF OriginSplit
  <1>. HIDE DEF rows, both
  <1>6. IsSplitOf(st, tried)  BY <1>4
  <1>7. IsSplitOf(st, moved)  BY <1>1, <1>3, <1>4 DEF IsSplitOf
  <1>. HIDE DEF tried, moved
  <1>8. IsSplitOf(st, reset)  BY <1>1, <1>3, <1>6 DEF IsSplitOf
  <1>. HIDE DEF reset
  <1>9. IsSplitOf(st, undone)  BY <1>2, <1>8 DEF IsSplitOf
  <1>10. IsSplitOf(st, WithPlot(moved, "sym_plot2j"))
    BY <1>7, WithPlotType DEF Plots
  <1>. HIDE DEF undone
  <1>. QED  BY <1>5, <1>9, <1>10

\* set_symmetry, whatever the symmetry is: the window stays a window, and the
\* work list is untouched or has a free place.
LEMMA SetSymmetryType ==
    ASSUME NEW w \in Windows, NEW list \in Lists
    PROVE  /\ SetSymmetry(w, list).win \in Windows
           /\ SetSymmetry(w, list).list \in Lists
           /\ LeavesRoom(list, SetSymmetry(w, list).list)
  <1>. DEFINE st == [win |-> w, list |-> list, go |-> FALSE]
  <1>1. st \in SplitStates /\ st.list = list  BY DEF SplitStates
  <1>2. \/ Sym = "NONE" /\ SetSymmetry(w, list) = st
        \/ Sym = "X_AXIS" /\ SetSymmetry(w, list) = OneAxisSplit("y", "sym_plot2", st)
        \/ Sym = "Y_AXIS" /\ SetSymmetry(w, list) = OneAxisSplit("x", "sym_plot2y", st)
        \/ Sym = "XY_AXIS"
           /\ SetSymmetry(w, list) = WithPlot(BothAxesSplit(st), XYPlot(BothAxesSplit(st).win))
        \/ Sym = "ORIGIN" /\ SetSymmetry(w, list) = OriginSplit(st)
    BY SymmetryAssumption DEF SetSymmetry, SymmetryKinds
  <1>. HIDE DEF st
  <1>3. IsSplitOf(st, st)  BY <1>1 DEF IsSplitOf, LeavesRoom
  <1>4. \A d \in {"x", "y"}, plot \in Plots : IsSplitOf(st, OneAxisSplit(d, plot, st))
    <2>. TAKE d \in {"x", "y"}, plot \in Plots
    <2>1. IsSplitOf(st, AxisSplit(d, st))  BY <1>1, AxisSplitType DEF IsSplitOf
    <2>2. IsSplitOf(st, WithPlot(AxisSplit(d, st), plot))  BY <1>1, <2>1, WithPlotType
    <2>. QED  BY <2>1, <2>2 DEF OneAxisSplit
  <1>5. \A plot \in Plots : IsSplitOf(st, WithPlot(BothAxesSplit(st), plot))
    BY <1>1, BothAxesSplitType, WithPlotType
  <1>6. \A x : XYPlot(x) \in Plots  BY DEF XYPlot, Plots
  <1>7. IsSplitOf(st, SetSymmetry(w, list))
    BY <1>1, <1>2, <1>3, <1>4, <1>5, <1>6, OriginSplitType DEF Plots
  <1>. QED  BY <1>1, <1>7 DEF IsSplitOf, SplitStates

-----------------------------------------------------------------------------
\* The pixels a plot writes are points.
LEMMA TargetsType ==
    ASSUME NEW w \in Windows, NEW p \in Points  PROVE Targets(w, p) \subseteq Points
  <1>1. /\ w.stop.y - (p.y - w.start.y) \in Int
        /\ w.stop.x - (p.x - w.start.x) \in Int
        /\ p.x \in Int /\ p.y \in Int
        /\ w.plot \in Plots
    BY DEF Windows, Points
  <1>. QED  BY <1>1 DEF Targets, Pt, Points, Plots

-----------------------------------------------------------------------------
\* What is cut shares no pixel with what is left, or with anything else on the list.

\* A window of the screen, with the corner where its calculation stops: no axis mirrors
\* more than half of it.
Halved(w) == /\ w \in Windows /\ Within(WholeScreen, w)
             /\ \A d \in {"x", "y"} : /\ w.start[d] <= w.i_stop[d] /\ w.i_stop[d] <= w.stop[d]
                                     /\ \/ w.i_stop[d] = w.stop[d]
                                        \/ 2 * w.i_stop[d] <= w.start[d] + w.stop[d]

\* The window has the pixels of its list to itself.
CutApart(st) == /\ st \in SplitStates /\ Halved(st.win)
                /\ st.list \in Tables(WholeScreen, Area(st.win))

LEMMA ScreenCorners ==
    /\ IsFrame(WholeScreen) /\ WholeScreen \in Entries
    /\ WholeScreen.start.x = 0 /\ WholeScreen.start.y = 0
    /\ WholeScreen.stop.x = XDots - 1 /\ WholeScreen.stop.y = YDots - 1
    /\ WholeScreen.begin = WholeScreen.start
    /\ XDots \in Int /\ YDots \in Int /\ XDots > 0 /\ YDots > 0
  BY SymmetryAssumption DEF WholeScreen, IsFrame, Entry, Pt, Points, Entries, Undecided, Decision

LEMMA WindowFrame ==
    ASSUME NEW w \in Windows
    PROVE  /\ IsFrame(w)
           /\ w.start.x \in Int /\ w.start.y \in Int /\ w.stop.x \in Int /\ w.stop.y \in Int
           /\ w.i_stop.x \in Int /\ w.i_stop.y \in Int
  BY DEF Windows, Points, IsFrame

\* w is the part of v up to place cut.
PartBefore(v, d, cut, w) == /\ w.start = v.start /\ w.stop[d] = cut
                            /\ \A o \in {"x", "y"} \ {d} : w.stop[o] = v.stop[o]

\* A piece that can go on the list when w is what is left of the window.
RoomBeside(st, w, piece) ==
    /\ piece \in Clear(WholeScreen, Area(w)) /\ ~ListFull(st.list)
    /\ st.list \in Tables(WholeScreen, Area(w))
    /\ \A k \in 1 .. Len(st.list) : Area(st.list[k]) \cap Area(piece) = {}
    /\ Area(st.win) = Area(w) \cup Area(piece)

\* The piece behind place cut.
LEMMA PieceClear ==
    ASSUME NEW st, CutApart(st), RoomToSplit(st.list), NEW d \in {"x", "y"},
           NEW cut \in Int, st.win.start[d] <= cut, cut < st.win.stop[d],
           NEW w \in Windows, PartBefore(st.win, d, cut, w)
    PROVE  Within(WholeScreen, w) /\ RoomBeside(st, w, CutOff(st.win, d, cut + 1))
  <1>. DEFINE v == st.win
              l == st.list
              corner == [v.start EXCEPT ![d] = cut + 1]
              piece == CutOff(v, d, cut + 1)
              f == WholeScreen
  <1>0. /\ w.start = v.start /\ w.stop[d] = cut
        /\ \A o \in {"x", "y"} \ {d} : w.stop[o] = v.stop[o]
    BY DEF PartBefore
  <1>1. /\ v \in Windows /\ l \in Lists /\ Within(f, v) /\ l \in Tables(f, Area(v))
    BY DEF CutApart, SplitStates, Halved
  <1>2. /\ IsFrame(v) /\ IsFrame(w)
        /\ v.start.x \in Int /\ v.start.y \in Int /\ v.stop.x \in Int /\ v.stop.y \in Int
    BY <1>1, WindowFrame
  <1>3. IsFrame(f) /\ f.start.x \in Int /\ f.start.y \in Int /\ f.stop.x \in Int /\ f.stop.y \in Int
    BY ScreenCorners, FrameNumbers
  <1>4. piece \in Entries  BY <1>1, CutOffType
  <1>5. piece.start = corner /\ piece.begin = corner /\ piece.stop = v.stop
    BY DEF CutOff, Entry
  <1>6. /\ corner \in Points /\ corner[d] = cut + 1
        /\ \A o \in {"x", "y"} \ {d} : corner[o] = v.start[o]
    BY <1>2 DEF Points, IsFrame
  <1>7. IsFrame(piece)  BY <1>4, EntryFrame
  <1>. HIDE DEF piece, corner, v, l, f
  <1>8. /\ Within(f, w) /\ Within(f, piece) /\ piece.begin \in Area(piece)
        /\ Area(piece) \subseteq Area(v) /\ Area(w) \subseteq Area(v) /\ Area(piece) \cap Area(w) = {}
    <2>1. CASE d = "x"
      <3>1. /\ corner.x = cut + 1 /\ corner.y = v.start.y /\ w.stop.x = cut /\ w.stop.y = v.stop.y
            /\ v.start.x <= cut /\ cut < v.stop.x /\ w.start = v.start
        BY <1>0, <1>6, <2>1 DEF v
      <3>. QED  BY <1>1, <1>2, <1>3, <1>5, <1>6, <1>7, <3>1, InArea DEF Within
    <2>2. CASE d = "y"
      <3>1. /\ corner.y = cut + 1 /\ corner.x = v.start.x /\ w.stop.y = cut /\ w.stop.x = v.stop.x
            /\ v.start.y <= cut /\ cut < v.stop.y /\ w.start = v.start
        BY <1>0, <1>6, <2>2 DEF v
      <3>. QED  BY <1>1, <1>2, <1>3, <1>5, <1>6, <1>7, <3>1, InArea DEF Within
    <2>. QED  BY <2>1, <2>2
  <1>9. /\ l \in Tables(f, Area(w)) /\ \A k \in 1 .. Len(l) : Area(l[k]) \cap Area(piece) = {}
    <2>1. /\ l \in Seq(Entries) /\ Len(l) <= MaxCalcWork
          /\ \A k \in 1 .. Len(l) : l[k] \in Clear(f, Area(v))
          /\ \A i, j \in 1 .. Len(l) : i # j => Area(l[i]) \cap Area(l[j]) = {}
      BY <1>1, InTable
    <2>2. \A k \in 1 .. Len(l) : l[k] \in Clear(f, Area(w)) /\ Area(l[k]) \cap Area(piece) = {}
      BY <1>8, <2>1 DEF Clear
    <2>. QED  BY <2>1, <2>2, InTable
  <1>10. piece \in Clear(f, Area(w))  BY <1>4, <1>8 DEF Clear, Framed
  <1>11. ~ListFull(l)
    <2>1. Len(l) \in Nat  BY <1>1 DEF Lists
    <2>. QED  BY <2>1, MaxCalcWorkAssumption DEF RoomToSplit, ListFull, l
  <1>12. ASSUME NEW p \in Area(v)  PROVE p \in Area(w) \cup Area(piece)
    <2>1. /\ p.x \in Int /\ p.y \in Int /\ p \in Points
          /\ v.start.x <= p.x /\ p.x <= v.stop.x /\ v.start.y <= p.y /\ p.y <= v.stop.y
      BY <1>2, InArea
    <2>2. CASE d = "x"
      <3>1. /\ corner.x = cut + 1 /\ corner.y = v.start.y /\ w.stop.x = cut /\ w.stop.y = v.stop.y
            /\ w.start = v.start
        BY <1>0, <1>6, <2>2 DEF v
      <3>. QED  BY <1>2, <1>5, <1>7, <2>1, <3>1, InArea
    <2>3. CASE d = "y"
      <3>1. /\ corner.y = cut + 1 /\ corner.x = v.start.x /\ w.stop.y = cut /\ w.stop.x = v.stop.x
            /\ w.start = v.start
        BY <1>0, <1>6, <2>3 DEF v
      <3>. QED  BY <1>2, <1>5, <1>7, <2>1, <3>1, InArea
    <2>. QED  BY <2>2, <2>3
  <1>13. Area(v) = Area(w) \cup Area(piece)  BY <1>8, <1>12
  <1>. QED  BY <1>8, <1>9, <1>10, <1>11, <1>13 DEF v, l, f, piece, RoomBeside

LEMMA PieceApart ==
    ASSUME NEW st, CutApart(st), RoomToSplit(st.list), NEW d \in {"x", "y"},
           NEW cut \in Int, st.win.start[d] <= cut, cut < st.win.stop[d],
           NEW w \in Windows, PartBefore(st.win, d, cut, w)
    PROVE  /\ Within(WholeScreen, w)
           /\ AddWorkList(st.list, CutOff(st.win, d, cut + 1)) \in Tables(WholeScreen, Area(w))
  <1>1. Within(WholeScreen, w) /\ RoomBeside(st, w, CutOff(st.win, d, cut + 1))  BY PieceClear
  <1>. QED  BY <1>1, ScreenCorners, AddClear DEF RoomBeside

\* A split along one axis keeps the window apart from its list.
LEMMA AxisSplitApart ==
    ASSUME NEW st, CutApart(st), NEW d \in {"x", "y"}
    PROVE  CutApart(AxisSplit(d, st))
  <1>. DEFINE c == AxisSplit(d, st)
              v == st.win
              w == c.win
              a == v.start[d]
              b == v.stop[d]
              z == Across(d, 0)
  <1>1. /\ st \in SplitStates /\ v \in Windows /\ st.list \in Lists /\ Halved(v)
        /\ st.list \in Tables(WholeScreen, Area(v)) /\ Within(WholeScreen, v)
    BY DEF CutApart, SplitStates, Halved
  <1>2. c \in SplitStates /\ w \in Windows  BY <1>1, AxisSplitType DEF SplitStates
  <1>3. /\ a \in Int /\ b \in Int /\ z \in Int /\ a <= b
        /\ v.i_stop[d] \in Int /\ a <= v.i_stop[d] /\ v.i_stop[d] <= b
        /\ v.i_stop[d] = b \/ 2 * v.i_stop[d] <= a + b
    <2>1. a \in Int /\ b \in Int /\ v.i_stop[d] \in Int  BY <1>1 DEF Windows, Points
    <2>2. /\ a <= v.i_stop[d] /\ v.i_stop[d] <= b
          /\ v.i_stop[d] = b \/ 2 * v.i_stop[d] <= a + b
      BY <1>1 DEF Halved
    <2>3. z \in Int  BY AcrossType
    <2>. HIDE DEF z
    <2>. QED  BY <2>1, <2>2, <2>3
  <1>4. /\ Far(d, v) = z - a /\ Last(d, v) = z - b - 1
        /\ Axis[d] \in Int /\ (z = 2 * Axis[d] \/ z = 2 * Axis[d] + 1)
    <2>1. Axis[d] \in Int  BY SymmetryAssumption
    <2>. QED  BY <1>3, <2>1 DEF Far, Last, Across
  <1>5. \A s, x, y : AxisResult(st, c, d, s, x, y) =>
           /\ w.start = v.start /\ w.stop[d] = x /\ w.i_stop[d] = y
           /\ \A o \in {"x", "y"} \ {d} : w.stop[o] = v.stop[o] /\ w.i_stop[o] = v.i_stop[o]
    BY DEF AxisResult
  <1>. HIDE DEF c, w, z
  <1>6. ASSUME NEW s, NEW x \in Int, NEW y \in Int, AxisResult(st, c, d, s, x, y),
               a <= y, y <= x, y = x \/ 2 * y <= a + x, Within(WholeScreen, w)
        PROVE  Halved(w)
    <2>1. ASSUME NEW o \in {"x", "y"}
          PROVE  /\ w.start[o] <= w.i_stop[o] /\ w.i_stop[o] <= w.stop[o]
                 /\ w.i_stop[o] = w.stop[o] \/ 2 * w.i_stop[o] <= w.start[o] + w.stop[o]
      <3>1. CASE o = d  BY <1>5, <1>6, <3>1
      <3>2. CASE o # d
        <4>1. w.start = v.start /\ w.stop[o] = v.stop[o] /\ w.i_stop[o] = v.i_stop[o]
          BY <1>5, <1>6, <3>2
        <4>. QED  BY <1>1, <4>1 DEF Halved
      <3>. QED  BY <3>1, <3>2
    <2>. QED  BY <1>2, <1>6, <2>1 DEF Halved
  <1>7. ASSUME c.list = st.list, NEW s, NEW y \in Int, AxisResult(st, c, d, s, b, y),
               a <= y, y <= b, y = b \/ 2 * y <= a + b
        PROVE  CutApart(c)
    <2>1. w.start = v.start /\ w.stop = v.stop
      <3>1. w.stop.x = v.stop.x /\ w.stop.y = v.stop.y  BY <1>5, <1>7
      <3>2. w.stop \in Points /\ v.stop \in Points  BY <1>1, <1>2 DEF Windows
      <3>. QED  BY <1>5, <1>7, <3>1, <3>2 DEF Points
    <2>2. Within(WholeScreen, w) /\ Area(w) = Area(v)  BY <1>1, <2>1 DEF Within, Area
    <2>3. Halved(w)  BY <1>3, <1>6, <1>7, <2>2
    <2>. QED  BY <1>1, <1>2, <1>7, <2>2, <2>3 DEF CutApart, w
  <1>8. ASSUME NEW x \in Int, a <= x, x < b, RoomToSplit(st.list),
               c.list = AddWorkList(st.list, CutOff(v, d, x + 1)),
               NEW s, NEW y \in Int, AxisResult(st, c, d, s, x, y),
               a <= y, y <= x, y = x \/ 2 * y <= a + x
        PROVE  CutApart(c)
    <2>1. PartBefore(v, d, x, w)  BY <1>5, <1>8 DEF PartBefore
    <2>2. Within(WholeScreen, w) /\ c.list \in Tables(WholeScreen, Area(w))
      BY <1>2, <1>8, <2>1, PieceApart
    <2>3. Halved(w)  BY <1>6, <1>8, <2>2
    <2>. QED  BY <1>2, <2>2, <2>3 DEF CutApart, w
  <1>9. Inside(d, v) => a < Axis[d] /\ Axis[d] < b  BY DEF Inside
  <1>10. CASE /\ v.symmetry[d] = "yes" /\ c.list = st.list
              /\ AxisResult(st, c, d, "yes", v.stop[d], (v.start[d] + v.stop[d]) \div 2)
    <2>. DEFINE y == (a + b) \div 2
    <2>1. y \in Int /\ a <= y /\ y <= b /\ 2 * y <= a + b  BY <1>3
    <2>. HIDE DEF y
    <2>. QED  BY <1>7, <1>10, <2>1 DEF c, y
  <1>11. CASE /\ v.symmetry[d] # "yes" /\ c.list = st.list
              /\ AxisResult(st, c, d, "no", v.stop[d], v.i_stop[d])
    BY <1>3, <1>7, <1>11 DEF c
  <1>12. CASE /\ v.symmetry[d] = "new" /\ Inside(d, v) /\ Far(d, v) = v.stop[d] /\ c.list = st.list
              /\ AxisResult(st, c, d, "yes", v.stop[d], Axis[d])
    <2>1. z = a + b  BY <1>3, <1>4, <1>12
    <2>2. a < Axis[d] /\ Axis[d] < b  BY <1>9, <1>12
    <2>3. a <= Axis[d] /\ Axis[d] <= b /\ 2 * Axis[d] <= z
      <3>. HIDE DEF a, b
      <3>. QED  BY <1>3, <1>4, <2>2
    <2>. QED  BY <1>4, <1>7, <1>12, <2>1, <2>3 DEF c
  <1>13. CASE /\ v.symmetry[d] = "new" /\ Inside(d, v) /\ Far(d, v) > v.stop[d] /\ RoomToSplit(st.list)
              /\ c.list = AddWorkList(st.list, CutOff(v, d, Last(d, v) + 1))
              /\ AxisResult(st, c, d, "no", Last(d, v), Last(d, v))
    <2>1. Last(d, v) \in Int /\ a <= Last(d, v) /\ Last(d, v) < b  BY <1>3, <1>4, <1>9, <1>13
    <2>. QED  BY <1>8, <1>13, <2>1 DEF c
  <1>14. CASE /\ v.symmetry[d] = "new" /\ Inside(d, v) /\ Far(d, v) < v.stop[d] /\ RoomToSplit(st.list)
              /\ c.list = AddWorkList(st.list, CutOff(v, d, Far(d, v) + 1))
              /\ AxisResult(st, c, d, "yes", Far(d, v), Axis[d])
    <2>1. /\ Far(d, v) \in Int /\ a <= Far(d, v) /\ Far(d, v) < b
          /\ a <= Axis[d] /\ Axis[d] <= Far(d, v) /\ 2 * Axis[d] <= a + Far(d, v)
      BY <1>3, <1>4, <1>9, <1>14
    <2>. QED  BY <1>4, <1>8, <1>14, <2>1 DEF c
  <1>. QED  BY <1>1, <1>10, <1>11, <1>12, <1>13, <1>14, AxisSplitCases DEF c

\* What the split along an axis leaves: the axis is decided, half of a symmetric window is
\* calculated, and what is cut off is on the list.
PieceOf(st, c, piece) ==
    /\ RoomBeside(st, c.win, piece)
    /\ piece.begin = piece.start /\ piece.pass = st.win.pass /\ piece.symmetry = Undecided
    /\ c.list = AddWorkList(st.list, piece)

LEMMA MiddleIs == ASSUME NEW n \in Int, NEW m \in Int, m = 2 * n \/ m = 2 * n + 1  PROVE n = m \div 2
  OBVIOUS

LEMMA AxisSplitLeaves ==
    ASSUME NEW st, CutApart(st), NEW d \in {"x", "y"}, NEW c, c = AxisSplit(d, st)
    PROVE  /\ CutApart(c)
           /\ \E x, y : AxisResult(st, c, d, c.win.symmetry[d], x, y)
           /\ c.win.symmetry[d] \in {"yes", "no"}
           /\ c.win.symmetry[d] = "yes"
                 => c.win.i_stop[d] = (c.win.start[d] + c.win.stop[d]) \div 2
           /\ c.win.symmetry[d] = "yes" /\ st.win.symmetry[d] # "yes"
                 => c.win.start[d] + c.win.stop[d] = Across(d, 0)
           /\ c.win.symmetry[d] = "no" /\ st.win.i_stop[d] = st.win.stop[d]
                 => c.win.i_stop[d] = c.win.stop[d]
           /\ st.win.symmetry[d] \in {"yes", "no"} => c.win.symmetry[d] = st.win.symmetry[d]
           /\ \/ c.win.stop = st.win.stop /\ c.list = st.list
              \/ st.win.symmetry[d] = "new" /\ \E piece : PieceOf(st, c, piece)
  <1>. DEFINE v == st.win
              w == c.win
              a == v.start[d]
              b == v.stop[d]
              z == Across(d, 0)
  <1>1. /\ st \in SplitStates /\ v \in Windows /\ Halved(v)
    BY DEF CutApart, SplitStates, Halved
  <1>2. c \in SplitStates /\ w \in Windows  BY <1>1, AxisSplitType DEF SplitStates
  <1>3. a \in Int /\ b \in Int /\ z \in Int /\ a <= b
    <2>1. a \in Int /\ b \in Int  BY <1>1 DEF Windows, Points
    <2>2. a <= b  BY <1>1, <2>1 DEF Halved, Windows, Points
    <2>3. z \in Int  BY AcrossType
    <2>. QED  BY <2>1, <2>2, <2>3
  <1>4. /\ Far(d, v) = z - a /\ Last(d, v) = z - b - 1
        /\ Axis[d] \in Int /\ (z = 2 * Axis[d] \/ z = 2 * Axis[d] + 1)
    <2>1. Axis[d] \in Int  BY SymmetryAssumption
    <2>. QED  BY <1>3, <2>1 DEF Far, Last, Across
  <1>5. \A s, x, y : AxisResult(st, c, d, s, x, y) =>
           /\ w.start = v.start /\ w.stop[d] = x /\ w.i_stop[d] = y /\ w.symmetry[d] = s
           /\ \A o \in {"x", "y"} \ {d} : w.stop[o] = v.stop[o]
    BY DEF AxisResult
  <1>6. Inside(d, v) => a < Axis[d] /\ Axis[d] < b  BY DEF Inside
  <1>7. ASSUME NEW s, NEW y, AxisResult(st, c, d, s, b, y)  PROVE w.stop = v.stop
    <2>1. w.stop.x = v.stop.x /\ w.stop.y = v.stop.y  BY <1>5, <1>7
    <2>2. w.stop \in Points /\ v.stop \in Points  BY <1>1, <1>2 DEF Windows
    <2>. QED  BY <2>1, <2>2 DEF Points
  <1>8. ASSUME NEW x \in Int, a <= x, x < b, RoomToSplit(st.list), NEW s, NEW y,
               c.list = AddWorkList(st.list, CutOff(v, d, x + 1)), AxisResult(st, c, d, s, x, y)
        PROVE  \E piece : PieceOf(st, c, piece)
    <2>. DEFINE piece == CutOff(v, d, x + 1)
    <2>1. PartBefore(v, d, x, w)  BY <1>5, <1>8 DEF PartBefore
    <2>2. RoomBeside(st, w, piece)
      BY <1>2, <1>8, <2>1, PieceClear
    <2>3. piece.begin = piece.start /\ piece.pass = v.pass /\ piece.symmetry = Undecided
      BY DEF CutOff, Entry
    <2>. HIDE DEF piece
    <2>4. PieceOf(st, c, piece)  BY <1>8, <2>2, <2>3 DEF PieceOf, piece
    <2>. QED  BY <2>4
  <1>9. CutApart(c)  BY AxisSplitApart
  <1>. DEFINE Goal == /\ \E x, y : AxisResult(st, c, d, w.symmetry[d], x, y)
                      /\ w.symmetry[d] \in {"yes", "no"}
                      /\ w.symmetry[d] = "yes" => w.i_stop[d] = (w.start[d] + w.stop[d]) \div 2
                      /\ w.symmetry[d] = "yes" /\ v.symmetry[d] # "yes" => w.start[d] + w.stop[d] = z
                      /\ w.symmetry[d] = "no" /\ v.i_stop[d] = b => w.i_stop[d] = w.stop[d]
                      /\ v.symmetry[d] \in {"yes", "no"} => w.symmetry[d] = v.symmetry[d]
                      /\ \/ w.stop = v.stop /\ c.list = st.list
                         \/ v.symmetry[d] = "new" /\ \E piece : PieceOf(st, c, piece)
  <1>. HIDE DEF w, z
  <1>10. ASSUME /\ v.symmetry[d] = "yes" /\ c.list = st.list
                /\ AxisResult(st, c, d, "yes", v.stop[d], (v.start[d] + v.stop[d]) \div 2)
         PROVE  Goal
    <2>. DEFINE y == (a + b) \div 2
    <2>1. AxisResult(st, c, d, "yes", b, y) /\ v.symmetry[d] = "yes" /\ c.list = st.list
      BY <1>10 DEF w
    <2>2. /\ w.symmetry[d] = "yes" /\ w.start = v.start /\ w.stop[d] = b /\ w.i_stop[d] = y
      BY <1>5, <2>1
    <2>3. w.stop = v.stop  BY <1>7, <2>1
    <2>. QED  BY <2>1, <2>2, <2>3
  <1>11. ASSUME /\ v.symmetry[d] # "yes" /\ c.list = st.list
                /\ AxisResult(st, c, d, "no", v.stop[d], v.i_stop[d])
         PROVE  Goal
    <2>1. /\ w.symmetry[d] = "no" /\ w.start = v.start /\ w.stop[d] = b /\ w.i_stop[d] = v.i_stop[d]
      BY <1>5, <1>11
    <2>2. w.stop = v.stop  BY <1>7, <1>11
    <2>3. v.symmetry[d] \in {"yes", "no"} => v.symmetry[d] = "no"  BY <1>11
    <2>. QED  BY <1>11, <2>1, <2>2, <2>3
  <1>12. ASSUME /\ v.symmetry[d] = "new" /\ Inside(d, v) /\ Far(d, v) = v.stop[d] /\ c.list = st.list
                /\ AxisResult(st, c, d, "yes", v.stop[d], Axis[d])
         PROVE  Goal
    <2>1. z = a + b  BY <1>3, <1>4, <1>12
    <2>2. /\ w.symmetry[d] = "yes" /\ w.start = v.start /\ w.stop[d] = b /\ w.i_stop[d] = Axis[d]
      BY <1>5, <1>12
    <2>3. w.stop = v.stop  BY <1>7, <1>12
    <2>4. Axis[d] = z \div 2  BY <1>3, <1>4, MiddleIs
    <2>. QED  BY <1>12, <2>1, <2>2, <2>3, <2>4
  <1>13. ASSUME /\ v.symmetry[d] = "new" /\ Inside(d, v) /\ Far(d, v) > v.stop[d] /\ RoomToSplit(st.list)
                /\ c.list = AddWorkList(st.list, CutOff(v, d, Last(d, v) + 1))
                /\ AxisResult(st, c, d, "no", Last(d, v), Last(d, v))
         PROVE  Goal
    <2>1. Last(d, v) \in Int /\ a <= Last(d, v) /\ Last(d, v) < b  BY <1>3, <1>4, <1>6, <1>13
    <2>2. \E piece : PieceOf(st, c, piece)  BY <1>8, <1>13, <2>1
    <2>3. w.symmetry[d] = "no" /\ w.i_stop[d] = w.stop[d]  BY <1>5, <1>13
    <2>. QED  BY <1>13, <2>2, <2>3
  <1>14. ASSUME /\ v.symmetry[d] = "new" /\ Inside(d, v) /\ Far(d, v) < v.stop[d] /\ RoomToSplit(st.list)
                /\ c.list = AddWorkList(st.list, CutOff(v, d, Far(d, v) + 1))
                /\ AxisResult(st, c, d, "yes", Far(d, v), Axis[d])
         PROVE  Goal
    <2>1. Far(d, v) \in Int /\ a <= Far(d, v) /\ Far(d, v) < b  BY <1>3, <1>4, <1>6, <1>14
    <2>2. \E piece : PieceOf(st, c, piece)  BY <1>8, <1>14, <2>1
    <2>3. /\ w.symmetry[d] = "yes" /\ w.start = v.start /\ w.stop[d] = Far(d, v)
          /\ w.i_stop[d] = Axis[d]
      BY <1>5, <1>14
    <2>4. w.start[d] + w.stop[d] = z  BY <1>3, <1>4, <2>3
    <2>5. Axis[d] = z \div 2  BY <1>3, <1>4, MiddleIs
    <2>. QED  BY <1>14, <2>2, <2>3, <2>4, <2>5
  <1>15. Goal
    <2>. HIDE DEF Goal
    <2>. QED  BY <1>1, <1>10, <1>11, <1>12, <1>13, <1>14, AxisSplitCases
  <1>. QED  BY <1>9, <1>15 DEF w, z

\* The state in which set_symmetry begins, for an entry of the screen apart from its list.
Started(e, l) == [win |-> Window(e), list |-> l, go |-> FALSE]

LEMMA StartApart ==
    ASSUME NEW e \in Framed(WholeScreen), NEW l \in Tables(WholeScreen, Area(e))
    PROVE  CutApart(Started(e, l))
  <1>1. e \in Entries /\ Within(WholeScreen, e) /\ IsFrame(e)  BY EntryFrame DEF Framed
  <1>2. Window(e) \in Windows  BY <1>1, WindowType
  <1>3. l \in Lists  BY InTable DEF Lists
  <1>4. /\ Window(e).start = e.start /\ Window(e).stop = e.stop /\ Window(e).i_stop = e.stop
    BY DEF Window
  <1>5. Within(WholeScreen, Window(e)) /\ Area(Window(e)) = Area(e)
    BY <1>1, <1>4 DEF Within, Area
  <1>6. Halved(Window(e))
    <2>1. e.stop.x \in Int /\ e.stop.y \in Int  BY <1>1, FrameNumbers
    <2>. QED  BY <1>1, <1>2, <1>4, <1>5, <2>1 DEF Halved, Within
  <1>. QED  BY <1>2, <1>3, <1>5, <1>6 DEF CutApart, SplitStates, Started

\* set_symmetry, for an entry of the screen apart from its list.
LEMMA SetSymmetryApart ==
    ASSUME NEW e \in Framed(WholeScreen), NEW l \in Tables(WholeScreen, Area(e))
    PROVE  CutApart(SetSymmetry(Window(e), l))
  <1>. DEFINE st == [win |-> Window(e), list |-> l, go |-> FALSE]
              rows == AxisSplit("y", st)
              both == BothAxesSplit(st)
  <1>1. CutApart(st)  BY StartApart DEF Started
  <1>2. \/ Sym = "NONE" /\ SetSymmetry(Window(e), l) = st
        \/ Sym = "X_AXIS" /\ SetSymmetry(Window(e), l) = OneAxisSplit("y", "sym_plot2", st)
        \/ Sym = "Y_AXIS" /\ SetSymmetry(Window(e), l) = OneAxisSplit("x", "sym_plot2y", st)
        \/ Sym = "XY_AXIS" /\ SetSymmetry(Window(e), l) = WithPlot(both, XYPlot(both.win))
        \/ Sym = "ORIGIN" /\ SetSymmetry(Window(e), l) = OriginSplit(st)
    BY SymmetryAssumption DEF SetSymmetry, SymmetryKinds
  <1>. HIDE DEF st
  <1>3. CutApart(rows) /\ CutApart(AxisSplit("x", st)) /\ CutApart(both)
    BY <1>1, AxisSplitApart DEF BothAxesSplit
  <1>. HIDE DEF rows, both
  <1>4. ASSUME NEW s, CutApart(s), NEW t \in SplitStates, t.list = s.list,
               t.win.start = s.win.start, t.win.stop = s.win.stop,
               \A d \in {"x", "y"} : t.win.i_stop[d] \in {s.win.i_stop[d], s.win.stop[d]}
        PROVE  CutApart(t)
    <2>1. Halved(s.win) /\ s.win \in Windows /\ t.win \in Windows
      BY <1>4 DEF CutApart, SplitStates
    <2>2. s.win.stop.x \in Int /\ s.win.stop.y \in Int  BY <2>1, WindowFrame
    <2>3. Within(WholeScreen, t.win) /\ Area(t.win) = Area(s.win)
      BY <1>4, <2>1 DEF Within, Area, Halved
    <2>4. ASSUME NEW d \in {"x", "y"}
          PROVE  /\ t.win.start[d] <= t.win.i_stop[d] /\ t.win.i_stop[d] <= t.win.stop[d]
                 /\ \/ t.win.i_stop[d] = t.win.stop[d]
                    \/ 2 * t.win.i_stop[d] <= t.win.start[d] + t.win.stop[d]
      <3>1. s.win.start[d] <= s.win.stop[d] /\ s.win.stop[d] \in Int
        BY <2>1, <2>2, <2>4 DEF Halved, Within
      <3>. QED  BY <1>4, <2>1, <2>4, <3>1 DEF Halved
    <2>5. Halved(t.win)  BY <2>1, <2>3, <2>4 DEF Halved
    <2>. QED  BY <1>4, <2>3, <2>5 DEF CutApart
  <1>5. ASSUME NEW s, CutApart(s), NEW plot \in Plots  PROVE CutApart(WithPlot(s, plot))
    <2>. DEFINE t == WithPlot(s, plot)
    <2>1. s \in SplitStates  BY <1>5 DEF CutApart
    <2>2. /\ t \in SplitStates /\ t.list = s.list /\ t.win.start = s.win.start
          /\ t.win.stop = s.win.stop /\ t.win.i_stop = s.win.i_stop
      BY <2>1 DEF WithPlot, SplitStates, Windows
    <2>. HIDE DEF t
    <2>. QED  BY <1>4, <1>5, <2>2 DEF t
  <1>6. \A w : XYPlot(w) \in Plots  BY DEF XYPlot, Plots
  <1>7. CutApart(OriginSplit(st))
    <2>. DEFINE tried == IF rows.go THEN both ELSE rows
                moved == [both EXCEPT !.win.i_stop.x = both.win.stop.x]
                reset == [tried EXCEPT !.win.i_stop.y = tried.win.stop.y]
                undone == [reset EXCEPT !.win.symmetry = DecidedNo]
    <2>1. OriginSplit(st) = IF rows.go /\ both.go THEN WithPlot(moved, "sym_plot2j") ELSE undone
      BY DEF OriginSplit, rows, both
    <2>2. CutApart(tried) /\ tried \in SplitStates /\ both \in SplitStates
      BY <1>3 DEF CutApart
    <2>. HIDE DEF tried
    <2>3. ASSUME NEW s \in SplitStates, NEW d \in {"x", "y"}
          PROVE  LET t == [s EXCEPT !.win.i_stop[d] = s.win.stop[d]]
                 IN  /\ t \in SplitStates /\ t.list = s.list /\ t.win.start = s.win.start
                     /\ t.win.stop = s.win.stop /\ t.win.i_stop[d] = s.win.stop[d]
                     /\ \A o \in {"x", "y"} \ {d} : t.win.i_stop[o] = s.win.i_stop[o]
      BY DEF SplitStates, Windows, Points
    <2>4. CutApart(moved)
      <3>1. /\ moved \in SplitStates /\ moved.list = both.list /\ moved.win.start = both.win.start
            /\ moved.win.stop = both.win.stop /\ moved.win.i_stop.x = both.win.stop.x
            /\ moved.win.i_stop.y = both.win.i_stop.y
        BY <2>2, <2>3
      <3>. HIDE DEF moved
      <3>. QED  BY <1>3, <1>4, <3>1
    <2>5. CutApart(reset)
      <3>1. /\ reset \in SplitStates /\ reset.list = tried.list /\ reset.win.start = tried.win.start
            /\ reset.win.stop = tried.win.stop /\ reset.win.i_stop.y = tried.win.stop.y
            /\ reset.win.i_stop.x = tried.win.i_stop.x
        BY <2>2, <2>3
      <3>. HIDE DEF reset
      <3>. QED  BY <1>4, <2>2, <3>1
    <2>6. CutApart(undone)
      <3>1. reset \in SplitStates  BY <2>5 DEF CutApart
      <3>. HIDE DEF reset
      <3>2. /\ undone \in SplitStates /\ undone.list = reset.list /\ undone.win.start = reset.win.start
            /\ undone.win.stop = reset.win.stop /\ undone.win.i_stop = reset.win.i_stop
        BY <3>1 DEF SplitStates, Windows, DecidedNo, Decision
      <3>. HIDE DEF undone
      <3>. QED  BY <1>4, <2>5, <3>2
    <2>7. CutApart(WithPlot(moved, "sym_plot2j"))
      <3>. HIDE DEF moved
      <3>. QED  BY <1>5, <2>4 DEF Plots
    <2>. HIDE DEF moved, undone
    <2>. QED  BY <2>1, <2>6, <2>7
  <1>8. \A d \in {"x", "y"}, plot \in Plots : CutApart(OneAxisSplit(d, plot, st))
    <2>. TAKE d \in {"x", "y"}, plot \in Plots
    <2>1. CutApart(AxisSplit(d, st))  BY <1>1, AxisSplitApart
    <2>2. CutApart(WithPlot(AxisSplit(d, st), plot))  BY <1>5, <2>1
    <2>. QED  BY <2>1, <2>2 DEF OneAxisSplit
  <1>9. CutApart(WithPlot(both, XYPlot(both.win)))  BY <1>3, <1>5, <1>6
  <1>. QED  BY <1>1, <1>2, <1>7, <1>8, <1>9 DEF Plots

\* A plot of a pixel of the half writes into the window only.
LEMMA TargetsWithin ==
    ASSUME NEW w, Halved(w), NEW p \in Points,
           w.start.x <= p.x, p.x <= w.i_stop.x, w.start.y <= p.y, p.y <= w.i_stop.y
    PROVE  Targets(w, p) \subseteq Area(w)
  <1>. DEFINE i == w.stop.y - (p.y - w.start.y)
              j == w.stop.x - (p.x - w.start.x)
  <1>1. /\ w \in Windows /\ IsFrame(w) /\ w.plot \in Plots
        /\ w.start.x \in Int /\ w.start.y \in Int /\ w.stop.x \in Int /\ w.stop.y \in Int
        /\ w.i_stop.x \in Int /\ w.i_stop.y \in Int
    BY WindowFrame DEF Halved, Windows
  <1>2. p.x \in Int /\ p.y \in Int /\ p = Pt(p.x, p.y)  BY DEF Points, Pt
  <1>3. w.i_stop.x <= w.stop.x /\ w.i_stop.y <= w.stop.y  BY DEF Halved
  <1>4. /\ i \in Int /\ w.start.y <= i /\ i <= w.stop.y
        /\ j \in Int /\ w.start.x <= j /\ j <= w.stop.x
    BY <1>1, <1>2, <1>3
  <1>5. \A x \in {p.x, j}, y \in {p.y, i} : Pt(x, y) \in Area(w)
    <2>. TAKE x \in {p.x, j}, y \in {p.y, i}
    <2>1. /\ x \in Int /\ w.start.x <= x /\ x <= w.stop.x
          /\ y \in Int /\ w.start.y <= y /\ y <= w.stop.y
      BY <1>1, <1>2, <1>3, <1>4
    <2>2. Pt(x, y) \in Points /\ Pt(x, y).x = x /\ Pt(x, y).y = y  BY <2>1 DEF Pt, Points
    <2>. QED  BY <1>1, <2>1, <2>2, InArea
  <1>. HIDE DEF i, j
  <1>6. Targets(w, p) \subseteq {Pt(x, y) : x \in {p.x, j}, y \in {p.y, i}}
    BY <1>1, <1>2 DEF Targets, Plots, i, j
  <1>. QED  BY <1>5, <1>6

=============================================================================
