--------------------------- MODULE PanWorkList_proofs ---------------------------
(***************************************************************************)
(* Proofs about panning, for every screen, table size and distance, with   *)
(* interrupted images panned sideways.                                     *)
(*   PanListKept: the list a pan leaves fits into its table, and its       *)
(*   entries are windows of the screen that share no pixel.                *)
(*   PanNothingLeftOut, PanFinishedStays: unless the symmetry is about the *)
(*   origin, every pixel shows its colour or is due to an entry, and what  *)
(*   is finished is not plotted over.                                      *)
(* The second part follows what an entry has Open through its life: it is  *)
(* cut by the symmetry, calculated, stopped and put back, then shifted,    *)
(* merged with the edges, clipped, split, restarted and begun anew.        *)
(***************************************************************************)
EXTENDS PanWorkList, WorkList_proofs, TLAPS

\* The facts about the symmetry of the image as it is now.
SP == INSTANCE SetSymmetry_proofs WITH Axis <- axis

\* An interrupted image is panned along its rows only.
Sideways == \A d \in SuspendedPans : d.y = 0

\* What keeps PanInv from one step to the next: an image that can be resumed has
\* something to resume.
IInv == PanInv /\ (calc_status = "RESUMABLE" => resume_data # <<>>)

-----------------------------------------------------------------------------
\* The operators of the two instances are the same.

LEMMA SameCombine == \A l : S!CombineWorkList(l) = SP!CombineWorkList(l)
  <1>1. \A e, f : /\ S!Above(e, f) = SP!Above(e, f) /\ S!LeftOf(e, f) = SP!LeftOf(e, f)
                  /\ S!FreelyMerge(e, f) = SP!FreelyMerge(e, f)
    BY DEF S!Above, SP!Above, S!LeftOf, SP!LeftOf, S!Touches, SP!Touches, S!FreelyMerge, SP!FreelyMerge
  <1>2. \A e, f : S!Combinable(e, f) = SP!Combinable(e, f)
    BY <1>1 DEF S!Combinable, SP!Combinable
  <1>3. \A e, f : S!Merged(e, f) = SP!Merged(e, f)
    BY <1>1 DEF S!Merged, SP!Merged
  <1>4. \A l : S!CombinablePairs(l) = SP!CombinablePairs(l)
    BY <1>2 DEF S!CombinablePairs, SP!CombinablePairs
  <1>5. \A pairs : S!FirstPair(pairs) = SP!FirstPair(pairs)
    BY DEF S!FirstPair, SP!FirstPair
  <1>6. \A l, j : S!Delete(l, j) = SP!Delete(l, j)
    BY DEF S!Delete, SP!Delete
  <1>. QED  BY <1>3, <1>4, <1>5, <1>6 DEF S!CombineWorkList, SP!CombineWorkList

LEMMA SameAdd == \A l, e : S!AddWorkList(l, e) = SP!AddWorkList(l, e)
  <1>1. \A l : S!Combined(l) = SP!Combined(l)
    BY SameCombine DEF S!Combined, SP!Combined
  <1>2. \A l, i, j : S!SwapIfBefore(l, i, j) = SP!SwapIfBefore(l, i, j)
    BY DEF S!SwapIfBefore, SP!SwapIfBefore, S!Before, SP!Before
  <1>3. \A l : S!Sorted(l) = SP!Sorted(l)
    BY <1>2 DEF S!Sorted, SP!Sorted
  <1>4. \A l : S!TidyWorkList(l) = SP!TidyWorkList(l)
    BY <1>1, <1>3 DEF S!TidyWorkList, SP!TidyWorkList
  <1>. QED  BY <1>4 DEF S!AddWorkList, SP!AddWorkList, S!ListFull, SP!ListFull

LEMMA SameAxisSplit == \A d, st : S!AxisSplit(d, st) = SP!AxisSplit(d, st)
  <1>1. \A d, w : /\ S!Far(d, w) = SP!Far(d, w) /\ S!Last(d, w) = SP!Last(d, w)
                  /\ S!Inside(d, w) = SP!Inside(d, w)
    BY DEF S!Far, SP!Far, S!Last, SP!Last, S!Across, SP!Across, S!Inside, SP!Inside
  <1>2. \A w, d, c : S!CutOff(w, d, c) = SP!CutOff(w, d, c)
    BY DEF S!CutOff, SP!CutOff, S!Entry, SP!Entry, S!Undecided, SP!Undecided
  <1>3. \A d, st, m : S!NotUsed(d, st) = SP!NotUsed(d, st) /\ S!Used(d, st, m) = SP!Used(d, st, m)
    BY DEF S!NotUsed, SP!NotUsed, S!Used, SP!Used
  <1>4. \A d, st : S!NoRoomToCut(d, st) = SP!NoRoomToCut(d, st)
    BY <1>1 DEF S!NoRoomToCut, SP!NoRoomToCut, S!RoomToSplit, SP!RoomToSplit
  <1>5. ASSUME NEW d, NEW st
        PROVE  /\ S!ListFarPiece(d, st) = SP!ListFarPiece(d, st)
               /\ S!KeepNearPiece(d, st) = SP!KeepNearPiece(d, st)
    <2>. DEFINE FarPiece(s, l, c) == [s EXCEPT !.list = l, !.win.stop[d] = c, !.win.i_stop[d] = c]
                NearPiece(s, l, c) == [s EXCEPT !.list = l, !.win.stop[d] = c]
                SList(c) == S!AddWorkList(st.list, S!CutOff(st.win, d, c + 1))
                PList(c) == SP!AddWorkList(st.list, SP!CutOff(st.win, d, c + 1))
    <2>1. /\ S!ListFarPiece(d, st)
                = FarPiece(S!NotUsed(d, st), SList(S!Last(d, st.win)), S!Last(d, st.win))
          /\ SP!ListFarPiece(d, st)
                = FarPiece(SP!NotUsed(d, st), PList(SP!Last(d, st.win)), SP!Last(d, st.win))
      BY DEF S!ListFarPiece, SP!ListFarPiece
    <2>2. /\ S!KeepNearPiece(d, st)
                = NearPiece(S!Used(d, st, axis[d]), SList(S!Far(d, st.win)), S!Far(d, st.win))
          /\ SP!KeepNearPiece(d, st)
                = NearPiece(SP!Used(d, st, axis[d]), PList(SP!Far(d, st.win)), SP!Far(d, st.win))
      BY DEF S!KeepNearPiece, SP!KeepNearPiece
    <2>3. \A c : SList(c) = PList(c)  BY <1>2, SameAdd
    <2>. HIDE DEF FarPiece, NearPiece, SList, PList
    <2>. QED  BY <1>1, <1>3, <2>1, <2>2, <2>3
  <1>. QED  BY <1>1, <1>3, <1>4, <1>5 DEF S!AxisSplit, SP!AxisSplit

LEMMA SameSetSymmetry == \A e, l : S!SetSymmetry(S!Window(e), l) = SP!SetSymmetry(SP!Window(e), l)
  <1>1. \A e : S!Window(e) = SP!Window(e)  BY DEF S!Window, SP!Window
  <1>2. \A st : S!BothAxesSplit(st) = SP!BothAxesSplit(st)
    BY SameAxisSplit DEF S!BothAxesSplit, SP!BothAxesSplit
  <1>3. \A st, plot : S!WithPlot(st, plot) = SP!WithPlot(st, plot)  BY DEF S!WithPlot, SP!WithPlot
  <1>4. \A d, plot, st : S!OneAxisSplit(d, plot, st) = SP!OneAxisSplit(d, plot, st)
    BY SameAxisSplit, <1>3 DEF S!OneAxisSplit, SP!OneAxisSplit
  <1>5. \A st : S!OriginSplit(st) = SP!OriginSplit(st)
    BY SameAxisSplit, <1>2, <1>3 DEF S!OriginSplit, SP!OriginSplit, S!DecidedNo, SP!DecidedNo
  <1>6. \A w : S!XYPlot(w) = SP!XYPlot(w)  BY DEF S!XYPlot, SP!XYPlot
  <1>. QED  BY <1>1, <1>2, <1>3, <1>4, <1>5, <1>6 DEF S!SetSymmetry, SP!SetSymmetry

LEMMA SameTargets == \A w, p : S!Targets(w, p) = SP!Targets(w, p)
  BY DEF S!Targets, SP!Targets, S!Pt, SP!Pt

\* So are those of the work list, and the rectangles.
LEMMA SameTables ==
    /\ SP!Points = Points /\ SP!Entries = Entries /\ SP!Decision = Decision
    /\ \A e : SP!Area(e) = Area(e) /\ Rectangle(e) = Area(e)
    /\ \A f, e : SP!Within(f, e) = Within(f, e)
    /\ \A f : SP!Framed(f) = Framed(f)
    /\ \A f, R : SP!Tables(f, R) = Tables(f, R)
    /\ SP!WholeScreen = WholeScreen
  <1>1. SP!Points = Points /\ SP!Decision = Decision  BY DEF SP!Points, Points, SP!Decision, Decision
  <1>2. SP!Entries = Entries  BY <1>1 DEF SP!Entries, Entries
  <1>3. \A e : SP!Area(e) = Area(e) /\ Rectangle(e) = Area(e)  BY DEF SP!Area, Area, Rectangle
  <1>4. \A f, e : SP!Within(f, e) = Within(f, e)  BY DEF SP!Within, Within
  <1>5. \A f : SP!Framed(f) = Framed(f)  BY <1>2, <1>3, <1>4 DEF SP!Framed, Framed
  <1>6. \A f, R : SP!Clear(f, R) = Clear(f, R)  BY <1>3, <1>5 DEF SP!Clear, Clear
  <1>7. SP!Apart = Apart  BY <1>2, <1>3 DEF SP!Apart, Apart
  <1>8. \A G, Rel : SP!PairedLists(G, Rel) = PairedLists(G, Rel)  BY DEF SP!PairedLists, PairedLists
  <1>9. \A f, R : SP!Tables(f, R) = Tables(f, R)
    BY <1>6, <1>7, <1>8 DEF SP!Tables, Tables
  <1>10. SP!WholeScreen = WholeScreen
    BY DEF SP!WholeScreen, WholeScreen, S!WholeScreen, S!Entry, SP!Entry, S!Pt, SP!Pt,
           S!Undecided, SP!Undecided
  <1>. QED  BY <1>1, <1>2, <1>3, <1>4, <1>5, <1>9, <1>10

-----------------------------------------------------------------------------
\* Lists of the screen.

LEMMA Sizes == /\ XDots \in Nat \ {0} /\ YDots \in Nat \ {0} /\ MaxCalcWork \in Nat \ {0}
               /\ Sym \in SP!SymmetryKinds /\ Between \in [x : BOOLEAN, y : BOOLEAN]
  BY PanAssumption, MaxCalcWorkAssumption DEF S!SymmetryKinds, SP!SymmetryKinds

LEMMA ScreenFrame ==
    /\ IsFrame(WholeScreen) /\ WholeScreen \in Entries
    /\ WholeScreen.start.x = 0 /\ WholeScreen.start.y = 0
    /\ WholeScreen.stop.x = XDots - 1 /\ WholeScreen.stop.y = YDots - 1
    /\ WholeScreen.begin = WholeScreen.start
  BY Sizes DEF WholeScreen, S!WholeScreen, IsFrame, S!Entry, S!Pt, Points, Entries, S!Undecided, Decision

LEMMA PointOf ==
    ASSUME NEW x \in Int, NEW y \in Int
    PROVE  Pt(x, y) \in Points /\ Pt(x, y).x = x /\ Pt(x, y).y = y
  BY DEF Pt, Points

LEMMA OnScreen ==
    ASSUME NEW p
    PROVE  p \in Screen <=> /\ p \in Points /\ p.x \in Int /\ p.y \in Int
                            /\ 0 <= p.x /\ p.x <= XDots - 1 /\ 0 <= p.y /\ p.y <= YDots - 1
  BY Sizes DEF Screen, Points

\* What PanInv says of the saved list.
LEMMA ScreenTable ==
    ASSUME NEW l
    PROVE  l \in Tables(WholeScreen, {}) <=>
              /\ l \in Seq(Entries) /\ Len(l) <= MaxCalcWork
              /\ \A k \in 1 .. Len(l) : /\ l[k].start \in Screen /\ l[k].stop \in Screen
                                        /\ l[k].begin \in Rectangle(l[k])
              /\ \A i, j \in 1 .. Len(l) : i # j => Rectangle(l[i]) \cap Rectangle(l[j]) = {}
  <1>1. ASSUME NEW e \in Entries
        PROVE  e \in Clear(WholeScreen, {})
                 <=> e.start \in Screen /\ e.stop \in Screen /\ e.begin \in Rectangle(e)
    <2>1. /\ e.start \in Points /\ e.stop \in Points /\ IsFrame(e)
          /\ e.start.x \in Int /\ e.start.y \in Int /\ e.stop.x \in Int /\ e.stop.y \in Int
      BY EntryFrame, FrameNumbers DEF IsFrame
    <2>2. e.begin \in Area(e) => e.start.x <= e.stop.x /\ e.start.y <= e.stop.y
      BY <2>1, InArea
    <2>3. e \in Clear(WholeScreen, {}) <=> Within(WholeScreen, e) /\ e.begin \in Area(e)
      BY DEF Clear, Framed
    <2>. QED  BY <2>1, <2>2, <2>3, ScreenFrame, OnScreen, Sizes, SameTables DEF Within
  <1>2. \A k \in 1 .. Len(l) : l \in Seq(Entries) => l[k] \in Entries  OBVIOUS
  <1>. QED  BY <1>1, <1>2, InTable, SameTables

\* Less to keep clear of.
LEMMA LessClear ==
    ASSUME NEW f, NEW R, NEW T, T \subseteq R, NEW l \in Tables(f, R)
    PROVE  l \in Tables(f, T)
  <1>1. Clear(f, R) \subseteq Clear(f, T)  BY DEF Clear
  <1>. QED  BY <1>1, InTable

\* The front entry, and what is behind it.
LEMMA FrontApart ==
    ASSUME NEW l \in Tables(WholeScreen, {}), l # <<>>
    PROVE  Head(l) \in Framed(WholeScreen) /\ PopWorkListFront(l) \in Tables(WholeScreen, Area(Head(l)))
  <1>1. /\ l \in Seq(Entries) /\ Len(l) <= MaxCalcWork
        /\ \A k \in 1 .. Len(l) : l[k] \in Clear(WholeScreen, {})
        /\ \A i, j \in 1 .. Len(l) : i # j => Area(l[i]) \cap Area(l[j]) = {}
    BY InTable
  <1>. DEFINE t == Tail(l)
  <1>2. /\ t \in Seq(Entries) /\ Len(t) = Len(l) - 1 /\ Head(l) = l[1] /\ Len(l) \in Nat /\ Len(l) >= 1
        /\ \A k \in 1 .. Len(t) : t[k] = l[k + 1] /\ k + 1 \in 1 .. Len(l) /\ k + 1 # 1
    BY <1>1
  <1>. HIDE DEF t
  <1>3. Len(t) <= MaxCalcWork  BY <1>1, <1>2, Sizes
  <1>4. 1 \in 1 .. Len(l)  BY <1>2
  <1>5. \A k \in 1 .. Len(t) : t[k] \in Clear(WholeScreen, Area(Head(l)))
    BY <1>1, <1>2, <1>4 DEF Clear
  <1>6. \A i, j \in 1 .. Len(t) : i # j => Area(t[i]) \cap Area(t[j]) = {}
    <2>. TAKE i, j \in 1 .. Len(t)
    <2>1. i # j => i + 1 # j + 1  OBVIOUS
    <2>. QED  BY <1>1, <1>2, <2>1
  <1>7. t \in Tables(WholeScreen, Area(Head(l)))  BY <1>2, <1>3, <1>5, <1>6, InTable
  <1>8. Head(l) \in Framed(WholeScreen)  BY <1>1, <1>2, <1>4 DEF Clear
  <1>. QED  BY <1>7, <1>8 DEF PopWorkListFront, t

\* An entry put back where nothing else is.
LEMMA PutBack ==
    ASSUME NEW R, NEW l \in Tables(WholeScreen, R), NEW e \in Framed(WholeScreen), Area(e) \subseteq R
    PROVE  AddWorkList(l, e) \in Tables(WholeScreen, {}) /\ AddWorkList(l, e) # <<>>
  <1>1. l \in Tables(WholeScreen, {})  BY LessClear
  <1>2. CASE ListFull(l)
    <2>1. l # <<>>  BY <1>2, Sizes DEF ListFull
    <2>. QED  BY <1>1, <1>2, <2>1 DEF AddWorkList
  <1>3. CASE ~ListFull(l)
    <2>1. e \in Clear(WholeScreen, {})  BY DEF Clear
    <2>2. \A k \in 1 .. Len(l) : Area(l[k]) \cap Area(e) = {}  BY InTable DEF Clear
    <2>. DEFINE n == AddWorkList(l, e)
    <2>3. n \in Tables(WholeScreen, {}) /\ CoveredBy(Areas, l) \cup Area(e) \subseteq CoveredBy(Areas, n)
      BY <1>1, <1>3, <2>1, <2>2, ScreenFrame, AddClear
    <2>4. e.begin \in Area(e)  BY DEF Framed
    <2>. HIDE DEF n
    <2>5. n # <<>>
      <3>1. CASE n = <<>>
        <4>1. CoveredBy(Areas, n) = {}  BY <3>1 DEF CoveredBy
        <4>. QED  BY <2>3, <2>4, <4>1
      <3>. QED  BY <3>1
    <2>. QED  BY <2>3, <2>5 DEF n
  <1>. QED  BY <1>2, <1>3

-----------------------------------------------------------------------------
\* The engine.

\* A window of the screen with the half of it that is calculated.
IsWindow(w) ==
    /\ w.start \in Points /\ w.stop \in Points /\ w.i_stop \in Points
    /\ w.pass \in Int /\ w.symmetry \in [x : Decision, y : Decision]
    /\ Within(WholeScreen, w)
    /\ w.start.x <= w.i_stop.x /\ w.i_stop.x <= w.stop.x
    /\ w.start.y <= w.i_stop.y /\ w.i_stop.y <= w.stop.y
    /\ w.i_stop.y = w.stop.y \/ 2 * w.i_stop.y <= w.start.y + w.stop.y

LEMMA CutWindow ==
    ASSUME axis \in Points, NEW e \in Framed(WholeScreen), NEW l \in Tables(WholeScreen, Area(e)),
           NEW c, c = S!SetSymmetry(S!Window(e), l)
    PROVE  /\ IsWindow(c.win)
           /\ c.list \in Tables(WholeScreen, Area(c.win))
           /\ \A p \in Half(c.win) : S!Targets(c.win, p) \subseteq Area(c.win)
  <1>1. SP!CutApart(c)
    <2>1. e \in SP!Framed(SP!WholeScreen) /\ l \in SP!Tables(SP!WholeScreen, SP!Area(e))
      BY SameTables
    <2>2. axis \in [x : Int, y : Int]  BY DEF Points
    <2>3. SP!CutApart(SP!SetSymmetry(SP!Window(e), l))
      BY <2>1, <2>2, Sizes, SP!SetSymmetryApart
    <2>. QED  BY <2>3, SameSetSymmetry
  <1>2. /\ SP!Halved(c.win) /\ c.list \in Tables(WholeScreen, Area(c.win))
    BY <1>1, SameTables DEF SP!CutApart
  <1>3. c.win \in SP!Windows  BY <1>2 DEF SP!Halved
  <1>4. IsWindow(c.win)
    <2>1. Within(WholeScreen, c.win)  BY <1>2, SameTables DEF SP!Halved
    <2>. QED  BY <1>2, <1>3, <2>1, SameTables DEF SP!Halved, SP!Windows, IsWindow
  <1>5. ASSUME NEW p \in Half(c.win)  PROVE S!Targets(c.win, p) \subseteq Area(c.win)
    <2>1. /\ p \in SP!Points /\ c.win.start.x <= p.x /\ p.x <= c.win.i_stop.x
          /\ c.win.start.y <= p.y /\ p.y <= c.win.i_stop.y
      BY <1>4, <1>5, SameTables DEF Half, IsWindow, Points
    <2>2. axis \in [x : Int, y : Int]  BY DEF Points
    <2>3. SP!Targets(c.win, p) \subseteq SP!Area(c.win)
      BY <1>2, <2>1, <2>2, Sizes, SP!TargetsWithin
    <2>. QED  BY <2>3, SameTargets, SameTables
  <1>. QED  BY <1>2, <1>4, <1>5

\* The entries a window goes back on the list as.
LEMMA WindowBack ==
    ASSUME NEW w, IsWindow(w), NEW p \in Half(w)
    PROVE  /\ Entry(w.start, w.stop, w.start, 1, w.symmetry) \in Framed(WholeScreen)
           /\ Area(Entry(w.start, w.stop, w.start, 1, w.symmetry)) \subseteq Area(w)
           /\ Entry(w.start, w.stop, p, 0, w.symmetry) \in Framed(WholeScreen)
           /\ Area(Entry(w.start, w.stop, p, 0, w.symmetry)) \subseteq Area(w)
           /\ LET e == Entry(Pt(w.start.x, p.y), Pt(w.stop.x, StopRowForResume(w, p.y)), p,
                             w.pass, w.symmetry)
              IN  e \in Framed(WholeScreen) /\ Area(e) \subseteq Area(w)
  <1>. DEFINE last == StopRowForResume(w, p.y)
              second == Entry(w.start, w.stop, w.start, 1, w.symmetry)
              first == Entry(w.start, w.stop, p, 0, w.symmetry)
              rest == Entry(Pt(w.start.x, p.y), Pt(w.stop.x, last), p, w.pass, w.symmetry)
  <1>1. /\ w.start \in Points /\ w.stop \in Points /\ w.i_stop \in Points
        /\ w.pass \in Int /\ w.symmetry \in [x : Decision, y : Decision]
        /\ Within(WholeScreen, w) /\ IsFrame(w)
    BY DEF IsWindow, IsFrame
  <1>2. /\ w.start.x \in Int /\ w.start.y \in Int /\ w.stop.x \in Int /\ w.stop.y \in Int
        /\ w.i_stop.x \in Int /\ w.i_stop.y \in Int
    BY <1>1 DEF Points
  <1>3. /\ w.i_stop.x <= w.stop.x /\ w.i_stop.y <= w.stop.y
        /\ w.start.x <= w.stop.x /\ w.start.y <= w.stop.y
        /\ w.i_stop.y = w.stop.y \/ 2 * w.i_stop.y <= w.start.y + w.stop.y
    BY <1>1 DEF IsWindow, Within
  <1>4. /\ p \in Points /\ p.x \in Int /\ p.y \in Int
        /\ w.start.x <= p.x /\ p.x <= w.i_stop.x /\ w.start.y <= p.y /\ p.y <= w.i_stop.y
    BY <1>2 DEF Half, Points
  <1>5. last \in Int /\ p.y <= last /\ last <= w.stop.y
    BY <1>2, <1>3, <1>4 DEF StopRowForResume
  <1>. HIDE DEF last
  <1>6. second \in Entries /\ first \in Entries
    BY <1>1, <1>4 DEF Entry, Entries
  <1>7. second.start = w.start /\ second.stop = w.stop /\ second.begin = w.start
        /\ first.start = w.start /\ first.stop = w.stop /\ first.begin = p
    BY DEF Entry
  <1>8. /\ Pt(w.start.x, p.y) \in Points /\ Pt(w.start.x, p.y).x = w.start.x
        /\ Pt(w.start.x, p.y).y = p.y
        /\ Pt(w.stop.x, last) \in Points /\ Pt(w.stop.x, last).x = w.stop.x
        /\ Pt(w.stop.x, last).y = last
    BY <1>2, <1>4, <1>5, PointOf
  <1>9. rest \in Entries  BY <1>1, <1>4, <1>8 DEF Entry, Entries
  <1>10. /\ rest.start = Pt(w.start.x, p.y) /\ rest.stop = Pt(w.stop.x, last) /\ rest.begin = p
    BY DEF Entry
  <1>. HIDE DEF second, first, rest
  <1>11. /\ w.start \in Area(second) /\ p \in Area(first)
         /\ Area(second) = Area(w) /\ Area(first) = Area(w)
         /\ Within(WholeScreen, second) /\ Within(WholeScreen, first)
    <2>1. Area(second) = Area(w) /\ Area(first) = Area(w)  BY <1>7 DEF Area
    <2>2. w.start \in Area(w) /\ p \in Area(w)  BY <1>1, <1>2, <1>3, <1>4, InArea
    <2>. QED  BY <1>1, <1>7, <2>1, <2>2 DEF Within
  <1>12. IsFrame(rest)  BY <1>9, EntryFrame
  <1>13. p \in Area(rest)  BY <1>1, <1>2, <1>3, <1>4, <1>5, <1>8, <1>10, <1>12, InArea
  <1>14. Area(rest) \subseteq Area(w)
    <2>. SUFFICES ASSUME NEW q \in Area(rest)  PROVE q \in Area(w)
      OBVIOUS
    <2>1. /\ q \in Points /\ q.x \in Int /\ q.y \in Int
          /\ w.start.x <= q.x /\ q.x <= w.stop.x /\ p.y <= q.y /\ q.y <= last
      BY <1>8, <1>10, <1>12, InArea
    <2>. QED  BY <1>1, <1>2, <1>4, <1>5, <2>1, InArea
  <1>15. Within(WholeScreen, rest)
    <2>1. /\ WholeScreen.start.x \in Int /\ WholeScreen.start.y \in Int
          /\ WholeScreen.stop.x \in Int /\ WholeScreen.stop.y \in Int
      BY ScreenFrame, FrameNumbers
    <2>. QED  BY <1>1, <1>2, <1>4, <1>5, <1>8, <1>10, <2>1 DEF Within
  <1>. QED  BY <1>6, <1>7, <1>9, <1>10, <1>11, <1>13, <1>14, <1>15
         DEF Framed, second, first, rest, last

\* What is plotted of a window is on the screen.
LEMMA PlottedOnScreen ==
    ASSUME shown \subseteq Screen, NEW w, IsWindow(w),
           \A p \in Half(w) : S!Targets(w, p) \subseteq Area(w),
           NEW pixels, pixels \subseteq Half(w)
    PROVE  Plotted(w, pixels) \subseteq Screen
  <1>1. Area(w) \subseteq Screen
    <2>1. IsFrame(w) /\ Within(WholeScreen, w)  BY DEF IsWindow, IsFrame
    <2>2. /\ w.start.x \in Int /\ w.start.y \in Int /\ w.stop.x \in Int /\ w.stop.y \in Int
      BY <2>1, FrameNumbers
    <2>. QED  BY <2>1, <2>2, ScreenFrame, OnScreen, InArea, Sizes DEF Within
  <1>2. \A p \in pixels : Right(w, p) \subseteq Screen  BY <1>1 DEF Right
  <1>3. Old \subseteq Screen  BY DEF Old
  <1>. QED  BY <1>2, <1>3 DEF Plotted

\* The engine, one item at a time, keeps the list.
LEMMA CalculateKeeps ==
    ASSUME TypeOK, resume_data \in Tables(WholeScreen, {}),
           calc_status = "RESUMABLE" => resume_data # <<>>, Calculate
    PROVE  /\ resume_data' \in Tables(WholeScreen, {})
           /\ calc_status' \in {"RESUMABLE", "COMPLETED"}
           /\ calc_status' = "RESUMABLE" => resume_data' # <<>>
           /\ shown' \subseteq Screen
           /\ axis' = axis /\ pans_left' = pans_left /\ stops_left' \in 0 .. MaxStops
  <1>. DEFINE cut == Cut
              w == cut.win
  <1>1. List \in Tables(WholeScreen, {}) /\ List # <<>>
    <2>1. CASE calc_status = "RESUMABLE"  BY <2>1 DEF List
    <2>2. CASE calc_status # "RESUMABLE"
      <3>. DEFINE l == <<WholeScreen>>
      <3>1. List = l  BY <2>2 DEF List
      <3>2. l \in Seq(Entries) /\ Len(l) = 1 /\ l[1] = WholeScreen  BY ScreenFrame
      <3>21. l # <<>>  OBVIOUS
      <3>3. WholeScreen \in Clear(WholeScreen, {})
        <4>1. Within(WholeScreen, WholeScreen)  BY ScreenFrame, Sizes DEF Within
        <4>2. WholeScreen.start \in Area(WholeScreen)
          BY ScreenFrame, InArea, Sizes DEF IsFrame
        <4>. QED  BY <4>1, <4>2, ScreenFrame DEF Clear, Framed
      <3>. HIDE DEF l
      <3>4. \A k \in 1 .. Len(l) : k = 1  BY <3>2
      <3>5. /\ Len(l) <= MaxCalcWork
            /\ \A k \in 1 .. Len(l) : l[k] \in Clear(WholeScreen, {})
            /\ \A i, j \in 1 .. Len(l) : i # j => Area(l[i]) \cap Area(l[j]) = {}
        BY <3>2, <3>3, <3>4, Sizes
      <3>6. l \in Tables(WholeScreen, {})  BY <3>2, <3>5, InTable
      <3>. QED  BY <3>1, <3>21, <3>6
    <2>. QED  BY <2>1, <2>2
  <1>2. /\ Head(List) \in Framed(WholeScreen)
        /\ PopWorkListFront(List) \in Tables(WholeScreen, Area(Head(List)))
    BY <1>1, FrontApart
  <1>3. axis \in Points /\ shown \subseteq Screen /\ stops_left \in 0 .. MaxStops  BY DEF TypeOK
  <1>4. cut = S!SetSymmetry(S!Window(Head(List)), PopWorkListFront(List))  BY DEF Cut
  <1>. HIDE DEF cut
  <1>5. /\ IsWindow(w) /\ cut.list \in Tables(WholeScreen, Area(w))
        /\ \A p \in Half(w) : S!Targets(w, p) \subseteq Area(w)
    BY <1>2, <1>3, <1>4, CutWindow
  <1>. HIDE DEF w
  <1>6. Calculated(w) \subseteq Half(w)  BY DEF Calculated
  <1>7. \A pixels : pixels \subseteq Half(w) => Plotted(w, pixels) \subseteq Screen
    BY <1>3, <1>5, PlottedOnScreen
  <1>8. ASSUME FinishItem(w, cut.list)
        PROVE  /\ resume_data' \in Tables(WholeScreen, {}) /\ shown' \subseteq Screen
               /\ calc_status' \in {"RESUMABLE", "COMPLETED"}
               /\ calc_status' = "RESUMABLE" => resume_data' # <<>>
    <2>1. shown' \subseteq Screen  BY <1>6, <1>7, <1>8 DEF FinishItem
    <2>2. w.start \in Half(w)
      <3>1. /\ w.start \in Points /\ w.start.x \in Int /\ w.start.y \in Int
            /\ w.i_stop.x \in Int /\ w.i_stop.y \in Int
            /\ w.start.x <= w.i_stop.x /\ w.start.y <= w.i_stop.y
        BY <1>5 DEF IsWindow, Points
      <3>. QED  BY <3>1 DEF Half, Points
    <2>3. resume_data' \in Tables(WholeScreen, {})
      <3>1. CASE FirstPass(w)
        <4>1. AddWorkList(cut.list, Entry(w.start, w.stop, w.start, 1, w.symmetry))
                 \in Tables(WholeScreen, {})
          BY <1>5, <2>2, WindowBack, PutBack
        <4>. QED  BY <1>8, <3>1, <4>1 DEF FinishItem
      <3>2. CASE ~FirstPass(w)
        <4>1. cut.list \in Tables(WholeScreen, {})  BY <1>5, LessClear
        <4>. QED  BY <1>8, <3>2, <4>1 DEF FinishItem
      <3>. QED  BY <3>1, <3>2
    <2>4. /\ calc_status' \in {"RESUMABLE", "COMPLETED"}
          /\ calc_status' = "RESUMABLE" => resume_data' # <<>>
      BY <1>8 DEF FinishItem
    <2>. QED  BY <2>1, <2>3, <2>4
  <1>9. ASSUME NEW at \in Screen, StopItem(w, cut.list, at)
        PROVE  /\ resume_data' \in Tables(WholeScreen, {}) /\ shown' \subseteq Screen
               /\ calc_status' = "RESUMABLE" /\ resume_data' # <<>>
    <2>1. at \in Half(w)  BY <1>6, <1>9 DEF StopItem
    <2>2. shown' \subseteq Screen
      <3>1. {p \in Calculated(w) : ~AtOrAfter(p, at)} \subseteq Half(w)  BY <1>6
      <3>. QED  BY <1>7, <1>9, <3>1 DEF StopItem
    <2>3. calc_status' = "RESUMABLE"  BY <1>9 DEF StopItem
    <2>4. CASE FirstPass(w)
      <3>1. resume_data' = AddWorkList(cut.list, Entry(w.start, w.stop, at, 0, w.symmetry))
        BY <1>9, <2>4 DEF StopItem
      <3>. QED  BY <1>5, <2>1, <2>2, <2>3, <3>1, WindowBack, PutBack
    <2>5. CASE ~FirstPass(w)
      <3>. DEFINE e == Entry(Pt(w.start.x, at.y), Pt(w.stop.x, StopRowForResume(w, at.y)), at,
                             w.pass, w.symmetry)
      <3>1. resume_data' = AddWorkList(cut.list, e)  BY <1>9, <2>5 DEF StopItem
      <3>2. e \in Framed(WholeScreen) /\ Area(e) \subseteq Area(w)  BY <1>5, <2>1, WindowBack
      <3>. HIDE DEF e
      <3>. QED  BY <1>5, <2>2, <2>3, <3>1, <3>2, PutBack
    <2>. QED  BY <2>4, <2>5
  <1>10. /\ \/ FinishItem(w, cut.list) /\ UNCHANGED stops_left
            \/ /\ stops_left > 0 /\ stops_left' = stops_left - 1
               /\ \E at \in Screen : StopItem(w, cut.list, at)
         /\ UNCHANGED <<axis, pans_left>>
    BY DEF Calculate, cut, w
  <1>. QED  BY <1>3, <1>8, <1>9, <1>10, PanAssumption

-----------------------------------------------------------------------------
\* The shift and the edges.

\* Where the entries are when they have been shifted by d and the edges added: the
\* screen, and what has left it on one side.
Reach(d) == [start |-> Pt(IF d.x > 0 THEN -d.x ELSE 0, 0),
             stop  |-> Pt(IF d.x < 0 THEN XDots - 1 - d.x ELSE XDots - 1, YDots - 1)]

\* A frame that is the screen, widened to the left or to the right.
OneSided(f) == /\ IsFrame(f) /\ f.start.y = 0 /\ f.stop.y = YDots - 1
               /\ f.start.x <= 0 /\ f.stop.x >= XDots - 1
               /\ f.start.x < 0 => f.stop.x = XDots - 1

\* The distances the box can be moved by.
IsPan(d) == /\ d.x \in Int /\ d.y \in Int /\ d \in Points
            /\ -XDots < d.x /\ d.x < XDots /\ -YDots < d.y /\ d.y < YDots
            /\ d.x # 0 \/ d.y # 0

LEMMA HalfLess == ASSUME NEW n \in Nat \ {0}  PROVE n \div 2 \in Nat /\ n \div 2 < n
  OBVIOUS

LEMMA PansInRange ==
    ASSUME NEW d \in CompletedPans \cup SuspendedPans  PROVE IsPan(d)
  <1>1. d \in PansOfBox /\ d # Pt(0, 0)  BY PanAssumption
  <1>. DEFINE a == XDots \div 2
              b == YDots \div 2
  <1>2. a \in Nat /\ a < XDots /\ b \in Nat /\ b < YDots  BY Sizes, HalfLess
  <1>3. d \in [x : -a .. a, y : -b .. b]  BY <1>1 DEF PansOfBox
  <1>. HIDE DEF a, b
  <1>4. d.x \in -a .. a /\ d.y \in -b .. b /\ d = [x |-> d.x, y |-> d.y]  BY <1>3
  <1>5. d.x # 0 \/ d.y # 0  BY <1>1, <1>4 DEF Pt
  <1>. QED  BY <1>2, <1>4, <1>5, Sizes DEF IsPan, Points

LEMMA ReachOneSided ==
    ASSUME NEW d, IsPan(d)
    PROVE  /\ OneSided(Reach(d))
           /\ Reach(d).start.x = IF d.x > 0 THEN -d.x ELSE 0
           /\ Reach(d).stop.x = IF d.x < 0 THEN XDots - 1 - d.x ELSE XDots - 1
  <1>. DEFINE a == IF d.x > 0 THEN -d.x ELSE 0
              b == IF d.x < 0 THEN XDots - 1 - d.x ELSE XDots - 1
              c == YDots - 1
  <1>1. /\ a \in Int /\ b \in Int /\ c \in Int /\ a <= 0 /\ b >= XDots - 1
        /\ a < 0 => b = XDots - 1
    BY Sizes DEF IsPan
  <1>2. Reach(d).start = Pt(a, 0) /\ Reach(d).stop = Pt(b, c)  BY DEF Reach
  <1>. HIDE DEF a, b, c
  <1>3. /\ Pt(a, 0) \in Points /\ Pt(a, 0).x = a /\ Pt(a, 0).y = 0
        /\ Pt(b, c) \in Points /\ Pt(b, c).x = b /\ Pt(b, c).y = c
    BY <1>1, PointOf
  <1>4. OneSided(Reach(d))  BY <1>1, <1>2, <1>3 DEF OneSided, IsFrame, c
  <1>. QED  BY <1>2, <1>3, <1>4 DEF a, b

\* Windows of the screen lie in such a frame.
LEMMA ScreenInFrame ==
    ASSUME NEW f, OneSided(f), NEW e, IsFrame(e), Within(WholeScreen, e)  PROVE Within(f, e)
  <1>1. /\ f.start.x \in Int /\ f.start.y \in Int /\ f.stop.x \in Int /\ f.stop.y \in Int
        /\ e.start.x \in Int /\ e.start.y \in Int /\ e.stop.x \in Int /\ e.stop.y \in Int
    BY FrameNumbers DEF OneSided
  <1>. QED  BY <1>1, ScreenFrame, Sizes DEF OneSided, Within

\* The strip between two points of the screen.
LEMMA StripFramed ==
    ASSUME NEW a \in Int, NEW b \in Int, NEW c \in Int, NEW g \in Int,
           0 <= a, a <= c, c <= XDots - 1, 0 <= b, b <= g, g <= YDots - 1
    PROVE  LET e == Strip(Pt(a, b), Pt(c, g))
           IN  /\ e \in Framed(WholeScreen) /\ e \in Entries
               /\ e.start.x = a /\ e.start.y = b /\ e.stop.x = c /\ e.stop.y = g
  <1>. DEFINE e == Strip(Pt(a, b), Pt(c, g))
  <1>1. /\ Pt(a, b) \in Points /\ Pt(a, b).x = a /\ Pt(a, b).y = b
        /\ Pt(c, g) \in Points /\ Pt(c, g).x = c /\ Pt(c, g).y = g
    BY PointOf
  <1>2. e \in Entries  BY <1>1 DEF Strip, Entry, Entries, Undecided, Decision
  <1>3. e.start = Pt(a, b) /\ e.stop = Pt(c, g) /\ e.begin = e.start  BY DEF Strip, Entry
  <1>. HIDE DEF e
  <1>4. Within(WholeScreen, e)  BY <1>1, <1>3, ScreenFrame, Sizes DEF Within
  <1>5. e.start \in Area(e)  BY <1>1, <1>2, <1>3, EntryFrame, InArea
  <1>. QED  BY <1>1, <1>2, <1>3, <1>4, <1>5 DEF Framed, e

\* Two entries of different rows or columns.
LEMMA SideBySide ==
    ASSUME NEW e, NEW g, IsFrame(e), IsFrame(g),
           \/ e.stop.x < g.start.x \/ g.stop.x < e.start.x
           \/ e.stop.y < g.start.y \/ g.stop.y < e.start.y
    PROVE  Area(e) \cap Area(g) = {}
  <1>1. /\ e.start.x \in Int /\ e.start.y \in Int /\ e.stop.x \in Int /\ e.stop.y \in Int
        /\ g.start.x \in Int /\ g.start.y \in Int /\ g.stop.x \in Int /\ g.stop.y \in Int
    BY FrameNumbers
  <1>. SUFFICES ASSUME NEW p, p \in Area(e), p \in Area(g)  PROVE FALSE
    OBVIOUS
  <1>2. /\ p.x \in Int /\ p.y \in Int
        /\ e.start.x <= p.x /\ p.x <= e.stop.x /\ e.start.y <= p.y /\ p.y <= e.stop.y
        /\ g.start.x <= p.x /\ p.x <= g.stop.x /\ g.start.y <= p.y /\ p.y <= g.stop.y
    BY InArea
  <1>. QED  BY <1>1, <1>2

\* The edges: one strip or two that share no pixel.
LEMMA EdgesApart ==
    ASSUME NEW d, IsPan(d)
    PROVE  /\ Len(Edges(d)) \in {1, 2}
           /\ \A k \in 1 .. Len(Edges(d)) : Edges(d)[k] \in Framed(WholeScreen)
           /\ Len(Edges(d)) = 2 => Area(Edges(d)[1]) \cap Area(Edges(d)[2]) = {}
           /\ d.y = 0 => /\ Len(Edges(d)) = 1
                         /\ d.x > 0 => Edges(d)[1].start.x = XDots - d.x
                         /\ d.x < 0 => Edges(d)[1].stop.x = -d.x - 1
  <1>. DEFINE top == ColumnTop(d)
              bottom == ColumnBottom(d)
              R == Edges(d)[1]
  <1>1. /\ d.x \in Int /\ d.y \in Int /\ -XDots < d.x /\ d.x < XDots /\ -YDots < d.y /\ d.y < YDots
        /\ d.x # 0 \/ d.y # 0
    BY DEF IsPan
  <1>2. /\ top \in Int /\ bottom \in Int /\ 0 <= top /\ top <= bottom /\ bottom <= YDots - 1
    BY <1>1, Sizes DEF ColumnTop, ColumnBottom
  <1>3. d.y # 0 => \E r : /\ EdgeRows(d) = <<r>> /\ r \in Framed(WholeScreen) /\ r \in Entries
                          /\ r.stop.y < top \/ bottom < r.start.y
    <2>1. ASSUME d.y < 0
          PROVE  \E r : /\ EdgeRows(d) = <<r>> /\ r \in Framed(WholeScreen) /\ r \in Entries
                        /\ r.stop.y < top
      <3>. DEFINE r == Strip(Pt(0, 0), Pt(XDots - 1, -d.y - 1))
      <3>1. EdgeRows(d) = <<r>>  BY <2>1, <1>1 DEF EdgeRows
      <3>2. XDots - 1 \in Int /\ -d.y - 1 \in Int /\ 0 <= XDots - 1 /\ 0 <= -d.y - 1 /\ -d.y - 1 <= YDots - 1
        BY <1>1, <2>1, Sizes
      <3>3. r \in Framed(WholeScreen) /\ r \in Entries /\ r.stop.y = -d.y - 1  BY <3>2, StripFramed
      <3>4. -d.y - 1 < top  BY <1>1, <2>1 DEF ColumnTop
      <3>. HIDE DEF r, top
      <3>. QED  BY <3>1, <3>3, <3>4
    <2>2. ASSUME d.y > 0
          PROVE  \E r : /\ EdgeRows(d) = <<r>> /\ r \in Framed(WholeScreen) /\ r \in Entries
                        /\ bottom < r.start.y
      <3>. DEFINE r == Strip(Pt(0, YDots - d.y), Pt(XDots - 1, YDots - 1))
      <3>1. EdgeRows(d) = <<r>>  BY <2>2, <1>1 DEF EdgeRows
      <3>2. /\ XDots - 1 \in Int /\ YDots - d.y \in Int /\ YDots - 1 \in Int
            /\ 0 <= XDots - 1 /\ 0 <= YDots - d.y /\ YDots - d.y <= YDots - 1
        BY <1>1, <2>2, Sizes
      <3>3. r \in Framed(WholeScreen) /\ r \in Entries /\ r.start.y = YDots - d.y  BY <3>2, StripFramed
      <3>4. bottom < YDots - d.y  BY <1>1, <2>2, Sizes DEF ColumnBottom
      <3>. HIDE DEF r, bottom
      <3>. QED  BY <3>1, <3>3, <3>4
    <2>. HIDE DEF top, bottom
    <2>. QED  BY <1>1, <2>1, <2>2
  <1>4. d.x # 0 => \E c : /\ EdgeColumns(d) = <<c>> /\ c \in Framed(WholeScreen) /\ c \in Entries
                          /\ c.start.y = top /\ c.stop.y = bottom
                          /\ d.x > 0 => c.start.x = XDots - d.x
                          /\ d.x < 0 => c.stop.x = -d.x - 1
    <2>1. ASSUME d.x < 0
          PROVE  \E c : /\ EdgeColumns(d) = <<c>> /\ c \in Framed(WholeScreen) /\ c \in Entries
                        /\ c.start.y = top /\ c.stop.y = bottom /\ c.stop.x = -d.x - 1
      <3>. DEFINE c == Strip(Pt(0, top), Pt(-d.x - 1, bottom))
      <3>1. EdgeColumns(d) = <<c>>  BY <2>1, <1>1 DEF EdgeColumns
      <3>2. -d.x - 1 \in Int /\ 0 <= -d.x - 1 /\ -d.x - 1 <= XDots - 1  BY <1>1, <2>1, Sizes
      <3>. HIDE DEF top, bottom
      <3>3. /\ c \in Framed(WholeScreen) /\ c \in Entries
            /\ c.start.y = top /\ c.stop.y = bottom /\ c.stop.x = -d.x - 1
        BY <1>2, <3>2, StripFramed
      <3>. HIDE DEF c
      <3>. QED  BY <3>1, <3>3
    <2>2. ASSUME d.x > 0
          PROVE  \E c : /\ EdgeColumns(d) = <<c>> /\ c \in Framed(WholeScreen) /\ c \in Entries
                        /\ c.start.y = top /\ c.stop.y = bottom /\ c.start.x = XDots - d.x
      <3>. DEFINE c == Strip(Pt(XDots - d.x, top), Pt(XDots - 1, bottom))
      <3>1. EdgeColumns(d) = <<c>>  BY <2>2, <1>1 DEF EdgeColumns
      <3>2. /\ XDots - d.x \in Int /\ XDots - 1 \in Int /\ 0 <= XDots - d.x /\ XDots - d.x <= XDots - 1
        BY <1>1, <2>2, Sizes
      <3>. HIDE DEF top, bottom
      <3>3. /\ c \in Framed(WholeScreen) /\ c \in Entries
            /\ c.start.y = top /\ c.stop.y = bottom /\ c.start.x = XDots - d.x
        BY <1>2, <3>2, StripFramed
      <3>. HIDE DEF c
      <3>. QED  BY <3>1, <3>3
    <2>. HIDE DEF top, bottom
    <2>. QED  BY <1>1, <2>1, <2>2
  <1>5. d.y = 0 => EdgeRows(d) = <<>>  BY DEF EdgeRows
  <1>6. d.x = 0 => EdgeColumns(d) = <<>>  BY DEF EdgeColumns
  <1>. HIDE DEF top, bottom
  <1>7. CASE d.y = 0
    <2>1. PICK c : /\ EdgeColumns(d) = <<c>> /\ c \in Framed(WholeScreen)
                   /\ d.x > 0 => c.start.x = XDots - d.x
                   /\ d.x < 0 => c.stop.x = -d.x - 1
      BY <1>1, <1>4, <1>7
    <2>2. Edges(d) = <<c>>  BY <1>5, <1>7, <2>1 DEF Edges
    <2>3. Len(Edges(d)) = 1 /\ Edges(d)[1] = c  BY <2>2
    <2>. QED  BY <2>1, <2>3
  <1>8. CASE d.y # 0 /\ d.x = 0
    <2>1. PICK r : EdgeRows(d) = <<r>> /\ r \in Framed(WholeScreen)  BY <1>3, <1>8
    <2>2. Edges(d) = <<r>>  BY <1>6, <1>8, <2>1 DEF Edges
    <2>3. Len(Edges(d)) = 1 /\ Edges(d)[1] = r  BY <2>2
    <2>. QED  BY <1>8, <2>1, <2>3
  <1>9. CASE d.y # 0 /\ d.x # 0
    <2>1. PICK r : /\ EdgeRows(d) = <<r>> /\ r \in Framed(WholeScreen) /\ r \in Entries
                   /\ r.stop.y < top \/ bottom < r.start.y
      BY <1>3, <1>9
    <2>2. PICK c : /\ EdgeColumns(d) = <<c>> /\ c \in Framed(WholeScreen) /\ c \in Entries
                   /\ c.start.y = top /\ c.stop.y = bottom
      BY <1>4, <1>9
    <2>3. Edges(d) = <<r>> \o <<c>>  BY <2>1, <2>2 DEF Edges
    <2>4. Len(Edges(d)) = 2 /\ Edges(d)[1] = r /\ Edges(d)[2] = c  BY <2>3
    <2>5. Area(r) \cap Area(c) = {}  BY <2>1, <2>2, EntryFrame, SideBySide
    <2>6. \A k \in 1 .. Len(Edges(d)) : k = 1 \/ k = 2  BY <2>4
    <2>. QED  BY <1>9, <2>1, <2>2, <2>4, <2>5, <2>6
  <1>. QED  BY <1>7, <1>8, <1>9

\* The entries, shifted, lie in their frame and leave the edges alone.
LEMMA ShiftedApart ==
    ASSUME NEW d, IsPan(d), resume_data \in Tables(WholeScreen, {}),
           calc_status = "RESUMABLE" => d.y = 0,
           NEW R, R = UNION {Area(Edges(d)[k]) : k \in 1 .. Len(Edges(d))}
    PROVE  Shifted(d) \in Tables(Reach(d), R)
  <1>. DEFINE f == Reach(d)
              l == resume_data
              Shift(e) == [e EXCEPT !.start = Minus(@, d), !.stop = Minus(@, d), !.begin = Minus(@, d)]
  <1>1. CASE calc_status # "RESUMABLE"
    <2>1. Shifted(d) = [k \in 1 .. 0 |-> 0]
      <3>1. Shifted(d) = [k \in 1 .. Len(<<>>) |->
                             [<<>>[k] EXCEPT !.start = Minus(@, d), !.stop = Minus(@, d),
                                             !.begin = Minus(@, d)]]
        BY <1>1 DEF Shifted
      <3>2. 1 .. Len(<<>>) = {} /\ 1 .. 0 = {}  OBVIOUS
      <3>. QED  BY <3>1, <3>2
    <2>2. Shifted(d) \in Seq(Entries) /\ Len(Shifted(d)) = 0  BY <2>1
    <2>3. /\ Len(Shifted(d)) <= MaxCalcWork
          /\ \A k \in 1 .. Len(Shifted(d)) : Shifted(d)[k] \in Clear(f, R)
          /\ \A i, j \in 1 .. Len(Shifted(d)) :
                i # j => Area(Shifted(d)[i]) \cap Area(Shifted(d)[j]) = {}
      BY <2>2, Sizes
    <2>. QED  BY <2>2, <2>3, InTable
  <1>2. CASE calc_status = "RESUMABLE"
    <2>1. d.y = 0 /\ d.x # 0 /\ d.x \in Int /\ d.y \in Int /\ d \in Points
          /\ -XDots < d.x /\ d.x < XDots
      BY <1>2 DEF IsPan
    <2>2. /\ l \in Seq(Entries) /\ Len(l) <= MaxCalcWork /\ Len(l) \in Nat
          /\ \A k \in 1 .. Len(l) : l[k] \in Framed(WholeScreen) /\ l[k] \in Entries
          /\ \A i, j \in 1 .. Len(l) : i # j => Area(l[i]) \cap Area(l[j]) = {}
      <3>1. /\ l \in Seq(Entries) /\ Len(l) <= MaxCalcWork
            /\ \A k \in 1 .. Len(l) : l[k] \in Clear(WholeScreen, {})
            /\ \A i, j \in 1 .. Len(l) : i # j => Area(l[i]) \cap Area(l[j]) = {}
        BY InTable
      <3>2. Len(l) \in Nat  BY <3>1
      <3>3. \A e \in Clear(WholeScreen, {}) : e \in Framed(WholeScreen) /\ e \in Entries
        BY DEF Clear, Framed
      <3>. QED  BY <3>1, <3>2, <3>3
    <2>3. Shifted(d) = [k \in 1 .. Len(l) |-> Shift(l[k])]  BY <1>2 DEF Shifted
    <2>4. OneSided(f) /\ IsFrame(f) /\ f.start.y = 0 /\ f.stop.y = YDots - 1
          /\ f.start.x = (IF d.x > 0 THEN -d.x ELSE 0)
          /\ f.stop.x = (IF d.x < 0 THEN XDots - 1 - d.x ELSE XDots - 1)
      BY ReachOneSided DEF OneSided
    <2>. DEFINE g == Edges(d)[1]
    <2>5. /\ g \in Framed(WholeScreen) /\ R = Area(g) /\ IsFrame(g)
          /\ d.x > 0 => g.start.x = XDots - d.x
          /\ d.x < 0 => g.stop.x = -d.x - 1
      <3>1. Len(Edges(d)) = 1  BY <2>1, EdgesApart
      <3>2. \A k : k \in 1 .. Len(Edges(d)) <=> k = 1  BY <3>1
      <3>3. R = Area(Edges(d)[1])  BY <3>2
      <3>4. g \in Framed(WholeScreen)  BY <3>2, EdgesApart
      <3>. HIDE DEF g
      <3>5. IsFrame(g)  BY <3>4, EntryFrame DEF Framed
      <3>. USE DEF g
      <3>. QED  BY <2>1, <3>3, <3>4, <3>5, EdgesApart
    <2>. HIDE DEF f, g
    <2>6. ASSUME NEW p \in Points
          PROVE  /\ Minus(p, d) \in Points /\ p.x \in Int /\ p.y \in Int
                 /\ Minus(p, d).x = p.x - d.x /\ Minus(p, d).y = p.y
      <3>1. p.x \in Int /\ p.y \in Int  BY DEF Points
      <3>2. p.x - d.x \in Int /\ p.y - d.y \in Int /\ p.y - d.y = p.y  BY <2>1, <3>1
      <3>. QED  BY <3>1, <3>2, PointOf DEF Minus
    <2>7. ASSUME NEW e \in Entries
          PROVE  /\ Shift(e) \in Entries
                 /\ Shift(e).start = Minus(e.start, d) /\ Shift(e).stop = Minus(e.stop, d)
                 /\ Shift(e).begin = Minus(e.begin, d)
      BY <2>6 DEF Entries
    <2>. HIDE DEF Shift
    <2>8. ASSUME NEW e \in Entries, NEW p
          PROVE  p \in Area(Shift(e)) <=> p \in Points /\ Plus(p, d) \in Area(e)
      <3>1. /\ e.start \in Points /\ e.stop \in Points /\ IsFrame(e) /\ IsFrame(Shift(e))
        BY <2>7, EntryFrame DEF IsFrame
      <3>2. /\ e.start.x \in Int /\ e.start.y \in Int /\ e.stop.x \in Int /\ e.stop.y \in Int
            /\ Shift(e).start.x = e.start.x - d.x /\ Shift(e).start.y = e.start.y
            /\ Shift(e).stop.x = e.stop.x - d.x /\ Shift(e).stop.y = e.stop.y
        BY <2>6, <2>7, <3>1
      <3>3. ASSUME p \in Points
            PROVE  /\ p.x \in Int /\ p.y \in Int /\ Plus(p, d) \in Points
                   /\ Plus(p, d).x = p.x + d.x /\ Plus(p, d).y = p.y
        <4>1. p.x \in Int /\ p.y \in Int  BY <3>3 DEF Points
        <4>2. p.x + d.x \in Int /\ p.y + d.y \in Int /\ p.y + d.y = p.y  BY <2>1, <4>1
        <4>. QED  BY <4>1, <4>2, PointOf DEF Plus
      <3>4. CASE p \in Points
        <4>1. p \in Area(Shift(e)) <=> /\ e.start.x - d.x <= p.x /\ p.x <= e.stop.x - d.x
                                       /\ e.start.y <= p.y /\ p.y <= e.stop.y
          BY <3>1, <3>2, <3>3, <3>4, InArea
        <4>2. Plus(p, d) \in Area(e) <=> /\ e.start.x <= p.x + d.x /\ p.x + d.x <= e.stop.x
                                         /\ e.start.y <= p.y /\ p.y <= e.stop.y
          BY <2>1, <3>1, <3>2, <3>3, <3>4, InArea
        <4>. QED  BY <2>1, <3>2, <3>3, <3>4, <4>1, <4>2
      <3>5. CASE p \notin Points  BY <3>1, <3>5, InArea
      <3>. QED  BY <3>4, <3>5
    <2>9. ASSUME NEW e \in Framed(WholeScreen), e \in Entries
          PROVE  Shift(e) \in Clear(f, R)
      <3>1. /\ e.start \in Points /\ e.stop \in Points /\ e.begin \in Points
            /\ Within(WholeScreen, e) /\ e.begin \in Area(e)
        BY <2>9, EntryFrame DEF Framed, IsFrame
      <3>2. /\ e.start.x \in Int /\ e.start.y \in Int /\ e.stop.x \in Int /\ e.stop.y \in Int
            /\ Shift(e).start.x = e.start.x - d.x /\ Shift(e).start.y = e.start.y
            /\ Shift(e).stop.x = e.stop.x - d.x /\ Shift(e).stop.y = e.stop.y
            /\ Shift(e) \in Entries /\ IsFrame(Shift(e))
        BY <2>6, <2>7, <2>9, <3>1, EntryFrame
      <3>3. /\ 0 <= e.start.x /\ e.start.x <= e.stop.x /\ e.stop.x <= XDots - 1
            /\ 0 <= e.start.y /\ e.start.y <= e.stop.y /\ e.stop.y <= YDots - 1
        BY <3>1, ScreenFrame DEF Within
      <3>4. Within(f, Shift(e))  BY <2>1, <2>4, <3>2, <3>3, Sizes DEF Within
      <3>5. Shift(e).begin \in Area(Shift(e))
        <4>1. Minus(e.begin, d) \in Points  BY <2>6, <3>1
        <4>2. Plus(Minus(e.begin, d), d) = e.begin
          <5>1. /\ e.begin = [x |-> e.begin.x, y |-> e.begin.y] /\ e.begin.x \in Int /\ e.begin.y \in Int
            BY <3>1 DEF Points
          <5>2. e.begin.x - d.x + d.x = e.begin.x /\ e.begin.y - d.y + d.y = e.begin.y
            BY <2>1, <5>1
          <5>3. /\ Minus(e.begin, d).x = e.begin.x - d.x /\ Minus(e.begin, d).y = e.begin.y - d.y
            BY DEF Minus, Pt
          <5>. QED  BY <5>1, <5>2, <5>3 DEF Plus, Pt
        <4>. QED  BY <2>7, <2>8, <2>9, <3>1, <4>1, <4>2
      <3>6. Area(Shift(e)) \cap Area(g) = {}
        <4>1. g.stop.x < Shift(e).start.x \/ Shift(e).stop.x < g.start.x
          BY <2>1, <2>5, <3>2, <3>3, Sizes
        <4>. QED  BY <2>5, <3>2, <4>1, SideBySide
      <3>. QED  BY <2>5, <3>2, <3>4, <3>5, <3>6 DEF Clear, Framed
    <2>10. ASSUME NEW e \in Entries, NEW h \in Entries, Area(e) \cap Area(h) = {}
           PROVE  Area(Shift(e)) \cap Area(Shift(h)) = {}
      BY <2>8, <2>10
    <2>11. /\ Shifted(d) \in Seq(Entries) /\ Len(Shifted(d)) = Len(l)
           /\ \A k \in 1 .. Len(l) : Shifted(d)[k] = Shift(l[k])
      BY <2>2, <2>3, <2>7
    <2>12. \A k \in 1 .. Len(Shifted(d)) : Shifted(d)[k] \in Clear(f, R)  BY <2>2, <2>9, <2>11
    <2>13. \A i, j \in 1 .. Len(Shifted(d)) :
              i # j => Area(Shifted(d)[i]) \cap Area(Shifted(d)[j]) = {}
      BY <2>2, <2>10, <2>11
    <2>14. Len(Shifted(d)) <= MaxCalcWork  BY <2>2, <2>11
    <2>. QED  BY <2>11, <2>12, <2>13, <2>14, InTable DEF f
  <1>. QED  BY <1>1, <1>2

\* The list after no edge, one and two.
LEMMA EdgeByEdge ==
    ASSUME NEW d
    PROVE  /\ WithEdges(d, 0) = Shifted(d)
           /\ WithEdges(d, 1) = AddWorkList(WithEdges(d, 0), Edges(d)[1])
           /\ WithEdges(d, 2) = AddWorkList(WithEdges(d, 1), Edges(d)[2])
  <1>. DEFINE c == Shifted(d)
              F(l, k) == AddWorkList(l, Edges(d)[k])
              IsLoop(n, g) == g = [k \in 0 .. n |-> IF k = 0 THEN c ELSE F(g[k - 1], k)]
              after(n) == CHOOSE g : IsLoop(n, g)
  <1>1. \A n : WithEdges(d, n) = after(n)[n]  BY DEF WithEdges
  <1>. HIDE DEF c, F
  <1>2. after(0)[0] = c
    <2>. DEFINE g == [k \in 0 .. 0 |-> c]
    <2>1. IsLoop(0, g)
      <3>1. \A k \in 0 .. 0 : k = 0  OBVIOUS
      <3>. QED  BY <3>1
    <2>2. IsLoop(0, after(0))
      <3>. HIDE DEF IsLoop, g
      <3>. QED  BY <2>1
    <2>. HIDE DEF after
    <2>. QED  BY <2>2
  <1>3. after(1)[1] = F(c, 1)
    <2>. DEFINE g == [k \in 0 .. 1 |-> IF k = 0 THEN c ELSE F(c, 1)]
    <2>1. IsLoop(1, g)
      <3>1. \A k \in 0 .. 1 : k = 0 \/ (k # 0 /\ k = 1)  OBVIOUS
      <3>2. g[0] = c /\ 1 - 1 = 0  OBVIOUS
      <3>3. \A k \in 0 .. 1 : k # 0 => F(g[k - 1], k) = F(c, 1)
        <4>. HIDE DEF g
        <4>. QED  BY <3>1, <3>2
      <3>4. [k \in 0 .. 1 |-> IF k = 0 THEN c ELSE F(g[k - 1], k)] = g
        <4>1. \A k \in 0 .. 1 : (IF k = 0 THEN c ELSE F(g[k - 1], k)) = (IF k = 0 THEN c ELSE F(c, 1))
          BY <3>3
        <4>. QED  BY <4>1
      <3>. QED  BY <3>4
    <2>2. IsLoop(1, after(1))
      <3>. HIDE DEF IsLoop, g
      <3>. QED  BY <2>1
    <2>. HIDE DEF after
    <2>3. after(1)[0] = c  BY <2>2
    <2>4. after(1)[1] = F(after(1)[1 - 1], 1)  BY <2>2
    <2>5. 1 - 1 = 0  OBVIOUS
    <2>. QED  BY <2>3, <2>4, <2>5
  <1>4. after(2)[2] = F(F(c, 1), 2)
    <2>. DEFINE g == [k \in 0 .. 2 |-> IF k = 0 THEN c ELSE IF k = 1 THEN F(c, 1) ELSE F(F(c, 1), 2)]
    <2>1. IsLoop(2, g)
      <3>1. \A k \in 0 .. 2 : k = 0 \/ k = 1 \/ k = 2  OBVIOUS
      <3>2. g[0] = c /\ g[1] = F(c, 1) /\ g[2] = F(F(c, 1), 2) /\ 1 - 1 = 0 /\ 2 - 1 = 1  OBVIOUS
      <3>3. g = [k \in 0 .. 2 |-> g[k]]  OBVIOUS
      <3>. HIDE DEF g
      <3>4. \A k \in 0 .. 2 : g[k] = IF k = 0 THEN c ELSE F(g[k - 1], k)  BY <3>1, <3>2
      <3>. QED  BY <3>3, <3>4
    <2>2. IsLoop(2, after(2))
      <3>. HIDE DEF IsLoop, g
      <3>. QED  BY <2>1
    <2>. HIDE DEF after
    <2>3. after(2)[0] = c  BY <2>2
    <2>4. after(2)[1] = F(after(2)[1 - 1], 1) /\ after(2)[2] = F(after(2)[2 - 1], 2)  BY <2>2
    <2>5. 1 - 1 = 0 /\ 2 - 1 = 1  OBVIOUS
    <2>. QED  BY <2>3, <2>4, <2>5
  <1>. QED  BY <1>1, <1>2, <1>3, <1>4 DEF c, F

\* The list with its edges, when none was refused.
LEMMA WithEdgesApart ==
    ASSUME NEW d, IsPan(d), resume_data \in Tables(WholeScreen, {}),
           calc_status = "RESUMABLE" => d.y = 0, ~EdgeRefused(d)
    PROVE  LET l == WithEdges(d, Len(Edges(d)))
           IN  /\ l \in Tables(Reach(d), {})
               /\ \E p \in Screen : \E k \in 1 .. Len(l) : p \in Area(l[k])
  <1>. DEFINE f == Reach(d)
              g(k) == Edges(d)[k]
              R == UNION {Area(g(k)) : k \in 1 .. Len(Edges(d))}
              p == g(1).start
  <1>1. /\ Len(Edges(d)) \in {1, 2}
        /\ \A k \in 1 .. Len(Edges(d)) : g(k) \in Framed(WholeScreen)
        /\ Len(Edges(d)) = 2 => Area(g(1)) \cap Area(g(2)) = {}
    BY EdgesApart
  <1>2. WithEdges(d, 0) \in Tables(f, R)  BY EdgeByEdge, ShiftedApart
  <1>3. OneSided(f) /\ IsFrame(f)  BY ReachOneSided DEF OneSided
  <1>4. \A k \in 1 .. Len(Edges(d)) : ~ListFull(WithEdges(d, k - 1))  BY DEF EdgeRefused
  <1>5. /\ WithEdges(d, 1) = AddWorkList(WithEdges(d, 0), g(1))
        /\ WithEdges(d, 2) = AddWorkList(WithEdges(d, 1), g(2))
    BY EdgeByEdge
  <1>. HIDE DEF f, g
  <1>6. \A k \in 1 .. Len(Edges(d)) : Area(g(k)) \subseteq R  OBVIOUS
  <1>7. \A k \in 1 .. Len(Edges(d)) : g(k) \in Framed(f) /\ g(k) \in Entries
    BY <1>1, <1>3, EntryFrame, ScreenInFrame DEF Framed
  <1>8. 1 \in 1 .. Len(Edges(d))  BY <1>1
  <1>9. p \in Screen /\ p \in Area(g(1))
    <2>. DEFINE e == g(1)
    <2>1. /\ e \in Entries /\ Within(WholeScreen, e) /\ IsFrame(e) /\ e.start \in Points
      BY <1>1, <1>7, <1>8, EntryFrame DEF Framed, IsFrame
    <2>. HIDE DEF e
    <2>2. /\ e.start.x \in Int /\ e.start.y \in Int /\ e.stop.x \in Int /\ e.stop.y \in Int
      BY <2>1, FrameNumbers
    <2>3. e.start \in Area(e)  BY <2>1, <2>2, InArea DEF Within
    <2>4. e.start \in Screen  BY <2>1, <2>2, ScreenFrame, OnScreen, Sizes DEF Within
    <2>. QED  BY <2>3, <2>4 DEF e
  <1>. HIDE DEF p
  \* Whatever is covered is covered by an entry.
  <1>10. ASSUME NEW l \in Seq(Entries), p \in CoveredBy(Areas, l)
         PROVE  \E k \in 1 .. Len(l) : p \in Area(l[k])
    <2>1. \A k \in 1 .. Len(l) : l[k] \in Entries  OBVIOUS
    <2>2. \A e \in Entries : Areas[e] = Area(e)  BY DEF Areas
    <2>. QED  BY <1>10, <2>1, <2>2 DEF CoveredBy
  <1>11. CASE Len(Edges(d)) = 1
    <2>1. R = Area(g(1))
      <3>1. \A k : k \in 1 .. Len(Edges(d)) <=> k = 1  BY <1>11
      <3>. QED  BY <3>1
    <2>. HIDE DEF R
    <2>2. WithEdges(d, 0) \in Tables(f, {})  BY <1>2, LessClear
    <2>3. g(1) \in Clear(f, {})  BY <1>7, <1>8 DEF Clear
    <2>4. \A k \in 1 .. Len(WithEdges(d, 0)) : Area(WithEdges(d, 0)[k]) \cap Area(g(1)) = {}
      BY <1>2, <2>1, InTable DEF Clear
    <2>5. ~ListFull(WithEdges(d, 0))  BY <1>4, <1>8
    <2>6. /\ WithEdges(d, 1) \in Tables(f, {})
          /\ CoveredBy(Areas, WithEdges(d, 0)) \cup Area(g(1)) \subseteq CoveredBy(Areas, WithEdges(d, 1))
      BY <1>3, <1>5, <2>2, <2>3, <2>4, <2>5, AddClear
    <2>7. WithEdges(d, 1) \in Seq(Entries)  BY <2>6, InTable
    <2>8. \E k \in 1 .. Len(WithEdges(d, 1)) : p \in Area(WithEdges(d, 1)[k])
      BY <1>9, <1>10, <2>6, <2>7
    <2>. QED  BY <1>9, <1>11, <2>6, <2>8 DEF f
  <1>12. CASE Len(Edges(d)) = 2
    <2>1. R = Area(g(1)) \cup Area(g(2)) /\ 2 \in 1 .. Len(Edges(d))
      <3>1. \A k : k \in 1 .. Len(Edges(d)) <=> k = 1 \/ k = 2  BY <1>12
      <3>. QED  BY <3>1
    <2>. HIDE DEF R
    <2>2. WithEdges(d, 0) \in Tables(f, Area(g(2)))  BY <1>2, <2>1, LessClear
    <2>3. g(1) \in Clear(f, Area(g(2)))  BY <1>1, <1>7, <1>8, <1>12 DEF Clear
    <2>4. \A k \in 1 .. Len(WithEdges(d, 0)) : Area(WithEdges(d, 0)[k]) \cap Area(g(1)) = {}
      BY <1>2, <2>1, InTable DEF Clear
    <2>5. ~ListFull(WithEdges(d, 0)) /\ ~ListFull(WithEdges(d, 1))
      <3>1. 1 - 1 = 0 /\ 2 - 1 = 1  OBVIOUS
      <3>. QED  BY <1>4, <1>8, <2>1, <3>1
    <2>6. /\ WithEdges(d, 1) \in Tables(f, Area(g(2)))
          /\ CoveredBy(Areas, WithEdges(d, 0)) \cup Area(g(1)) \subseteq CoveredBy(Areas, WithEdges(d, 1))
      BY <1>3, <1>5, <2>2, <2>3, <2>4, <2>5, AddClear
    <2>7. WithEdges(d, 1) \in Tables(f, {})  BY <2>6, LessClear
    <2>8. g(2) \in Clear(f, {})  BY <1>7, <2>1 DEF Clear
    <2>9. \A k \in 1 .. Len(WithEdges(d, 1)) : Area(WithEdges(d, 1)[k]) \cap Area(g(2)) = {}
      BY <2>6, InTable DEF Clear
    <2>10. /\ WithEdges(d, 2) \in Tables(f, {})
           /\ CoveredBy(Areas, WithEdges(d, 1)) \cup Area(g(2)) \subseteq CoveredBy(Areas, WithEdges(d, 2))
      BY <1>3, <1>5, <2>5, <2>7, <2>8, <2>9, AddClear
    <2>11. WithEdges(d, 2) \in Seq(Entries)  BY <2>10, InTable
    <2>12. p \in CoveredBy(Areas, WithEdges(d, 2))  BY <1>9, <2>6, <2>10
    <2>13. \E k \in 1 .. Len(WithEdges(d, 2)) : p \in Area(WithEdges(d, 2)[k])
      BY <1>10, <2>11, <2>12
    <2>. QED  BY <1>9, <1>12, <2>10, <2>13 DEF f
  <1>. QED  BY <1>1, <1>11, <1>12

-----------------------------------------------------------------------------
\* What fix_work_list does with one entry.

FixRecords == [list : Seq(Entries), at : Nat, blanked : SUBSET Screen]

\* The columns first to last of an entry.
LEMMA ColumnsOf ==
    ASSUME NEW e \in Entries, NEW a \in Int, NEW b \in Int
    PROVE  /\ Columns(e, a, b) \in Entries /\ Columns(e, a, b).symmetry = e.symmetry
           /\ Columns(e, a, b).start.x = a /\ Columns(e, a, b).start.y = e.start.y
           /\ Columns(e, a, b).stop.x = b /\ Columns(e, a, b).stop.y = e.stop.y
  <1>1. /\ e.start \in Points /\ e.stop \in Points  BY DEF Entries
  <1>2. /\ [e.start EXCEPT !.x = a] \in Points /\ [e.stop EXCEPT !.x = b] \in Points
        /\ [e.start EXCEPT !.x = a].x = a /\ [e.start EXCEPT !.x = a].y = e.start.y
        /\ [e.stop EXCEPT !.x = b].x = b /\ [e.stop EXCEPT !.x = b].y = e.stop.y
    BY <1>1 DEF Points
  <1>. DEFINE s == [e.start EXCEPT !.x = a]
              t == [e.stop EXCEPT !.x = b]
  <1>3. Columns(e, a, b) = [e EXCEPT !.start = s, !.stop = t]  BY DEF Columns, Entries
  <1>4. s \in Points /\ t \in Points  BY <1>2
  <1>. HIDE DEF s, t
  <1>5. /\ [e EXCEPT !.start = s, !.stop = t] \in Entries
        /\ [e EXCEPT !.start = s, !.stop = t].start = s
        /\ [e EXCEPT !.start = s, !.stop = t].stop = t
        /\ [e EXCEPT !.start = s, !.stop = t].symmetry = e.symmetry
    BY <1>4 DEF Entries
  <1>. QED  BY <1>2, <1>3, <1>5 DEF s, t

\* An entry takes another one's place.
LEMMA PutAt ==
    ASSUME NEW st \in FixRecords, st.at \in 1 .. Len(st.list), NEW m \in Entries
    PROVE  /\ Put(st, m) \in FixRecords /\ Put(st, m).at = st.at /\ Put(st, m).blanked = st.blanked
           /\ Len(Put(st, m).list) = Len(st.list) /\ Put(st, m).list[st.at] = m
           /\ \A k \in 1 .. Len(st.list) : k # st.at => Put(st, m).list[k] = st.list[k]
  <1>. DEFINE l == [st.list EXCEPT ![st.at] = m]
  <1>1. /\ l \in Seq(Entries) /\ Len(l) = Len(st.list) /\ l[st.at] = m
        /\ \A k \in 1 .. Len(st.list) : k # st.at => l[k] = st.list[k]
    BY DEF FixRecords
  <1>2. Put(st, m) = [st EXCEPT !.list = l]  BY DEF Put, FixRecords
  <1>. HIDE DEF l
  <1>3. /\ [st EXCEPT !.list = l] \in FixRecords /\ [st EXCEPT !.list = l].list = l
        /\ [st EXCEPT !.list = l].at = st.at /\ [st EXCEPT !.list = l].blanked = st.blanked
    BY <1>1 DEF FixRecords
  <1>. QED  BY <1>1, <1>2, <1>3

\* A copy of it goes to the end.
LEMMA SplitOffAt ==
    ASSUME NEW st \in FixRecords, st.at \in 1 .. Len(st.list), NEW a \in Int, NEW b \in Int
    PROVE  LET u == SplitOff(st, a, b)
           IN  /\ u \in FixRecords /\ u.at = st.at /\ u.blanked = st.blanked
               /\ Len(u.list) = Len(st.list) + 1
               /\ u.list[Len(st.list) + 1] = Columns(st.list[st.at], a, b)
               /\ \A k \in 1 .. Len(st.list) : u.list[k] = st.list[k]
  <1>. DEFINE c == Columns(st.list[st.at], a, b)
              l == Append(st.list, c)
  <1>1. st.list \in Seq(Entries) /\ st.list[st.at] \in Entries  BY DEF FixRecords
  <1>2. c \in Entries  BY <1>1, ColumnsOf
  <1>3. SplitOff(st, a, b) = [st EXCEPT !.list = l]  BY DEF SplitOff, FixRecords
  <1>. HIDE DEF c
  <1>4. /\ l \in Seq(Entries) /\ Len(l) = Len(st.list) + 1 /\ l[Len(st.list) + 1] = c
        /\ \A k \in 1 .. Len(st.list) : l[k] = st.list[k]
    BY <1>1, <1>2
  <1>. HIDE DEF l
  <1>5. /\ [st EXCEPT !.list = l] \in FixRecords /\ [st EXCEPT !.list = l].list = l
        /\ [st EXCEPT !.list = l].at = st.at /\ [st EXCEPT !.list = l].blanked = st.blanked
    BY <1>4 DEF FixRecords
  <1>. QED  BY <1>3, <1>4, <1>5 DEF c

\* It starts over where it is.
LEMMA RestartAt ==
    ASSUME NEW st \in FixRecords, st.at \in 1 .. Len(st.list)
    PROVE  LET u == RestartWindow(st)
           IN  /\ u \in FixRecords /\ u.at = st.at /\ Len(u.list) = Len(st.list)
               /\ u.list[st.at].start = st.list[st.at].start
               /\ u.list[st.at].stop = st.list[st.at].stop
               /\ \A k \in 1 .. Len(st.list) : k # st.at => u.list[k] = st.list[k]
  <1>. DEFINE e == st.list[st.at]
              m == Entry(e.start, e.stop, e.start, 0, Undecided)
              b == st.blanked \cup (Rectangle(e) \cap Screen)
  <1>1. e \in Entries /\ st.blanked \in SUBSET Screen  BY DEF FixRecords
  <1>2. m \in Entries /\ m.start = e.start /\ m.stop = e.stop
    BY <1>1 DEF Entry, Entries, Undecided, Decision
  <1>. HIDE DEF m
  <1>3. /\ Put(st, m) \in FixRecords /\ Put(st, m).at = st.at /\ Put(st, m).blanked = st.blanked
        /\ Len(Put(st, m).list) = Len(st.list) /\ Put(st, m).list[st.at] = m
        /\ \A k \in 1 .. Len(st.list) : k # st.at => Put(st, m).list[k] = st.list[k]
    BY <1>2, PutAt
  <1>4. RestartWindow(st) = [Put(st, m) EXCEPT !.blanked = b]
    <2>1. RestartWindow(st) = [Put(st, m) EXCEPT !.blanked = @ \cup (Rectangle(e) \cap Screen)]
      BY DEF RestartWindow, m
    <2>. DEFINE v == Put(st, m)
    <2>2. [v EXCEPT !.blanked = @ \cup (Rectangle(e) \cap Screen)]
             = [v EXCEPT !.blanked = v.blanked \cup (Rectangle(e) \cap Screen)]
      <3>. HIDE DEF v
      <3>. QED  OBVIOUS
    <2>. QED  BY <1>3, <2>1, <2>2
  <1>5. b \in SUBSET Screen  BY <1>1
  <1>. DEFINE v == Put(st, m)
              u == [v EXCEPT !.blanked = b]
  <1>6. v \in FixRecords  BY <1>3
  <1>. HIDE DEF b, v
  <1>7. u \in FixRecords /\ u.at = v.at /\ u.list = v.list  BY <1>5, <1>6 DEF FixRecords
  <1>. QED  BY <1>2, <1>3, <1>4, <1>7 DEF v

\* The part of the entry that is on the screen is kept, in one piece or two.
Clipped(st, u) ==
    LET e == st.list[st.at]
        m == u.list[st.at]
        c == u.list[Len(u.list)]
    IN  /\ u \in FixRecords /\ u.at = st.at
        /\ \A k \in 1 .. Len(st.list) : k # st.at => u.list[k] = st.list[k]
        /\ Within(WholeScreen, m)
        /\ \/ Len(u.list) = Len(st.list) /\ Area(m) = Area(e) \cap Screen
           \/ /\ Len(u.list) = Len(st.list) + 1 /\ Len(st.list) < MaxCalcWork
              /\ Within(WholeScreen, c) /\ Area(m) \cap Area(c) = {}
              /\ Area(m) \cup Area(c) = Area(e) \cap Screen

\* An entry of the frame whose first row and one column at least are on the screen.
OnTheScreen(f, e) == /\ e \in Entries /\ IsFrame(e) /\ Within(f, e)
                     /\ e.start.x \in Int /\ e.start.y \in Int /\ e.stop.x \in Int /\ e.stop.y \in Int
                     /\ 0 <= e.start.y /\ e.start.y <= e.stop.y /\ e.stop.y <= YDots - 1
                     /\ e.start.x <= e.stop.x /\ e.start.x < XDots /\ 0 <= e.stop.x
                     /\ e.start.x < 0 => e.stop.x <= XDots - 1

LEMMA NotOffscreen ==
    ASSUME NEW f, OneSided(f), NEW e \in Entries, Within(f, e), ~Offscreen(e)
    PROVE  OnTheScreen(f, e)
  <1>1. /\ f.start.x \in Int /\ f.start.y \in Int /\ f.stop.x \in Int /\ f.stop.y \in Int
        /\ e.start.x \in Int /\ e.start.y \in Int /\ e.stop.x \in Int /\ e.stop.y \in Int /\ IsFrame(e)
    BY EntryFrame, FrameNumbers DEF OneSided
  <1>. QED  BY <1>1, Sizes DEF OneSided, Within, Offscreen, OnTheScreen

\* Columns of such an entry.
LEMMA ColumnsOnScreen ==
    ASSUME NEW f, NEW e, OnTheScreen(f, e), NEW m, IsFrame(m),
           m.start.y = e.start.y, m.stop.y = e.stop.y,
           0 <= m.start.x, e.start.x <= m.start.x, m.start.x <= m.stop.x,
           m.stop.x <= e.stop.x, m.stop.x <= XDots - 1
    PROVE  /\ Within(WholeScreen, m)
           /\ \A p : p \in Area(m) <=> /\ p \in Area(e) \cap Screen
                                       /\ m.start.x <= p.x /\ p.x <= m.stop.x
  <1>1. /\ m.start.x \in Int /\ m.start.y \in Int /\ m.stop.x \in Int /\ m.stop.y \in Int
    BY FrameNumbers
  <1>2. Within(WholeScreen, m)  BY <1>1, ScreenFrame, Sizes DEF OnTheScreen, Within
  <1>3. \A p : p \in Area(m) <=> /\ p \in Area(e) \cap Screen
                                 /\ m.start.x <= p.x /\ p.x <= m.stop.x
    BY <1>1, InArea, OnScreen, Sizes DEF OnTheScreen
  <1>. QED  BY <1>2, <1>3

\* The rest of the list is as it was.
SameRest(st, u) == /\ u \in FixRecords /\ u.at = st.at
                   /\ \A k \in 1 .. Len(st.list) : k # st.at => u.list[k] = st.list[k]

\* m has rows of e, and the columns a to b.
HasColumns(e, m, a, b) == /\ m.start.y = e.start.y /\ m.stop.y = e.stop.y
                          /\ m.start.x = a /\ m.stop.x = b

FirstColumn(e) == IF e.start.x < 0 THEN 0 ELSE e.start.x
LastColumn(e)  == IF e.stop.x >= XDots THEN XDots - 1 ELSE e.stop.x

LEMMA ScreenColumns ==
    ASSUME NEW f, NEW e, OnTheScreen(f, e)
    PROVE  /\ FirstColumn(e) \in Int /\ LastColumn(e) \in Int
           /\ 0 <= FirstColumn(e) /\ e.start.x <= FirstColumn(e) /\ FirstColumn(e) <= LastColumn(e)
           /\ LastColumn(e) <= e.stop.x /\ LastColumn(e) <= XDots - 1
           /\ \A x \in Int : 0 <= x /\ e.start.x <= x /\ x <= e.stop.x /\ x <= XDots - 1
                                => FirstColumn(e) <= x /\ x <= LastColumn(e)
  BY Sizes DEF OnTheScreen, FirstColumn, LastColumn

LEMMA OnePiece ==
    ASSUME NEW f, NEW st \in FixRecords, st.at \in 1 .. Len(st.list), NEW u, SameRest(st, u),
           OnTheScreen(f, st.list[st.at]), Len(u.list) = Len(st.list),
           HasColumns(st.list[st.at], u.list[st.at],
                      FirstColumn(st.list[st.at]), LastColumn(st.list[st.at]))
    PROVE  Clipped(st, u)
  <1>. DEFINE e == st.list[st.at]
              m == u.list[st.at]
  <1>1. m \in Entries  BY DEF SameRest, FixRecords
  <1>2. /\ OnTheScreen(f, e) /\ HasColumns(e, m, FirstColumn(e), LastColumn(e))  OBVIOUS
  <1>. HIDE DEF e, m
  <1>3. /\ 0 <= m.start.x /\ e.start.x <= m.start.x /\ m.start.x <= m.stop.x
        /\ m.stop.x <= e.stop.x /\ m.stop.x <= XDots - 1
        /\ m.start.y = e.start.y /\ m.stop.y = e.stop.y /\ IsFrame(m)
        /\ \A x \in Int : 0 <= x /\ e.start.x <= x /\ x <= e.stop.x /\ x <= XDots - 1
                             => m.start.x <= x /\ x <= m.stop.x
    BY <1>1, <1>2, EntryFrame, Sizes DEF OnTheScreen, HasColumns, FirstColumn, LastColumn
  <1>4. /\ Within(WholeScreen, m)
        /\ \A p : p \in Area(m) <=> /\ p \in Area(e) \cap Screen
                                    /\ m.start.x <= p.x /\ p.x <= m.stop.x
    BY <1>2, <1>3, ColumnsOnScreen
  <1>5. ASSUME NEW p \in Area(e) \cap Screen  PROVE p \in Area(m)
    <2>1. /\ p.x \in Int /\ 0 <= p.x /\ p.x <= XDots - 1  BY OnScreen
    <2>2. e.start.x <= p.x /\ p.x <= e.stop.x  BY <1>2, InArea DEF OnTheScreen
    <2>. QED  BY <1>3, <1>4, <2>1, <2>2
  <1>6. Area(m) = Area(e) \cap Screen  BY <1>4, <1>5
  <1>. QED  BY <1>4, <1>6 DEF SameRest, Clipped, e, m

LEMMA TwoPieces ==
    ASSUME NEW f, NEW st \in FixRecords, st.at \in 1 .. Len(st.list), NEW u, SameRest(st, u),
           OnTheScreen(f, st.list[st.at]), Len(u.list) = Len(st.list) + 1, Len(st.list) < MaxCalcWork,
           NEW a \in Int, NEW b \in Int, NEW g \in Int, NEW h \in Int, a <= b, g <= h,
           HasColumns(st.list[st.at], u.list[st.at], a, b),
           HasColumns(st.list[st.at], u.list[Len(u.list)], g, h),
           \/ b + 1 = g /\ a = FirstColumn(st.list[st.at]) /\ h = LastColumn(st.list[st.at])
           \/ h + 1 = a /\ g = FirstColumn(st.list[st.at]) /\ b = LastColumn(st.list[st.at])
    PROVE  Clipped(st, u)
  <1>. DEFINE e == st.list[st.at]
              m == u.list[st.at]
              c == u.list[Len(u.list)]
  <1>1. m \in Entries /\ c \in Entries  BY DEF SameRest, FixRecords
  <1>2. /\ OnTheScreen(f, e) /\ HasColumns(e, m, a, b) /\ HasColumns(e, c, g, h)
        /\ \/ b + 1 = g /\ a = FirstColumn(e) /\ h = LastColumn(e)
           \/ h + 1 = a /\ g = FirstColumn(e) /\ b = LastColumn(e)
    OBVIOUS
  <1>. HIDE DEF e, m, c
  <1>3. /\ 0 <= a /\ e.start.x <= a /\ b <= e.stop.x /\ b <= XDots - 1
        /\ 0 <= g /\ e.start.x <= g /\ h <= e.stop.x /\ h <= XDots - 1
        /\ \A x \in Int : 0 <= x /\ e.start.x <= x /\ x <= e.stop.x /\ x <= XDots - 1
                             => (a <= x /\ x <= b) \/ (g <= x /\ x <= h)
        /\ \A x \in Int : ~((a <= x /\ x <= b) /\ (g <= x /\ x <= h))
    <2>. DEFINE first == FirstColumn(e)
                last == LastColumn(e)
    <2>1. /\ first \in Int /\ last \in Int /\ 0 <= first /\ e.start.x <= first /\ first <= last
          /\ last <= e.stop.x /\ last <= XDots - 1
          /\ \A x \in Int : 0 <= x /\ e.start.x <= x /\ x <= e.stop.x /\ x <= XDots - 1
                               => first <= x /\ x <= last
      BY <1>2, ScreenColumns
    <2>2. e.start.x \in Int /\ e.stop.x \in Int /\ XDots - 1 \in Int
      BY <1>2, Sizes DEF OnTheScreen
    <2>3. (b + 1 = g /\ a = first /\ h = last) \/ (h + 1 = a /\ g = first /\ b = last)
      BY <1>2
    <2>. HIDE DEF first, last
    <2>4. first <= a /\ b <= last /\ first <= g /\ h <= last  BY <2>1, <2>3
    <2>5. \A x \in Int : first <= x /\ x <= last => (a <= x /\ x <= b) \/ (g <= x /\ x <= h)
      BY <2>1, <2>3
    <2>6. \A x \in Int : ~((a <= x /\ x <= b) /\ (g <= x /\ x <= h))  BY <2>3
    <2>7. 0 <= a /\ e.start.x <= a /\ b <= e.stop.x /\ b <= XDots - 1
      BY <2>1, <2>2, <2>4
    <2>8. 0 <= g /\ e.start.x <= g /\ h <= e.stop.x /\ h <= XDots - 1
      BY <2>1, <2>2, <2>4
    <2>9. \A x \in Int : 0 <= x /\ e.start.x <= x /\ x <= e.stop.x /\ x <= XDots - 1
                            => (a <= x /\ x <= b) \/ (g <= x /\ x <= h)
      BY <2>1, <2>5
    <2>. QED  BY <2>6, <2>7, <2>8, <2>9
  <1>4. /\ m.start.x = a /\ m.stop.x = b /\ m.start.y = e.start.y /\ m.stop.y = e.stop.y
        /\ c.start.x = g /\ c.stop.x = h /\ c.start.y = e.start.y /\ c.stop.y = e.stop.y
        /\ IsFrame(m) /\ IsFrame(c)
    BY <1>1, <1>2, EntryFrame DEF HasColumns
  <1>5. /\ Within(WholeScreen, m)
        /\ \A p : p \in Area(m) <=> p \in Area(e) \cap Screen /\ a <= p.x /\ p.x <= b
    BY <1>2, <1>3, <1>4, ColumnsOnScreen
  <1>6. /\ Within(WholeScreen, c)
        /\ \A p : p \in Area(c) <=> p \in Area(e) \cap Screen /\ g <= p.x /\ p.x <= h
    BY <1>2, <1>3, <1>4, ColumnsOnScreen
  <1>7. ASSUME NEW p \in Area(e) \cap Screen
        PROVE  /\ p \in Area(m) \/ p \in Area(c)
               /\ ~(p \in Area(m) /\ p \in Area(c))
    <2>1. /\ p.x \in Int /\ 0 <= p.x /\ p.x <= XDots - 1  BY OnScreen
    <2>2. e.start.x <= p.x /\ p.x <= e.stop.x  BY <1>2, InArea DEF OnTheScreen
    <2>. QED  BY <1>3, <1>5, <1>6, <2>1, <2>2
  <1>8. Area(m) \cup Area(c) = Area(e) \cap Screen /\ Area(m) \cap Area(c) = {}
    BY <1>5, <1>6, <1>7
  <1>. QED  BY <1>5, <1>6, <1>8 DEF SameRest, Clipped, e, m, c

\* Partly off the left edge.
LEMMA LeftEdge ==
    ASSUME NEW f, NEW st \in FixRecords, st.at \in 1 .. Len(st.list), Len(st.list) <= MaxCalcWork,
           OnTheScreen(f, st.list[st.at]), st.list[st.at].start.x < 0
    PROVE  Clipped(st, FixLeftEdge(st))
  <1>. DEFINE e == st.list[st.at]
              j == e.stop.x + e.start.x
              whole == Put(st, Columns(e, 0, e.stop.x))
              split == SplitOff(st, 0, j)
              halves == Put(split, Columns(e, j + 1, e.stop.x))
  <1>1. /\ e \in Entries /\ e.start.x \in Int /\ e.stop.x \in Int /\ e.start.x < 0
        /\ 0 <= e.stop.x /\ e.stop.x <= XDots - 1 /\ Len(st.list) \in Nat
    BY DEF OnTheScreen, FixRecords
  <1>2. FirstColumn(e) = 0 /\ LastColumn(e) = e.stop.x  BY <1>1, Sizes DEF FirstColumn, LastColumn
  <1>3. /\ Columns(e, 0, e.stop.x) \in Entries
        /\ HasColumns(e, Columns(e, 0, e.stop.x), 0, e.stop.x)
    BY <1>1, ColumnsOf DEF HasColumns
  <1>4. /\ SameRest(st, whole) /\ Len(whole.list) = Len(st.list)
        /\ HasColumns(e, whole.list[st.at], 0, e.stop.x)
    BY <1>3, PutAt DEF SameRest
  <1>5. CASE e.symmetry.x # "yes"
    <2>1. FixLeftEdge(st) = whole  BY <1>1, <1>5 DEF FixLeftEdge
    <2>. HIDE DEF whole
    <2>. QED  BY <1>2, <1>4, <2>1, OnePiece
  <1>6. CASE e.symmetry.x = "yes" /\ ~(j > 0 /\ RoomToCopy(st.list))
    <2>1. FixLeftEdge(st) = RestartWindow(whole)  BY <1>1, <1>6 DEF FixLeftEdge
    <2>2. whole \in FixRecords /\ whole.at = st.at /\ whole.at \in 1 .. Len(whole.list)
      BY <1>4 DEF SameRest
    <2>. HIDE DEF whole
    <2>. DEFINE u == RestartWindow(whole)
    <2>3. /\ u \in FixRecords /\ u.at = whole.at /\ Len(u.list) = Len(whole.list)
          /\ u.list[whole.at].start = whole.list[whole.at].start
          /\ u.list[whole.at].stop = whole.list[whole.at].stop
          /\ \A k \in 1 .. Len(whole.list) : k # whole.at => u.list[k] = whole.list[k]
      BY <2>2, RestartAt
    <2>. HIDE DEF u
    <2>4. SameRest(st, u)  BY <1>4, <2>2, <2>3 DEF SameRest
    <2>5. HasColumns(e, u.list[st.at], 0, e.stop.x)  BY <1>4, <2>2, <2>3 DEF HasColumns
    <2>6. Clipped(st, u)  BY <1>2, <1>4, <2>3, <2>4, <2>5, OnePiece
    <2>. QED  BY <2>1, <2>6 DEF u
  <1>7. CASE e.symmetry.x = "yes" /\ j > 0 /\ RoomToCopy(st.list)
    <2>1. FixLeftEdge(st) = RestartWindow(halves)  BY <1>1, <1>7 DEF FixLeftEdge
    <2>2. j \in Int /\ 0 <= j /\ j + 1 \in Int /\ j + 1 <= e.stop.x  BY <1>1, <1>7
    <2>3. Len(st.list) < MaxCalcWork  BY <1>1, <1>7, Sizes DEF RoomToCopy, ListFull
    <2>. HIDE DEF j
    <2>4. /\ Columns(e, j + 1, e.stop.x) \in Entries
          /\ HasColumns(e, Columns(e, j + 1, e.stop.x), j + 1, e.stop.x)
          /\ HasColumns(e, Columns(e, 0, j), 0, j)
      BY <1>1, <2>2, ColumnsOf DEF HasColumns
    <2>5. /\ split \in FixRecords /\ split.at = st.at /\ Len(split.list) = Len(st.list) + 1
          /\ split.list[Len(st.list) + 1] = Columns(e, 0, j)
          /\ \A k \in 1 .. Len(st.list) : split.list[k] = st.list[k]
      BY <2>2, SplitOffAt
    <2>6. split.at \in 1 .. Len(split.list)  BY <1>1, <2>5
    <2>. HIDE DEF split
    <2>7. /\ halves \in FixRecords /\ halves.at = split.at /\ Len(halves.list) = Len(split.list)
          /\ halves.list[split.at] = Columns(e, j + 1, e.stop.x)
          /\ \A k \in 1 .. Len(split.list) : k # split.at => halves.list[k] = split.list[k]
      BY <2>4, <2>5, <2>6, PutAt
    <2>8. halves.at \in 1 .. Len(halves.list)  BY <2>6, <2>7
    <2>. HIDE DEF halves
    <2>. DEFINE u == RestartWindow(halves)
    <2>9. /\ u \in FixRecords /\ u.at = halves.at /\ Len(u.list) = Len(halves.list)
          /\ u.list[halves.at].start = halves.list[halves.at].start
          /\ u.list[halves.at].stop = halves.list[halves.at].stop
          /\ \A k \in 1 .. Len(halves.list) : k # halves.at => u.list[k] = halves.list[k]
      BY <2>7, <2>8, RestartAt
    <2>. HIDE DEF u
    <2>10. /\ \A k \in 1 .. Len(st.list) : k \in 1 .. Len(split.list)
           /\ Len(split.list) \in 1 .. Len(split.list) /\ Len(split.list) # st.at
      BY <1>1, <2>5
    <2>11. SameRest(st, u)  BY <2>5, <2>7, <2>9, <2>10 DEF SameRest
    <2>12. HasColumns(e, u.list[st.at], j + 1, e.stop.x)
      BY <2>4, <2>5, <2>7, <2>9 DEF HasColumns
    <2>13. u.list[Len(u.list)] = Columns(e, 0, j) /\ Len(u.list) = Len(st.list) + 1
      BY <2>5, <2>7, <2>9, <2>10
    <2>14. HasColumns(e, u.list[Len(u.list)], 0, j)  BY <2>4, <2>13
    <2>15. Clipped(st, u)
      <3>. DEFINE a == j + 1
                  b == e.stop.x
      <3>1. /\ a \in Int /\ b \in Int /\ a <= b /\ 0 \in Int /\ j \in Int /\ 0 <= j /\ j + 1 = a
            /\ HasColumns(e, u.list[st.at], a, b) /\ 0 = FirstColumn(e) /\ b = LastColumn(e)
        BY <1>1, <1>2, <2>2, <2>12
      <3>. HIDE DEF a, b
      <3>. QED  BY <1>1, <2>3, <2>11, <2>13, <2>14, <3>1, TwoPieces
    <2>. QED  BY <2>1, <2>15 DEF u
  <1>. QED  BY <1>5, <1>6, <1>7

\* An entry that is no longer symmetric is where it was.
LEMMA NoLongerWhere ==
    ASSUME NEW e \in Entries
    PROVE  /\ NoLongerSymmetric(e) \in Entries /\ NoLongerSymmetric(e).start = e.start
           /\ NoLongerSymmetric(e).stop = e.stop
  <1>. DEFINE s == [e.symmetry EXCEPT !.x = "no"]
  <1>1. s \in [x : Decision, y : Decision]  BY DEF Entries, Decision
  <1>2. [e EXCEPT !.symmetry.x = "no"] = [e EXCEPT !.symmetry = s]  BY DEF Entries
  <1>. HIDE DEF s
  <1>3. /\ [e EXCEPT !.symmetry = s] \in Entries /\ [e EXCEPT !.symmetry = s].start = e.start
        /\ [e EXCEPT !.symmetry = s].stop = e.stop
    BY <1>1 DEF Entries
  <1>. QED  BY <1>2, <1>3 DEF NoLongerSymmetric

\* Partly off the right edge, or not at all.
LEMMA RightEdge ==
    ASSUME NEW f, NEW st \in FixRecords, st.at \in 1 .. Len(st.list), Len(st.list) <= MaxCalcWork,
           OnTheScreen(f, st.list[st.at]), st.list[st.at].start.x >= 0
    PROVE  Clipped(st, FixRightEdge(st))
  <1>. DEFINE e == st.list[st.at]
              last == XDots - 1
              i == e.start.x + (e.stop.x - last)
              splits == e.symmetry.x = "yes" /\ i < last
              room == RoomToCopy(st.list)
              split == SplitOff(st, i, last)
              Narrowed(next, stop) ==
                  Put(next, NoLongerSymmetric(Columns(next.list[st.at], e.start.x, stop)))
  <1>1. /\ e \in Entries /\ e.start.x \in Int /\ e.stop.x \in Int /\ 0 <= e.start.x
        /\ e.start.x <= e.stop.x /\ e.start.x < XDots /\ Len(st.list) \in Nat /\ XDots \in Int
        /\ OnTheScreen(f, e)
    BY Sizes DEF OnTheScreen, FixRecords
  <1>2. CASE e.stop.x < XDots
    <2>1. FixRightEdge(st) = st  BY <1>2 DEF FixRightEdge
    <2>2. SameRest(st, st)  BY DEF SameRest
    <2>3. HasColumns(e, e, FirstColumn(e), LastColumn(e))
      BY <1>1, <1>2 DEF HasColumns, FirstColumn, LastColumn
    <2>. QED  BY <2>1, <2>2, <2>3, OnePiece
  <1>3. CASE e.stop.x >= XDots
    <2>1. FirstColumn(e) = e.start.x /\ LastColumn(e) = last
      BY <1>1, <1>3 DEF FirstColumn, LastColumn
    <2>2. last \in Int /\ i \in Int /\ e.start.x + 1 <= i /\ e.start.x <= last  BY <1>1, <1>3
    \* The entry is narrowed in a list that is the same but for a copy.
    <2>3. ASSUME NEW next \in FixRecords, next.at = st.at, NEW stop \in Int,
                 Len(next.list) >= Len(st.list),
                 \A k \in 1 .. Len(st.list) : k # st.at => next.list[k] = st.list[k],
                 next.list[st.at].start = e.start, next.list[st.at].stop = e.stop
          PROVE  /\ SameRest(st, Narrowed(next, stop))
                 /\ Len(Narrowed(next, stop).list) = Len(next.list)
                 /\ HasColumns(e, Narrowed(next, stop).list[st.at], e.start.x, stop)
                 /\ Len(next.list) > Len(st.list) =>
                       Narrowed(next, stop).list[Len(next.list)] = next.list[Len(next.list)]
      <3>1. st.at \in 1 .. Len(next.list) /\ Len(next.list) \in Nat  BY <1>1, <2>3 DEF FixRecords
      <3>2. next.list[st.at] \in Entries  BY <3>1 DEF FixRecords
      <3>. DEFINE n == next.list[st.at]
                  c == Columns(n, e.start.x, stop)
                  m == NoLongerSymmetric(c)
      <3>3. n \in Entries /\ n.start = e.start /\ n.stop = e.stop  BY <2>3, <3>2
      <3>. HIDE DEF n, e
      <3>4. c \in Entries /\ HasColumns(e, c, e.start.x, stop)
        BY <1>1, <2>3, <3>3, ColumnsOf DEF HasColumns
      <3>. HIDE DEF c
      <3>5. m \in Entries /\ HasColumns(e, m, e.start.x, stop)
        BY <3>4, NoLongerWhere DEF HasColumns
      <3>6. Narrowed(next, stop) = Put(next, m)  BY DEF m, c, n
      <3>. HIDE DEF m, Narrowed
      <3>. DEFINE u == Put(next, m)
      <3>7. /\ u \in FixRecords /\ u.at = st.at /\ Len(u.list) = Len(next.list)
            /\ u.list[st.at] = m
            /\ \A k \in 1 .. Len(next.list) : k # st.at => u.list[k] = next.list[k]
        BY <2>3, <3>1, <3>5, PutAt
      <3>. HIDE DEF u
      <3>8. SameRest(st, u)  BY <1>1, <2>3, <3>1, <3>7 DEF SameRest
      <3>9. Len(next.list) > Len(st.list) => u.list[Len(next.list)] = next.list[Len(next.list)]
        BY <1>1, <3>1, <3>7
      <3>. QED  BY <3>5, <3>6, <3>7, <3>8, <3>9 DEF u
    <2>4. FixRightEdge(st) = Narrowed(IF splits /\ room THEN split
                                      ELSE IF splits THEN RestartWindow(st) ELSE st,
                                      IF splits /\ room THEN i - 1 ELSE last)
      BY <1>1, <1>3 DEF FixRightEdge
    <2>. HIDE DEF Narrowed, i, last
    <2>5. CASE splits /\ room
      <3>1. FixRightEdge(st) = Narrowed(split, i - 1)  BY <2>4, <2>5
      <3>2. Len(st.list) < MaxCalcWork  BY <1>1, <2>5, Sizes DEF RoomToCopy, ListFull
      <3>3. /\ split \in FixRecords /\ split.at = st.at /\ Len(split.list) = Len(st.list) + 1
            /\ split.list[Len(st.list) + 1] = Columns(e, i, last)
            /\ \A k \in 1 .. Len(st.list) : split.list[k] = st.list[k]
        BY <2>2, SplitOffAt
      <3>4. HasColumns(e, Columns(e, i, last), i, last)  BY <1>1, <2>2, ColumnsOf DEF HasColumns
      <3>5. i - 1 \in Int /\ e.start.x <= i - 1 /\ i <= last /\ i - 1 + 1 = i  BY <1>1, <2>2, <2>5
      <3>6. Len(split.list) >= Len(st.list) /\ Len(split.list) > Len(st.list)  BY <1>1, <3>3
      <3>. HIDE DEF split
      <3>. DEFINE u == Narrowed(split, i - 1)
      <3>7. /\ SameRest(st, u) /\ Len(u.list) = Len(split.list)
            /\ HasColumns(e, u.list[st.at], e.start.x, i - 1)
            /\ u.list[Len(split.list)] = split.list[Len(split.list)]
        BY <2>3, <3>3, <3>5, <3>6
      <3>. HIDE DEF u
      <3>8. HasColumns(e, u.list[Len(u.list)], i, last) /\ Len(u.list) = Len(st.list) + 1
        BY <3>3, <3>4, <3>7
      <3>9. Clipped(st, u)
        <4>. DEFINE a == e.start.x
                    b == i - 1
        <4>1. a \in Int /\ b \in Int /\ a <= b /\ b + 1 = i  BY <1>1, <3>5
        <4>2. HasColumns(e, u.list[st.at], a, b) /\ FirstColumn(e) = a  BY <2>1, <3>7
        <4>. HIDE DEF a, b
        <4>. QED  BY <2>1, <2>2, <3>2, <3>5, <3>7, <3>8, <4>1, <4>2, TwoPieces
      <3>. QED  BY <3>1, <3>9 DEF u
    <2>6. CASE splits /\ ~room
      <3>1. FixRightEdge(st) = Narrowed(RestartWindow(st), last)  BY <2>4, <2>6
      <3>. DEFINE r == RestartWindow(st)
                  u == Narrowed(r, last)
      <3>2. /\ r \in FixRecords /\ r.at = st.at /\ Len(r.list) = Len(st.list)
            /\ r.list[st.at].start = e.start /\ r.list[st.at].stop = e.stop
            /\ \A k \in 1 .. Len(st.list) : k # st.at => r.list[k] = st.list[k]
        BY RestartAt
      <3>. HIDE DEF r
      <3>3. Len(r.list) >= Len(st.list)  BY <1>1, <3>2
      <3>4. /\ SameRest(st, u) /\ Len(u.list) = Len(st.list)
            /\ HasColumns(e, u.list[st.at], e.start.x, last)
        BY <2>2, <2>3, <3>2, <3>3
      <3>. HIDE DEF u
      <3>5. Clipped(st, u)  BY <2>1, <3>4, OnePiece
      <3>. QED  BY <3>1, <3>5 DEF u, r
    <2>7. CASE ~splits
      <3>1. FixRightEdge(st) = Narrowed(st, last)  BY <2>4, <2>7
      <3>. DEFINE u == Narrowed(st, last)
      <3>2. Len(st.list) >= Len(st.list)  BY <1>1
      <3>3. /\ SameRest(st, u) /\ Len(u.list) = Len(st.list)
            /\ HasColumns(e, u.list[st.at], e.start.x, last)
        BY <2>2, <2>3, <3>2
      <3>. HIDE DEF u
      <3>4. Clipped(st, u)  BY <2>1, <3>3, OnePiece
      <3>. QED  BY <3>1, <3>4 DEF u
    <2>. QED  BY <2>5, <2>6, <2>7
  <1>. QED  BY <1>1, <1>2, <1>3

\* The entry begins in itself.
LEMMA BeginFixed ==
    ASSUME NEW st \in FixRecords, st.at \in 1 .. Len(st.list), Within(WholeScreen, st.list[st.at])
    PROVE  LET u == FixBegin(st)
           IN  /\ SameRest(st, u) /\ Len(u.list) = Len(st.list)
               /\ u.list[st.at] \in Framed(WholeScreen)
               /\ Area(u.list[st.at]) = Area(st.list[st.at])
  <1>. DEFINE e == st.list[st.at]
              b == BeginWithin(e)
              m == [e EXCEPT !.begin = b]
  <1>1. /\ e \in Entries /\ Within(WholeScreen, e) /\ e.begin \in Points
    <2>1. st.list \in Seq(Entries)  BY DEF FixRecords
    <2>2. e \in Entries  BY <2>1
    <2>. QED  BY <2>2, EntryFrame
  <1>2. FixBegin(st) = Put(st, m)  BY DEF FixBegin
  <1>. HIDE DEF e, b
  <1>3. /\ e.start.x \in Int /\ e.start.y \in Int /\ e.stop.x \in Int /\ e.stop.y \in Int
        /\ e.begin.x \in Int /\ e.start.x <= e.stop.x /\ e.start.y <= e.stop.y /\ IsFrame(e)
    BY <1>1, EntryFrame, FrameNumbers DEF Within, Points
  <1>4. \E x \in Int : b = Pt(x, e.start.y) /\ e.start.x <= x /\ x <= e.stop.x
    <2>. DEFINE x == CASE e.begin.x < e.start.x -> e.start.x
                       [] e.begin.x > e.stop.x  -> e.stop.x
                       [] OTHER                 -> e.begin.x
    <2>1. x \in Int /\ e.start.x <= x /\ x <= e.stop.x
      <3>1. CASE e.begin.x < e.start.x
        <4>1. ~(e.begin.x > e.stop.x)  BY <1>3, <3>1
        <4>2. x = e.start.x  BY <3>1, <4>1
        <4>. HIDE DEF x
        <4>. QED  BY <1>3, <4>2
      <3>2. CASE e.begin.x > e.stop.x
        <4>1. ~(e.begin.x < e.start.x)  BY <1>3, <3>2
        <4>2. x = e.stop.x  BY <3>2, <4>1
        <4>. HIDE DEF x
        <4>. QED  BY <1>3, <4>2
      <3>3. CASE ~(e.begin.x < e.start.x) /\ ~(e.begin.x > e.stop.x)
        <4>1. x = e.begin.x  BY <3>3
        <4>. HIDE DEF x
        <4>. QED  BY <1>3, <3>3, <4>1
      <3>. HIDE DEF x
      <3>. QED  BY <3>1, <3>2, <3>3
    <2>2. b = Pt(x, e.start.y)  BY DEF b, BeginWithin
    <2>. HIDE DEF x
    <2>. QED  BY <2>1, <2>2
  <1>5. b \in Points /\ b \in Area(e)
    <2>1. PICK x \in Int : b = Pt(x, e.start.y) /\ e.start.x <= x /\ x <= e.stop.x  BY <1>4
    <2>2. b \in Points /\ b.x = x /\ b.y = e.start.y  BY <1>3, <2>1, PointOf
    <2>. QED  BY <1>3, <2>1, <2>2, InArea
  <1>6. m \in Entries /\ m.start = e.start /\ m.stop = e.stop /\ m.begin = b
    BY <1>1, <1>5 DEF Entries
  <1>. HIDE DEF m
  <1>7. Area(m) = Area(e) /\ Within(WholeScreen, m)  BY <1>1, <1>6 DEF Area, Within
  <1>8. m \in Framed(WholeScreen)  BY <1>5, <1>6, <1>7 DEF Framed
  <1>. DEFINE u == Put(st, m)
  <1>9. /\ u \in FixRecords /\ u.at = st.at /\ Len(u.list) = Len(st.list) /\ u.list[st.at] = m
        /\ \A k \in 1 .. Len(st.list) : k # st.at => u.list[k] = st.list[k]
    BY <1>6, PutAt
  <1>. HIDE DEF u
  <1>10. SameRest(st, u)  BY <1>9 DEF SameRest
  <1>. QED  BY <1>2, <1>7, <1>8, <1>9, <1>10 DEF e, u

-----------------------------------------------------------------------------
\* The turns of fix_work_list.  Before the position the entries are windows of the
\* screen; from it on they are where the shift left them.  Pixel p, of an edge, stays
\* covered.
FixStates(f, p) ==
    {st \in FixRecords :
        /\ Len(st.list) <= MaxCalcWork /\ st.at \in 1 .. Len(st.list) + 1
        /\ \A k \in 1 .. Len(st.list) :
              IF k < st.at THEN st.list[k] \in Framed(WholeScreen) ELSE Within(f, st.list[k])
        /\ \A i, j \in 1 .. Len(st.list) : i # j => Area(st.list[i]) \cap Area(st.list[j]) = {}
        /\ \E k \in 1 .. Len(st.list) : p \in Area(st.list[k])}

\* Every turn fixes or deletes an entry: it counts 2 or 1, less the copy that is added.
Progress(st) == 2 * (st.at - 1) + MaxCalcWork - Len(st.list)

\* An entry off the screen is deleted.
LEMMA DeleteTurn ==
    ASSUME NEW f, OneSided(f), NEW p \in Screen, NEW st \in FixStates(f, p),
           st.at <= Len(st.list), Offscreen(st.list[st.at])
    PROVE  DeleteEntry(st) \in FixStates(f, p) /\ Progress(DeleteEntry(st)) = Progress(st) + 1
  <1>. DEFINE l == st.list
              i == st.at
              t == Delete(l, i)
              u == [st EXCEPT !.list = t]
              Was(k) == IF k < i THEN k ELSE k + 1
  <1>1. /\ st \in FixRecords /\ l \in Seq(Entries) /\ i \in 1 .. Len(l) /\ Len(l) \in Nat
        /\ Len(l) <= MaxCalcWork
        /\ \A k \in 1 .. Len(l) : IF k < i THEN l[k] \in Framed(WholeScreen) ELSE Within(f, l[k])
        /\ \A j, k \in 1 .. Len(l) : j # k => Area(l[j]) \cap Area(l[k]) = {}
        /\ \E k \in 1 .. Len(l) : p \in Area(l[k])
    <2>1. /\ st \in FixRecords /\ Len(l) <= MaxCalcWork /\ i \in 1 .. Len(l) + 1
          /\ \A k \in 1 .. Len(l) : IF k < i THEN l[k] \in Framed(WholeScreen) ELSE Within(f, l[k])
          /\ \A j, k \in 1 .. Len(l) : j # k => Area(l[j]) \cap Area(l[k]) = {}
          /\ \E k \in 1 .. Len(l) : p \in Area(l[k])
      BY DEF FixStates
    <2>2. l \in Seq(Entries)  BY <2>1 DEF FixRecords
    <2>3. Len(l) \in Nat  BY <2>2
    <2>4. i \in 1 .. Len(l)  BY <2>1, <2>3
    <2>. QED  BY <2>1, <2>2, <2>3, <2>4
  <1>2. DeleteEntry(st) = u  BY DEF DeleteEntry
  <1>. HIDE DEF l, i
  <1>3. /\ t \in Seq(Entries) /\ Len(t) = Len(l) - 1
        /\ \A k \in 1 .. Len(t) : t[k] = l[Was(k)]
    BY <1>1, Deleted
  <1>. HIDE DEF t
  <1>4. u \in FixRecords /\ u.list = t /\ u.at = i  BY <1>1, <1>3 DEF FixRecords, i
  <1>5. /\ \A k \in 1 .. Len(t) : Was(k) \in 1 .. Len(l) /\ (k < i <=> Was(k) < i)
        /\ \A j, k \in 1 .. Len(t) : j # k => Was(j) # Was(k)
    BY <1>1, <1>3
  <1>6. \A k \in 1 .. Len(l) : k # i => \E j \in 1 .. Len(t) : Was(j) = k
    <2>. TAKE k \in 1 .. Len(l)
    <2>. HAVE k # i
    <2>1. CASE k < i
      <3>1. k \in 1 .. Len(t) /\ Was(k) = k  BY <1>1, <1>3, <2>1
      <3>. QED  BY <3>1
    <2>2. CASE k > i
      <3>1. k - 1 \in 1 .. Len(t) /\ Was(k - 1) = k  BY <1>1, <1>3, <2>2
      <3>. QED  BY <3>1
    <2>. HIDE DEF Was
    <2>. QED  BY <1>1, <2>1, <2>2
  <1>. HIDE DEF Was
  <1>7. p \notin Area(l[i])
    <2>1. IsFrame(l[i]) /\ Within(f, l[i])
      <3>1. l[i] \in Entries /\ ~(i < i)  BY <1>1
      <3>. QED  BY <1>1, <3>1, EntryFrame
    <2>2. p.x \in Int /\ p.y \in Int /\ 0 <= p.x /\ p.x <= XDots - 1 /\ 0 <= p.y /\ p.y <= YDots - 1
      BY OnScreen
    <2>. DEFINE e == l[i]
    <2>3. Offscreen(e)  BY DEF l, i
    <2>. HIDE DEF e
    <2>4. IsFrame(e) /\ Within(f, e)  BY <2>1 DEF e
    <2>5. /\ e.start.x \in Int /\ e.start.y \in Int /\ e.stop.x \in Int /\ e.stop.y \in Int
          /\ f.start.x \in Int /\ f.start.y \in Int
      BY <2>4, FrameNumbers DEF OneSided
    <2>6. 0 <= e.start.y  BY <2>4, <2>5 DEF OneSided, Within
    <2>7. p \notin Area(e)  BY <2>2, <2>3, <2>4, <2>5, <2>6, InArea, Sizes DEF Offscreen
    <2>. QED  BY <2>7 DEF e
  <1>8. \E k \in 1 .. Len(t) : p \in Area(t[k])
    <2>1. PICK k \in 1 .. Len(l) : p \in Area(l[k])  BY <1>1
    <2>2. k # i  BY <1>7, <2>1
    <2>3. PICK j \in 1 .. Len(t) : Was(j) = k  BY <1>6, <2>2
    <2>. QED  BY <1>3, <2>1, <2>3
  <1>9. \A k \in 1 .. Len(t) : IF k < i THEN t[k] \in Framed(WholeScreen) ELSE Within(f, t[k])
    BY <1>1, <1>3, <1>5
  <1>10. ASSUME NEW j \in 1 .. Len(t), NEW k \in 1 .. Len(t), j # k
         PROVE  Area(t[j]) \cap Area(t[k]) = {}
    <2>1. /\ Was(j) \in 1 .. Len(l) /\ Was(k) \in 1 .. Len(l) /\ Was(j) # Was(k)
          /\ t[j] = l[Was(j)] /\ t[k] = l[Was(k)]
      BY <1>3, <1>5, <1>10
    <2>. QED  BY <1>1, <2>1
  <1>11. Len(t) <= MaxCalcWork /\ i \in 1 .. Len(t) + 1  BY <1>1, <1>3, Sizes
  <1>. HIDE DEF u
  <1>12. u \in FixStates(f, p)  BY <1>4, <1>8, <1>9, <1>10, <1>11 DEF FixStates
  <1>13. Progress(u) = Progress(st) + 1
    <2>1. Progress(u) = 2 * (i - 1) + MaxCalcWork - Len(t)  BY <1>4 DEF Progress
    <2>2. Progress(st) = 2 * (i - 1) + MaxCalcWork - Len(l)  BY DEF Progress, l, i
    <2>. QED  BY <1>1, <1>3, <2>1, <2>2, Sizes
  <1>. QED  BY <1>2, <1>12, <1>13

\* An entry that is partly on the screen is fixed.
LEMMA FixTurn ==
    ASSUME NEW f, OneSided(f), NEW p \in Screen, NEW st \in FixStates(f, p),
           st.at <= Len(st.list), ~Offscreen(st.list[st.at]),
           NEW u, u = [FixBegin(FixRightEdge(FixLeftEdge(st))) EXCEPT !.at = @ + 1]
    PROVE  u \in FixStates(f, p) /\ Progress(u) >= Progress(st) + 1
  <1>. DEFINE l == st.list
              i == st.at
              e == l[i]
              v == FixRightEdge(FixLeftEdge(st))
              w == FixBegin(v)
  <1>1. /\ st \in FixRecords /\ l \in Seq(Entries) /\ i \in 1 .. Len(l) /\ Len(l) \in Nat
        /\ Len(l) <= MaxCalcWork
        /\ \A k \in 1 .. Len(l) : IF k < i THEN l[k] \in Framed(WholeScreen) ELSE Within(f, l[k])
        /\ \A j, k \in 1 .. Len(l) : j # k => Area(l[j]) \cap Area(l[k]) = {}
        /\ \E k \in 1 .. Len(l) : p \in Area(l[k])
    <2>1. /\ st \in FixRecords /\ Len(l) <= MaxCalcWork /\ i \in 1 .. Len(l) + 1
          /\ \A k \in 1 .. Len(l) : IF k < i THEN l[k] \in Framed(WholeScreen) ELSE Within(f, l[k])
          /\ \A j, k \in 1 .. Len(l) : j # k => Area(l[j]) \cap Area(l[k]) = {}
          /\ \E k \in 1 .. Len(l) : p \in Area(l[k])
      BY DEF FixStates
    <2>2. l \in Seq(Entries)  BY <2>1 DEF FixRecords
    <2>3. Len(l) \in Nat  BY <2>2
    <2>4. i \in 1 .. Len(l)  BY <2>1, <2>3
    <2>. QED  BY <2>1, <2>2, <2>3, <2>4
  <1>2. e \in Entries /\ OnTheScreen(f, e)
    <2>1. e \in Entries /\ ~(i < i)  BY <1>1
    <2>2. Within(f, e) /\ ~Offscreen(e)  BY <1>1, <2>1
    <2>. HIDE DEF e
    <2>. QED  BY <2>1, <2>2, NotOffscreen
  <1>3. Clipped(st, v)
    <2>1. CASE e.start.x < 0
      <3>. DEFINE t == FixLeftEdge(st)
      <3>1. Clipped(st, t)  BY <1>1, <1>2, <2>1, LeftEdge
      <3>2. FixRightEdge(t) = t
        <4>1. t.at = i /\ Within(WholeScreen, t.list[i]) /\ t.list[i] \in Entries
          <5>1. /\ t \in FixRecords /\ t.at = i /\ Within(WholeScreen, t.list[i])
                /\ Len(t.list) = Len(l) \/ Len(t.list) = Len(l) + 1
            BY <3>1 DEF Clipped
          <5>2. i \in 1 .. Len(t.list) /\ t.list \in Seq(Entries)  BY <1>1, <5>1 DEF FixRecords
          <5>. QED  BY <5>1, <5>2
        <4>2. t.list[i].stop.x \in Int /\ t.list[i].stop.x <= XDots - 1
          BY <4>1, EntryFrame, FrameNumbers, ScreenFrame DEF Within
        <4>3. t.list[t.at].stop.x < XDots  BY <4>1, <4>2, Sizes
        <4>. QED  BY <4>3 DEF FixRightEdge
      <3>. QED  BY <3>1, <3>2
    <2>2. CASE ~(e.start.x < 0)
      <3>1. e.start.x >= 0  BY <1>2, <2>2 DEF OnTheScreen
      <3>2. FixLeftEdge(st) = st  BY <2>2, <3>1 DEF FixLeftEdge
      <3>3. Clipped(st, FixRightEdge(st))  BY <1>1, <1>2, <3>1, RightEdge
      <3>. QED  BY <3>2, <3>3
    <2>. QED  BY <2>1, <2>2
  <1>. HIDE DEF v
  <1>4. /\ v \in FixRecords /\ v.at = i /\ Within(WholeScreen, v.list[i])
        /\ \A k \in 1 .. Len(l) : k # i => v.list[k] = l[k]
        /\ \/ Len(v.list) = Len(l) /\ Area(v.list[i]) = Area(e) \cap Screen
           \/ /\ Len(v.list) = Len(l) + 1 /\ Len(l) < MaxCalcWork
              /\ Within(WholeScreen, v.list[Len(v.list)])
              /\ Area(v.list[i]) \cap Area(v.list[Len(v.list)]) = {}
              /\ Area(v.list[i]) \cup Area(v.list[Len(v.list)]) = Area(e) \cap Screen
    BY <1>3 DEF Clipped
  <1>5. v.at \in 1 .. Len(v.list) /\ Len(v.list) \in Nat /\ v.list \in Seq(Entries)
    BY <1>1, <1>4 DEF FixRecords
  <1>6. /\ SameRest(v, w) /\ Len(w.list) = Len(v.list)
        /\ w.list[v.at] \in Framed(WholeScreen)
        /\ Area(w.list[v.at]) = Area(v.list[v.at])
    BY <1>4, <1>5, BeginFixed
  <1>. HIDE DEF w
  <1>7. w \in FixRecords /\ w.at = i  BY <1>4, <1>6 DEF SameRest
  <1>8. u = [w EXCEPT !.at = i + 1]  BY <1>7 DEF w, v
  <1>. DEFINE m == w.list
              n == Len(l)
              c == m[Len(m)]
  <1>9. u \in FixRecords /\ u.list = m /\ u.at = i + 1
    <2>1. i + 1 \in Nat  BY <1>1
    <2>. QED  BY <1>7, <1>8, <2>1 DEF FixRecords
  <1>. HIDE DEF l, i, e, m
  <1>10. m \in Seq(Entries) /\ Len(m) \in Nat  BY <1>5, <1>6, <1>7 DEF FixRecords, m
  \* The list is as it was, but for the entry and the copy.
  <1>11. /\ m[i] \in Framed(WholeScreen) /\ Area(m[i]) = Area(v.list[i])
         /\ \A k \in 1 .. n : k # i => m[k] = l[k]
         /\ Len(m) = n + 1 => c = v.list[n + 1]
         /\ Len(m) = Len(v.list)
    <2>1. \A k \in 1 .. Len(v.list) : k # i => m[k] = v.list[k]
      BY <1>4, <1>6 DEF SameRest, m
    <2>2. m[i] \in Framed(WholeScreen) /\ Area(m[i]) = Area(v.list[i]) /\ Len(m) = Len(v.list)
      BY <1>4, <1>6 DEF m
    <2>3. \A k \in 1 .. n : k \in 1 .. Len(v.list)  BY <1>1, <1>4, <1>5
    <2>4. ASSUME Len(m) = n + 1  PROVE c = v.list[n + 1]
      <3>1. n + 1 \in 1 .. Len(v.list) /\ n + 1 # i  BY <1>1, <2>2, <2>4
      <3>. QED  BY <2>1, <2>4, <3>1
    <2>. QED  BY <1>4, <2>1, <2>2, <2>3, <2>4
  <1>12. \/ Len(m) = n /\ Area(m[i]) = Area(e) \cap Screen
         \/ /\ Len(m) = n + 1 /\ n < MaxCalcWork /\ Within(WholeScreen, c)
            /\ Area(m[i]) \cap Area(c) = {}
            /\ Area(m[i]) \cup Area(c) = Area(e) \cap Screen
    BY <1>4, <1>11
  <1>13. ASSUME NEW k \in 1 .. Len(m)
         PROVE  \/ k \in 1 .. n
                \/ k = n + 1 /\ k # i /\ Len(m) = n + 1 /\ m[k] = c
    BY <1>1, <1>10, <1>12
  <1>14. ASSUME NEW k \in 1 .. Len(m)
         PROVE  IF k < i + 1 THEN m[k] \in Framed(WholeScreen) ELSE Within(f, m[k])
    <2>1. CASE k = i
      <3>1. k < i + 1  BY <1>1, <2>1
      <3>. QED  BY <1>11, <2>1, <3>1
    <2>2. CASE k \in 1 .. n /\ k # i
      <3>1. m[k] = l[k] /\ (k < i + 1 <=> k < i)  BY <1>1, <1>11, <2>2
      <3>. QED  BY <1>1, <2>2, <3>1
    <2>3. CASE ~(k \in 1 .. n)
      <3>1. k = n + 1 /\ Len(m) = n + 1 /\ m[k] = c  BY <1>13, <2>3
      <3>2. Within(WholeScreen, c) /\ c \in Entries
        <4>1. Len(m) # n  BY <1>1, <3>1
        <4>2. Len(m) \in 1 .. Len(m)  BY <1>1, <1>10, <3>1
        <4>. QED  BY <1>10, <1>12, <4>1, <4>2
      <3>3. Within(f, m[k])  BY <3>1, <3>2, EntryFrame, ScreenInFrame
      <3>4. ~(k < i + 1)  BY <1>1, <3>1
      <3>. QED  BY <3>3, <3>4
    <2>. QED  BY <2>1, <2>2, <2>3
  \* What is not the entry or the copy is apart from both.
  <1>15. ASSUME NEW k \in 1 .. n, k # i
         PROVE  /\ Area(m[k]) \cap Area(m[i]) = {}
                /\ Len(m) = n + 1 => Area(m[k]) \cap Area(c) = {}
    <2>1. Area(l[k]) \cap Area(e) = {}  BY <1>1, <1>15 DEF e
    <2>2. m[k] = l[k]  BY <1>11, <1>15
    <2>3. Len(m) = n + 1 => Len(m) # n  BY <1>1
    <2>4. Area(m[i]) \subseteq Area(e)  BY <1>12
    <2>5. Len(m) = n + 1 => Area(c) \subseteq Area(e)  BY <1>12, <2>3
    <2>. QED  BY <2>1, <2>2, <2>4, <2>5
  <1>16. ASSUME NEW j \in 1 .. Len(m), NEW k \in 1 .. Len(m), j # k
         PROVE  Area(m[j]) \cap Area(m[k]) = {}
    <2>1. Len(m) = n + 1 => Area(m[i]) \cap Area(c) = {}
      <3>1. Len(m) = n + 1 => Len(m) # n  BY <1>1
      <3>. QED  BY <1>12, <3>1
    <2>2. CASE j \in 1 .. n /\ k \in 1 .. n
      <3>1. CASE j = i  BY <1>15, <1>16, <2>2, <3>1
      <3>2. CASE k = i  BY <1>15, <1>16, <2>2, <3>2
      <3>3. CASE j # i /\ k # i
        <4>1. m[j] = l[j] /\ m[k] = l[k]  BY <1>11, <2>2, <3>3
        <4>. QED  BY <1>1, <1>16, <2>2, <4>1
      <3>. QED  BY <3>1, <3>2, <3>3
    <2>3. CASE j \notin 1 .. n
      <3>1. j = n + 1 /\ Len(m) = n + 1 /\ m[j] = c  BY <1>13, <2>3
      <3>2. k \in 1 .. n  BY <1>13, <1>16, <3>1
      <3>3. CASE k = i  BY <2>1, <3>1, <3>3
      <3>4. CASE k # i  BY <1>15, <3>1, <3>2, <3>4
      <3>. QED  BY <3>3, <3>4
    <2>4. CASE k \notin 1 .. n
      <3>1. k = n + 1 /\ Len(m) = n + 1 /\ m[k] = c  BY <1>13, <2>4
      <3>2. j \in 1 .. n  BY <1>13, <1>16, <3>1
      <3>3. CASE j = i  BY <2>1, <3>1, <3>3
      <3>4. CASE j # i  BY <1>15, <3>1, <3>2, <3>4
      <3>. QED  BY <3>3, <3>4
    <2>. QED  BY <2>2, <2>3, <2>4
  <1>17. \E k \in 1 .. Len(m) : p \in Area(m[k])
    <2>1. PICK k \in 1 .. n : p \in Area(l[k])  BY <1>1
    <2>2. \A j \in 1 .. n : j \in 1 .. Len(m)  BY <1>1, <1>10, <1>12
    <2>3. CASE k # i
      <3>1. m[k] = l[k] /\ k \in 1 .. Len(m)  BY <1>11, <2>2, <2>3
      <3>. QED  BY <2>1, <3>1
    <2>4. CASE k = i
      <3>1. p \in Area(e) \cap Screen  BY <2>1, <2>4 DEF e
      <3>2. CASE p \in Area(m[i])  BY <1>1, <2>2, <3>2
      <3>3. CASE p \notin Area(m[i])
        <4>1. Len(m) = n + 1 /\ p \in Area(c)  BY <1>12, <3>1, <3>3
        <4>2. Len(m) \in 1 .. Len(m)  BY <1>1, <1>10, <4>1
        <4>. QED  BY <4>1, <4>2
      <3>. QED  BY <3>2, <3>3
    <2>. QED  BY <2>3, <2>4
  <1>18. Len(m) <= MaxCalcWork /\ i + 1 \in 1 .. Len(m) + 1
    BY <1>1, <1>10, <1>12, Sizes
  <1>19. ASSUME NEW z \in FixRecords, z.list = m, z.at = i + 1
         PROVE  z \in FixStates(f, p) /\ Progress(z) >= Progress(st) + 1
    <2>1. /\ Len(z.list) <= MaxCalcWork /\ z.at \in 1 .. Len(z.list) + 1
          /\ \A k \in 1 .. Len(z.list) :
                IF k < z.at THEN z.list[k] \in Framed(WholeScreen) ELSE Within(f, z.list[k])
          /\ \A j, k \in 1 .. Len(z.list) : j # k => Area(z.list[j]) \cap Area(z.list[k]) = {}
          /\ \E k \in 1 .. Len(z.list) : p \in Area(z.list[k])
      BY <1>14, <1>16, <1>17, <1>18, <1>19
    <2>2. z \in FixStates(f, p)  BY <2>1 DEF FixStates
    <2>3. Progress(z) = 2 * (i + 1 - 1) + MaxCalcWork - Len(m)
      <3>1. Progress(z) = 2 * (z.at - 1) + MaxCalcWork - Len(z.list)  BY DEF Progress
      <3>2. i \in Nat /\ Len(m) \in Nat /\ MaxCalcWork \in Nat  BY <1>1, <1>10, Sizes
      <3>. QED  BY <1>19, <3>1, <3>2
    <2>4. Progress(st) = 2 * (i - 1) + MaxCalcWork - n  BY DEF Progress, l, i
    <2>5. Len(m) = n \/ Len(m) = n + 1  BY <1>12
    <2>6. Progress(z) >= Progress(st) + 1  BY <1>1, <2>3, <2>4, <2>5, Sizes
    <2>. QED  BY <2>2, <2>6
  <1>. QED  BY <1>9, <1>19

\* All the turns leave windows of the screen that share no pixel.
LEMMA FixedApart ==
    ASSUME NEW f, OneSided(f), NEW list \in Tables(f, {}),
           NEW p \in Screen, \E k \in 1 .. Len(list) : p \in Area(list[k])
    PROVE  /\ FixWorkList(list).list \in Tables(WholeScreen, {}) /\ FixWorkList(list).list # <<>>
           /\ FixWorkList(list).blanked \subseteq Screen
  <1>. DEFINE N == 3 * MaxCalcWork
              c == [list |-> list, at |-> 1, blanked |-> {}]
              S1 == FixStates(f, p)
              turn == [q \in S1 \X Nat |-> FixEntry(q[1])]
              IsLoop(g) == g = [n \in 0 .. N |-> IF n = 0 THEN c ELSE FixEntry(g[n - 1])]
              after == CHOOSE g : IsLoop(g)
              Far(st, n) == st.at > Len(st.list) \/ n <= Progress(st)
              P == {n \in 0 .. N : after[n] \in S1 /\ Far(after[n], n)}
  <1>1. N \in Nat /\ MaxCalcWork \in Nat \ {0}  BY Sizes
  <1>2. /\ list \in Seq(Entries) /\ Len(list) \in Nat /\ Len(list) <= MaxCalcWork
        /\ \A k \in 1 .. Len(list) : Within(f, list[k])
        /\ \A i, j \in 1 .. Len(list) : i # j => Area(list[i]) \cap Area(list[j]) = {}
    <2>1. /\ list \in Seq(Entries) /\ Len(list) <= MaxCalcWork
          /\ \A k \in 1 .. Len(list) : list[k] \in Clear(f, {})
          /\ \A i, j \in 1 .. Len(list) : i # j => Area(list[i]) \cap Area(list[j]) = {}
      BY InTable
    <2>2. Len(list) \in Nat  BY <2>1
    <2>3. \A k \in 1 .. Len(list) : Within(f, list[k])  BY <2>1 DEF Clear, Framed
    <2>. QED  BY <2>1, <2>2, <2>3
  <1>3. c \in S1 /\ Far(c, 0)
    <2>1. c \in FixRecords  BY <1>2 DEF FixRecords
    <2>2. c.list = list /\ c.at = 1  OBVIOUS
    <2>. HIDE DEF c
    <2>3. 1 \in 1 .. Len(list) + 1 /\ \A k \in 1 .. Len(list) : ~(k < 1)  BY <1>2
    <2>4. c \in S1
      <3>1. /\ Len(c.list) <= MaxCalcWork /\ c.at \in 1 .. Len(c.list) + 1
            /\ \A k \in 1 .. Len(c.list) :
                  IF k < c.at THEN c.list[k] \in Framed(WholeScreen) ELSE Within(f, c.list[k])
            /\ \A i, j \in 1 .. Len(c.list) : i # j => Area(c.list[i]) \cap Area(c.list[j]) = {}
            /\ \E k \in 1 .. Len(c.list) : p \in Area(c.list[k])
        BY <1>2, <2>2, <2>3
      <3>. QED  BY <2>1, <3>1 DEF FixStates
    <2>5. 0 <= Progress(c)  BY <1>1, <1>2, <2>2 DEF Progress
    <2>. QED  BY <2>4, <2>5
  <1>4. ASSUME NEW st \in S1
        PROVE  /\ FixEntry(st) \in S1
               /\ \A n \in Nat : Far(st, n - 1) => Far(FixEntry(st), n)
               /\ Progress(st) \in Int
    <2>1. st.at \in Nat /\ st.list \in Seq(Entries)  BY DEF FixStates, FixRecords
    <2>2. Len(st.list) \in Nat  BY <2>1
    <2>3. Progress(st) \in Int  BY <1>1, <2>1, <2>2 DEF Progress
    <2>4. CASE st.at > Len(st.list)
      <3>1. FixEntry(st) = st  BY <2>1, <2>2, <2>4 DEF FixEntry
      <3>. QED  BY <2>3, <2>4, <3>1
    <2>5. CASE st.at <= Len(st.list) /\ Offscreen(st.list[st.at])
      <3>1. FixEntry(st) = DeleteEntry(st)  BY <2>1, <2>2, <2>5 DEF FixEntry
      <3>2. FixEntry(st) \in S1 /\ Progress(FixEntry(st)) = Progress(st) + 1
        BY <2>5, <3>1, DeleteTurn
      <3>3. ~(st.at > Len(st.list))  BY <2>1, <2>2, <2>5
      <3>. QED  BY <2>3, <3>2, <3>3
    <2>6. CASE st.at <= Len(st.list) /\ ~Offscreen(st.list[st.at])
      <3>. DEFINE u == [FixBegin(FixRightEdge(FixLeftEdge(st))) EXCEPT !.at = @ + 1]
      <3>1. FixEntry(st) = u  BY <2>1, <2>2, <2>6 DEF FixEntry
      <3>2. u \in S1 /\ Progress(u) >= Progress(st) + 1  BY <2>6, FixTurn
      <3>. HIDE DEF u
      <3>3. ~(st.at > Len(st.list))  BY <2>1, <2>2, <2>6
      <3>4. Progress(u) \in Int
        <4>1. u.at \in Nat /\ u.list \in Seq(Entries)  BY <3>2 DEF FixStates, FixRecords
        <4>2. Len(u.list) \in Nat  BY <4>1
        <4>. QED  BY <1>1, <4>1, <4>2 DEF Progress
      <3>. QED  BY <2>3, <3>1, <3>2, <3>3, <3>4
    <2>. QED  BY <2>1, <2>2, <2>4, <2>5, <2>6
  <1>. HIDE DEF Far, N, S1, c
  <1>5. turn \in [S1 \X Nat -> S1]  BY <1>4
  <1>6. \E g : IsLoop(g)
    <2>. HIDE DEF turn
    <2>0. PICK g : TurnsOf(g, S1, c, N, turn)  BY <1>1, <1>3, <1>5, LoopExists
    <2>. USE DEF turn
    <2>1. /\ g \in [0 .. N -> S1]
          /\ \A n \in 0 .. N : g[n] = IF n = 0 THEN c ELSE turn[<<g[n - 1], n>>]
      BY <2>0 DEF TurnsOf
    <2>2. ASSUME NEW n \in 0 .. N
          PROVE  g[n] = IF n = 0 THEN c ELSE FixEntry(g[n - 1])
      <3>1. CASE n = 0  BY <3>1, <2>1
      <3>2. CASE n # 0
        <4>1. n - 1 \in 0 .. N /\ n \in Nat  BY <1>1, <3>2
        <4>2. g[n - 1] \in S1  BY <2>1, <4>1
        <4>3. turn[<<g[n - 1], n>>] = FixEntry(g[n - 1])  BY <4>1, <4>2
        <4>. QED  BY <2>1, <4>3, <3>2
      <3>. QED  BY <3>1, <3>2
    <2>3. g = [n \in 0 .. N |-> g[n]]  BY <2>1
    <2>4. IsLoop(g)  BY <2>2, <2>3
    <2>. QED  BY <2>4
  <1>7. IsLoop(after)
    <2>. HIDE DEF IsLoop
    <2>. QED  BY <1>6
  <1>. HIDE DEF after
  <1>8. 0 \in P  BY <1>1, <1>3, <1>7
  <1>9. \A n \in 1 .. N : n - 1 \in P => n \in P
    <2>. TAKE n \in 1 .. N
    <2>1. n \in 0 .. N /\ n # 0 /\ n \in Nat  BY <1>1
    <2>2. after[n] = FixEntry(after[n - 1])  BY <1>7, <2>1
    <2>. QED  BY <1>4, <2>1, <2>2
  <1>10. N \in P
    <2>1. P \in SUBSET (0 .. N)  OBVIOUS
    <2>. HIDE DEF P
    <2>2. \A n \in 0 .. N : n \in P  BY <1>1, <1>8, <1>9, <2>1, Turns
    <2>. QED  BY <1>1, <2>2
  <1>. DEFINE st == after[N]
              l == st.list
  <1>11. FixWorkList(list) = [st EXCEPT !.list = TidyWorkList(@)]
    BY DEF FixWorkList, after, N, c
  <1>12. st \in S1 /\ Far(st, N)  BY <1>10
  <1>. HIDE DEF st
  <1>13. /\ st \in FixRecords /\ Len(l) <= MaxCalcWork /\ st.at \in 1 .. Len(l) + 1
         /\ \A k \in 1 .. Len(l) :
               IF k < st.at THEN l[k] \in Framed(WholeScreen) ELSE Within(f, l[k])
         /\ \A i, j \in 1 .. Len(l) : i # j => Area(l[i]) \cap Area(l[j]) = {}
         /\ \E k \in 1 .. Len(l) : p \in Area(l[k])
    BY <1>12 DEF S1, FixStates
  <1>14. l \in Seq(Entries) /\ Len(l) \in Nat /\ st.blanked \subseteq Screen
    <2>1. l \in Seq(Entries) /\ st.blanked \in SUBSET Screen  BY <1>13 DEF FixRecords
    <2>. QED  BY <2>1
  \* The turns are enough for every entry.
  <1>15. st.at > Len(l)
    <2>1. st.at > Len(l) \/ 3 * MaxCalcWork <= 2 * (st.at - 1) + MaxCalcWork - Len(l)
      BY <1>12 DEF Far, Progress, N
    <2>2. st.at \in Int /\ st.at <= Len(l) + 1  BY <1>13, <1>14
    <2>. QED  BY <1>1, <1>13, <1>14, <2>1, <2>2
  <1>16. \A k \in 1 .. Len(l) : l[k] \in Clear(WholeScreen, {})
    <2>1. \A k \in 1 .. Len(l) : k < st.at  BY <1>13, <1>14, <1>15
    <2>. QED  BY <1>13, <2>1 DEF Clear
  <1>17. l \in Tables(WholeScreen, {})  BY <1>13, <1>14, <1>16, InTable
  <1>18. /\ TidyWorkList(l) \in Tables(WholeScreen, {})
         /\ CoveredBy(Areas, l) \subseteq CoveredBy(Areas, TidyWorkList(l))
    BY <1>17, ScreenFrame, TidyClear
  <1>. DEFINE t == TidyWorkList(l)
  <1>19. t # <<>>
    <2>1. PICK k \in 1 .. Len(l) : p \in Area(l[k])  BY <1>13
    <2>2. l[k] \in Entries  BY <1>14
    <2>3. Areas[l[k]] = Area(l[k])  BY <2>2 DEF Areas
    <2>4. p \in CoveredBy(Areas, l)  BY <2>1, <2>3 DEF CoveredBy
    <2>5. p \in CoveredBy(Areas, t)  BY <1>18, <2>4
    <2>. HIDE DEF t
    <2>6. CASE t = <<>>
      <3>1. CoveredBy(Areas, t) = {}  BY <2>6 DEF CoveredBy
      <3>. QED  BY <2>5, <3>1
    <2>. QED  BY <2>6
  <1>. HIDE DEF t
  <1>20. [st EXCEPT !.list = t].list = t /\ [st EXCEPT !.list = t].blanked = st.blanked
    BY <1>13 DEF FixRecords
  <1>21. FixWorkList(list) = [st EXCEPT !.list = t]  BY <1>11 DEF t
  <1>. QED  BY <1>14, <1>18, <1>19, <1>20, <1>21 DEF t

-----------------------------------------------------------------------------
\* Panning.

LEMMA PanKeeps ==
    ASSUME Sideways, TypeOK, resume_data \in Tables(WholeScreen, {}),
           calc_status = "RESUMABLE" => resume_data # <<>>,
           NEW d \in CompletedPans \cup SuspendedPans, Pan(d)
    PROVE  /\ resume_data' \in Tables(WholeScreen, {})
           /\ calc_status' \in {"PARAMS_CHANGED", "RESUMABLE", "COMPLETED"}
           /\ calc_status' = "RESUMABLE" => resume_data' # <<>>
           /\ shown' \subseteq Screen /\ axis' \in Points
           /\ pans_left' \in 0 .. MaxPans /\ stops_left' = stops_left
  <1>1. /\ calc_status \in {"PARAMS_CHANGED", "RESUMABLE", "COMPLETED"}
        /\ axis \in Points /\ shown \subseteq Screen /\ pans_left \in 0 .. MaxPans
    BY DEF TypeOK
  <1>2. /\ calc_status = "COMPLETED" \/ (calc_status = "RESUMABLE" /\ d \in SuspendedPans)
        /\ pans_left > 0 /\ pans_left' = pans_left - 1
        /\ InitPanOrRecalc(d) /\ stops_left' = stops_left
    BY DEF Pan
  <1>3. calc_status = "RESUMABLE" => d.y = 0  BY <1>2 DEF Sideways
  <1>4. IsPan(d)  BY PansInRange
  <1>5. pans_left' \in 0 .. MaxPans  BY <1>1, <1>2, PanAssumption
  <1>6. Minus(axis, d) \in Points
    <2>1. axis.x \in Int /\ axis.y \in Int  BY <1>1 DEF Points
    <2>2. axis.x - d.x \in Int /\ axis.y - d.y \in Int  BY <1>4, <2>1 DEF IsPan
    <2>. QED  BY <2>2, PointOf DEF Minus
  <1>7. CASE Recalc /\ axis' = Minus(axis, d)
    BY <1>1, <1>2, <1>5, <1>6, <1>7 DEF Recalc
  <1>8. CASE UNCHANGED <<calc_status, resume_data, shown, axis>>
    BY <1>1, <1>2, <1>5, <1>8
  <1>9. CASE ~EdgeRefused(d) /\ PanBy(d) /\ axis' = Minus(axis, d)
    <2>. DEFINE l == WithEdges(d, Len(Edges(d)))
                fixed == FixWorkList(l)
    <2>1. /\ l \in Tables(Reach(d), {})
          /\ \E p \in Screen : \E k \in 1 .. Len(l) : p \in Area(l[k])
      BY <1>3, <1>4, <1>9, WithEdgesApart
    <2>2. /\ calc_status' = "RESUMABLE" /\ resume_data' = fixed.list
          /\ shown' = {p \in Screen : Plus(p, d) \in shown} \ fixed.blanked
      BY <1>9 DEF PanBy
    <2>. HIDE DEF l
    <2>3. /\ fixed.list \in Tables(WholeScreen, {}) /\ fixed.list # <<>>
      BY <1>4, <2>1, ReachOneSided, FixedApart
    <2>. HIDE DEF fixed
    <2>. QED  BY <1>2, <1>5, <1>6, <1>9, <2>2, <2>3
  <1>. QED  BY <1>2, <1>7, <1>8, <1>9 DEF InitPanOrRecalc

-----------------------------------------------------------------------------

LEMMA PanInit == Init => IInv
  <1>. SUFFICES ASSUME Init  PROVE IInv
    OBVIOUS
  <1>1. /\ calc_status = "PARAMS_CHANGED" /\ resume_data = <<>> /\ axis = HomeAxis /\ shown = {}
        /\ pans_left = MaxPans /\ stops_left = MaxStops
    BY DEF Init
  <1>2. HomeAxis \in Points /\ MaxPans \in Nat /\ MaxStops \in Nat  BY PanAssumption DEF Points
  <1>3. resume_data \in Seq(Entries) /\ Len(resume_data) = 0  BY <1>1
  <1>4. TypeOK  BY <1>1, <1>2, <1>3, Sizes DEF TypeOK
  <1>5. 1 .. Len(resume_data) = {}  BY <1>3
  <1>. QED  BY <1>1, <1>4, <1>5 DEF IInv, PanInv, EntriesOnScreen, EntriesApart

LEMMA PanNext == ASSUME Sideways  PROVE IInv /\ [Next]_vars => IInv'
  <1>. SUFFICES ASSUME IInv, [Next]_vars  PROVE IInv'
    OBVIOUS
  <1>1. /\ TypeOK /\ resume_data \in Tables(WholeScreen, {})
        /\ calc_status = "RESUMABLE" => resume_data # <<>>
    <2>1. TypeOK /\ EntriesOnScreen /\ EntriesApart /\ (calc_status = "RESUMABLE" => resume_data # <<>>)
      BY DEF IInv, PanInv
    <2>2. resume_data \in Seq(Entries) /\ Len(resume_data) <= MaxCalcWork  BY <2>1 DEF TypeOK
    <2>. QED  BY <2>1, <2>2, ScreenTable DEF EntriesOnScreen, EntriesApart
  <1>2. /\ axis \in Points /\ pans_left \in 0 .. MaxPans /\ stops_left \in 0 .. MaxStops
    BY <1>1 DEF TypeOK
  \* The invariant, put together again.
  <1>3. ASSUME resume_data' \in Tables(WholeScreen, {}),
               calc_status' \in {"PARAMS_CHANGED", "RESUMABLE", "COMPLETED"},
               calc_status' = "RESUMABLE" => resume_data' # <<>>,
               shown' \subseteq Screen, axis' \in Points,
               pans_left' \in 0 .. MaxPans, stops_left' \in 0 .. MaxStops
        PROVE  IInv'
    <2>1. /\ resume_data' \in Seq(Entries) /\ Len(resume_data') <= MaxCalcWork
          /\ \A k \in 1 .. Len(resume_data') :
                /\ resume_data'[k].start \in Screen /\ resume_data'[k].stop \in Screen
                /\ resume_data'[k].begin \in Rectangle(resume_data'[k])
          /\ \A i, j \in 1 .. Len(resume_data') :
                i # j => Rectangle(resume_data'[i]) \cap Rectangle(resume_data'[j]) = {}
      BY <1>3, ScreenTable
    <2>2. TypeOK'  BY <1>3, <2>1 DEF TypeOK
    <2>3. EntriesOnScreen' /\ EntriesApart'  BY <2>1 DEF EntriesOnScreen, EntriesApart
    <2>. QED  BY <1>3, <2>2, <2>3 DEF IInv, PanInv
  <1>4. CASE Calculate
    <2>1. /\ resume_data' \in Tables(WholeScreen, {})
          /\ calc_status' \in {"RESUMABLE", "COMPLETED"}
          /\ calc_status' = "RESUMABLE" => resume_data' # <<>>
          /\ shown' \subseteq Screen
          /\ axis' = axis /\ pans_left' = pans_left /\ stops_left' \in 0 .. MaxStops
      BY <1>1, <1>4, CalculateKeeps
    <2>. QED  BY <1>2, <1>3, <2>1
  <1>5. ASSUME NEW d \in CompletedPans \cup SuspendedPans, Pan(d)
        PROVE  IInv'
    <2>1. /\ resume_data' \in Tables(WholeScreen, {})
          /\ calc_status' \in {"PARAMS_CHANGED", "RESUMABLE", "COMPLETED"}
          /\ calc_status' = "RESUMABLE" => resume_data' # <<>>
          /\ shown' \subseteq Screen /\ axis' \in Points
          /\ pans_left' \in 0 .. MaxPans /\ stops_left' = stops_left
      BY <1>1, <1>5, PanKeeps
    <2>. QED  BY <1>2, <1>3, <2>1
  <1>6. CASE UNCHANGED vars
    <2>1. /\ calc_status' = calc_status /\ resume_data' = resume_data /\ axis' = axis
          /\ shown' = shown /\ pans_left' = pans_left /\ stops_left' = stops_left
      BY <1>6 DEF vars
    <2>2. shown \subseteq Screen /\ calc_status \in {"PARAMS_CHANGED", "RESUMABLE", "COMPLETED"}
      BY <1>1 DEF TypeOK
    <2>. QED  BY <1>1, <1>2, <1>3, <2>1, <2>2
  <1>. QED  BY <1>4, <1>5, <1>6 DEF Next, WaitForKey

\* However an image is interrupted, panned and resumed, its work list fits into the
\* table and can be resumed: the entries are windows of the screen that begin in
\* themselves, and no two share a pixel.
THEOREM PanListKept == ASSUME Sideways  PROVE Spec => []PanInv
  <1>1. Init => IInv  BY PanInit
  <1>2. IInv /\ [Next]_vars => IInv'  BY PanNext
  <1>3. IInv => PanInv  BY DEF IInv
  <1>. QED  BY <1>1, <1>2, <1>3, PTL DEF Spec

-----------------------------------------------------------------------------
\* What an entry still covers, pixel by pixel.  It is a window or an entry of an image
\* whose axes are ax.

TwoPasses == CalcMode = "TWO_PASS"

\* The axes that set_symmetry decides about, and where one of them is.
Axes == CASE Sym = "X_AXIS"  -> {"y"}
          [] Sym = "Y_AXIS"  -> {"x"}
          [] Sym = "XY_AXIS" -> {"x", "y"}
          [] OTHER           -> {}
Centre(ax, d) == 2 * ax[d] + (IF Between[d] THEN 1 ELSE 0)

\* A window called symmetric has its axis in the middle; one that is not decided has
\* not begun, and the two passes are numbered.
Middle(ax, e, d) == e.symmetry[d] = "yes" => d \in Axes /\ e.start[d] + e.stop[d] = Centre(ax, d)
Untouched(e) == e.begin.x <= e.start.x /\ e.begin.y <= e.start.y /\ (TwoPasses => e.pass = 0)
New(e, d) == d \in Axes /\ e.symmetry[d] = "new"
Fits(ax, e) == /\ Middle(ax, e, "x") /\ Middle(ax, e, "y")
               /\ New(e, "x") \/ New(e, "y") =>
                     Untouched(e) /\ \A d \in Axes : e.symmetry[d] = "new"
               /\ TwoPasses => e.pass \in {0, 1}
               /\ e.start.y <= e.begin.y

\* The coordinate d of the pixel that pixel q is a mirror image of, and that pixel.
Fold(e, d, c) == IF e.symmetry[d] = "yes" /\ 2 * c > e.start[d] + e.stop[d]
                 THEN e.start[d] + e.stop[d] - c ELSE c
Source(e, q) == Pt(Fold(e, "x", q.x), Fold(e, "y", q.y))

\* The pixels that the passes still to come give their colour, with their mirror images.
Odd(p) == ~(Even(p.x) /\ Even(p.y))
Ahead(e, p) == IF FirstPass(e) THEN AtOrAfter(p, e.begin) \/ Odd(p)
               ELSE AtOrAfter(p, e.begin) /\ (LastOfTwo(e) => Odd(p))
Open(e) == {q \in Area(e) : Ahead(e, Source(e, q))}
Opens == [e \in Entries |-> Open(e)]

\* The tables whose entries fit the image.
FitTables(f, R, ax) == {l \in Tables(f, R) : \A k \in 1 .. Len(l) : Fits(ax, l[k])}

LEMMA EntryNumbers ==
    ASSUME NEW e \in Entries
    PROVE  /\ e.start.x \in Int /\ e.start.y \in Int /\ e.stop.x \in Int /\ e.stop.y \in Int
           /\ e.begin.x \in Int /\ e.begin.y \in Int /\ e.pass \in Int
           /\ e.symmetry.x \in Decision /\ e.symmetry.y \in Decision
  BY DEF Entries, Points

\* A pixel of the window comes from one that is not above or left of it.
LEMMA SourceAfter ==
    ASSUME NEW e, IsFrame(e), NEW q \in Area(e), NEW p, p = Source(e, q)
    PROVE  /\ p \in Points /\ p.x \in Int /\ p.y \in Int
           /\ e.start.x <= p.x /\ p.x <= e.stop.x /\ e.start.y <= p.y /\ p.y <= e.stop.y
           /\ p.x = Fold(e, "x", q.x) /\ p.y = Fold(e, "y", q.y)
  <1>1. /\ q.x \in Int /\ q.y \in Int /\ e.start.x <= q.x /\ q.x <= e.stop.x
        /\ e.start.y <= q.y /\ q.y <= e.stop.y
    BY InArea
  <1>2. e.start.x \in Int /\ e.start.y \in Int /\ e.stop.x \in Int /\ e.stop.y \in Int
    BY FrameNumbers
  <1>3. /\ Fold(e, "x", q.x) \in Int
        /\ e.start.x <= Fold(e, "x", q.x) /\ Fold(e, "x", q.x) <= e.stop.x
    BY <1>1, <1>2 DEF Fold
  <1>4. /\ Fold(e, "y", q.y) \in Int
        /\ e.start.y <= Fold(e, "y", q.y) /\ Fold(e, "y", q.y) <= e.stop.y
    BY <1>1, <1>2 DEF Fold
  <1>5. p = Pt(Fold(e, "x", q.x), Fold(e, "y", q.y))  BY DEF Source
  <1>. QED  BY <1>3, <1>4, <1>5, PointOf

\* An entry that has not begun covers all of its pixels.
LEMMA UntouchedOpen ==
    ASSUME NEW e, IsFrame(e), e.begin \in Points, Untouched(e)  PROVE Open(e) = Area(e)
  <1>. SUFFICES ASSUME NEW q \in Area(e)  PROVE Ahead(e, Source(e, q))
    BY DEF Open
  <1>. DEFINE p == Source(e, q)
  <1>1. p.x \in Int /\ p.y \in Int /\ e.start.x <= p.x /\ e.start.y <= p.y  BY SourceAfter
  <1>2. /\ e.start.x \in Int /\ e.start.y \in Int /\ e.begin.x \in Int /\ e.begin.y \in Int
    BY FrameNumbers DEF Points
  <1>. HIDE DEF p
  <1>3. AtOrAfter(p, e.begin)  BY <1>1, <1>2 DEF AtOrAfter, Untouched
  <1>4. ~LastOfTwo(e)  BY DEF LastOfTwo, Untouched, TwoPasses
  <1>. QED  BY <1>3, <1>4 DEF Ahead, p

\* An entry of a restart or an edge.
LEMMA FreshFits ==
    ASSUME NEW ax, NEW e \in Entries, e.begin = e.start, TwoPasses => e.pass = 0,
           e.symmetry = Undecided
    PROVE  Fits(ax, e) /\ Open(e) = Area(e)
  <1>1. e.symmetry.x = "new" /\ e.symmetry.y = "new"  BY DEF Undecided
  <1>2. Untouched(e)  BY EntryNumbers DEF Untouched
  <1>3. \A d \in Axes : d = "x" \/ d = "y"  BY DEF Axes
  <1>4. Fits(ax, e)  BY <1>1, <1>2, <1>3, EntryNumbers DEF Fits, Middle
  <1>. QED  BY <1>2, <1>4, EntryFrame, UntouchedOpen

-----------------------------------------------------------------------------
\* Merging.

\* The pieces of a merge: the same in all but where they are.
SameKind(a, b, m) == /\ m.pass = a.pass /\ b.pass = a.pass
                     /\ m.symmetry = a.symmetry /\ b.symmetry = a.symmetry
                     /\ a.begin.y = a.start.y /\ b.begin.y = b.start.y

LEMMA MergeSameKind ==
    ASSUME NEW e \in Entries, NEW f \in Entries, Combinable(e, f)
    PROVE  SameKind(e, f, Merged(e, f)) /\ SameKind(f, e, Merged(e, f))
  <1>1. f.start = f.begin /\ e.start.y = e.begin.y /\ f.symmetry = e.symmetry /\ f.pass = e.pass
    BY DEF Combinable, FreelyMerge
  <1>2. Merged(e, f).pass = e.pass /\ Merged(e, f).symmetry = e.symmetry
    <2>1. /\ [e EXCEPT !.stop.y = f.stop.y].pass = e.pass
          /\ [e EXCEPT !.stop.y = f.stop.y].symmetry = e.symmetry
      BY DEF Entries
    <2>2. /\ [e EXCEPT !.start.y = f.start.y, !.begin.y = f.begin.y].pass = e.pass
          /\ [e EXCEPT !.start.y = f.start.y, !.begin.y = f.begin.y].symmetry = e.symmetry
      BY DEF Entries
    <2>3. /\ [e EXCEPT !.stop.x = f.stop.x].pass = e.pass
          /\ [e EXCEPT !.stop.x = f.stop.x].symmetry = e.symmetry
      BY DEF Entries
    <2>4. /\ [e EXCEPT !.start.x = f.start.x, !.begin.x = f.begin.x].pass = e.pass
          /\ [e EXCEPT !.start.x = f.start.x, !.begin.x = f.begin.x].symmetry = e.symmetry
      BY DEF Entries
    <2>. QED  BY <2>1, <2>2, <2>3, <2>4 DEF Merged
  <1>. QED  BY <1>1, <1>2 DEF SameKind

\* Two windows that are symmetric in a direction do not follow each other in it.
LEMMA AppendedFits ==
    ASSUME NEW ax, NEW g, IsFrame(g), NEW a \in Framed(g), NEW b \in Framed(g), NEW m \in Framed(g),
           Appended(a, b, m), SameKind(a, b, m), Fits(ax, a), Fits(ax, b)
    PROVE  /\ Fits(ax, m)
           /\ Open(a) \cup Open(b) \subseteq Open(m)
  <1>1. /\ a \in Entries /\ b \in Entries /\ m \in Entries
        /\ a.begin \in Area(a) /\ Within(g, a) /\ Within(g, b)
    BY DEF Framed
  <1>2. /\ a.start.x \in Int /\ a.start.y \in Int /\ a.stop.x \in Int /\ a.stop.y \in Int
        /\ b.start.x \in Int /\ b.start.y \in Int /\ b.stop.x \in Int /\ b.stop.y \in Int
        /\ a.begin.x \in Int /\ a.begin.y \in Int /\ b.begin.x \in Int /\ b.begin.y \in Int
        /\ a.start.x <= a.stop.x /\ a.start.y <= a.stop.y
        /\ b.start.x <= b.stop.x /\ b.start.y <= b.stop.y
    BY <1>1, EntryNumbers DEF Within
  <1>3. /\ m.start = a.start /\ m.begin = a.begin /\ m.stop = b.stop
        /\ \/ a.stop.y + 1 = b.start.y /\ a.start.x = b.start.x /\ a.stop.x = b.stop.x
           \/ a.stop.x + 1 = b.start.x /\ a.start.y = b.start.y /\ a.stop.y = b.stop.y
    BY DEF Appended
  <1>4. a.begin.x <= a.stop.x /\ a.begin.y <= a.stop.y /\ a.start.x <= a.begin.x
    BY <1>1, EntryFrame, InArea
  <1>5. /\ m.pass = a.pass /\ b.pass = a.pass /\ m.symmetry = a.symmetry /\ b.symmetry = a.symmetry
        /\ a.begin.y = a.start.y /\ b.begin.y = b.start.y
    BY DEF SameKind
  <1>6. /\ Middle(ax, a, "x") /\ Middle(ax, a, "y") /\ Middle(ax, b, "x") /\ Middle(ax, b, "y")
    BY DEF Fits
  \* The merge leaves the coordinates of a symmetric direction alone.
  <1>7. a.symmetry.y = "yes" => a.start.y = b.start.y /\ a.stop.y = b.stop.y
    <2>. SUFFICES ASSUME a.symmetry.y = "yes", a.stop.y + 1 = b.start.y  PROVE FALSE
      BY <1>3
    <2>1. a.start.y + a.stop.y = b.start.y + b.stop.y  BY <1>5, <1>6 DEF Middle
    <2>. QED  BY <1>2, <2>1
  <1>8. a.symmetry.x = "yes" => a.start.x = b.start.x /\ a.stop.x = b.stop.x
    <2>. SUFFICES ASSUME a.symmetry.x = "yes", a.stop.x + 1 = b.start.x  PROVE FALSE
      BY <1>3
    <2>1. a.start.x + a.stop.x = b.start.x + b.stop.x  BY <1>5, <1>6 DEF Middle
    <2>. QED  BY <1>2, <2>1
  <1>9. Fits(ax, m)
    <2>1. Middle(ax, m, "x") /\ Middle(ax, m, "y")  BY <1>3, <1>5, <1>6, <1>7, <1>8 DEF Middle
    <2>. QED  BY <1>3, <1>5, <2>1 DEF Fits, New, Untouched
  <1>10. Area(m) = Area(a) \cup Area(b)  BY <1>1, AppendedFramed
  <1>11. \A q : Source(m, q) = Source(a, q) /\ Source(m, q) = Source(b, q)
    BY <1>3, <1>5, <1>7, <1>8 DEF Source, Fold
  <1>12. ASSUME NEW q \in Open(a)  PROVE q \in Open(m)
    <2>1. q \in Area(m) /\ Ahead(a, Source(m, q))  BY <1>10, <1>11 DEF Open
    <2>2. Ahead(m, Source(m, q))  BY <1>3, <1>5, <2>1 DEF Ahead, FirstPass, LastOfTwo
    <2>. QED  BY <2>1, <2>2 DEF Open
  <1>13. ASSUME NEW q \in Open(b)  PROVE q \in Open(m)
    <2>. DEFINE p == Source(m, q)
    <2>1. q \in Area(m) /\ q \in Area(b) /\ Ahead(b, p)  BY <1>10, <1>11 DEF Open
    <2>2. /\ q.x \in Int /\ q.y \in Int /\ b.start.x <= q.x /\ b.start.y <= q.y
          /\ q.x <= b.stop.x /\ q.y <= b.stop.y
      BY <1>1, <2>1, EntryFrame, InArea
    <2>3. p = Pt(Fold(b, "x", q.x), Fold(b, "y", q.y))  BY <1>11 DEF Source
    <2>4. Fold(b, "x", q.x) \in Int /\ b.start.x <= Fold(b, "x", q.x)  BY <1>2, <2>2 DEF Fold
    <2>5. Fold(b, "y", q.y) \in Int /\ b.start.y <= Fold(b, "y", q.y)  BY <1>2, <2>2 DEF Fold
    <2>6. p.x \in Int /\ p.y \in Int /\ b.start.x <= p.x /\ b.start.y <= p.y
      BY <2>3, <2>4, <2>5, PointOf
    <2>. HIDE DEF p
    <2>7. AtOrAfter(p, m.begin)  BY <1>2, <1>3, <1>4, <1>5, <2>6 DEF AtOrAfter
    <2>8. Ahead(m, p)  BY <1>5, <2>1, <2>7 DEF Ahead, FirstPass, LastOfTwo
    <2>. QED  BY <2>1, <2>8 DEF Open, p
  <1>. QED  BY <1>9, <1>12, <1>13
-----------------------------------------------------------------------------
\* Tables whose entries fit.

LEMMA FitsMerge ==
    ASSUME NEW ax, NEW f, IsFrame(f), NEW R
    PROVE  MergesWithin({e \in Clear(f, R) : Fits(ax, e)}, Apart, Opens)
  <1>. DEFINE G == {e \in Clear(f, R) : Fits(ax, e)}
  <1>1. SUFFICES ASSUME NEW d \in G, NEW e \in G, <<d, e>> \in Apart, <<e, d>> \in Apart, Combinable(d, e)
                 PROVE  /\ Merged(d, e) \in G /\ Opens[d] \cup Opens[e] \subseteq Opens[Merged(d, e)]
                        /\ \A g \in G :
                              /\ <<d, g>> \in Apart /\ <<e, g>> \in Apart => <<Merged(d, e), g>> \in Apart
                              /\ <<g, d>> \in Apart /\ <<g, e>> \in Apart => <<g, Merged(d, e)>> \in Apart
    BY DEF MergesWithin
  <1>. DEFINE m == Merged(d, e)
  <1>2. /\ d \in Clear(f, R) /\ e \in Clear(f, R) /\ Fits(ax, d) /\ Fits(ax, e)
        /\ d \in Framed(f) /\ e \in Framed(f) /\ d \in Entries /\ e \in Entries
    BY DEF Clear, Framed
  <1>3. MergesWithin(Clear(f, R), Apart, Areas)  BY MergesClear
  <1>4. /\ m \in Clear(f, R)
        /\ \A g \in Clear(f, R) :
              /\ <<d, g>> \in Apart /\ <<e, g>> \in Apart => <<m, g>> \in Apart
              /\ <<g, d>> \in Apart /\ <<g, e>> \in Apart => <<g, m>> \in Apart
    BY <1>1, <1>2, <1>3, Zenon DEF MergesWithin
  <1>5. Appended(d, e, m) \/ Appended(e, d, m)  BY <1>1, <1>2, MergeAppends
  <1>6. SameKind(d, e, m) /\ SameKind(e, d, m)  BY <1>1, <1>2, MergeSameKind
  <1>. HIDE DEF m
  <1>7. m \in Framed(f) /\ m \in Entries  BY <1>4 DEF Clear, Framed
  <1>8. Fits(ax, m) /\ Open(d) \cup Open(e) \subseteq Open(m)
    BY <1>2, <1>5, <1>6, <1>7, AppendedFits
  <1>9. Opens[d] = Open(d) /\ Opens[e] = Open(e) /\ Opens[m] = Open(m)
    BY <1>2, <1>7 DEF Opens
  <1>. QED  BY <1>4, <1>8, <1>9 DEF m

\* What such a table is.
LEMMA InFitTable ==
    ASSUME NEW ax, NEW f, NEW R, NEW l
    PROVE  l \in FitTables(f, R, ax) <=>
              /\ l \in PairedLists({e \in Clear(f, R) : Fits(ax, e)}, Apart)
              /\ Len(l) <= MaxCalcWork
  <1>. DEFINE G == {e \in Clear(f, R) : Fits(ax, e)}
  <1>1. l \in Seq(Clear(f, R)) /\ (\A k \in 1 .. Len(l) : Fits(ax, l[k])) <=> l \in Seq(G)
    <2>1. ASSUME l \in Seq(Clear(f, R)), \A k \in 1 .. Len(l) : Fits(ax, l[k])
          PROVE  l \in Seq(G)
      BY <2>1
    <2>2. ASSUME l \in Seq(G)
          PROVE  l \in Seq(Clear(f, R)) /\ \A k \in 1 .. Len(l) : Fits(ax, l[k])
      <3>1. \A k \in 1 .. Len(l) : l[k] \in G  BY <2>2
      <3>. QED  BY <2>2, <3>1
    <2>. QED  BY <2>1, <2>2
  <1>. HIDE DEF G
  <1>. QED  BY <1>1 DEF FitTables, Tables, PairedLists, G

\* The entries stand for what is open of them.
LEMMA CoveredOpen ==
    ASSUME NEW l \in Seq(Entries), NEW q
    PROVE  q \in CoveredBy(Opens, l) <=> \E k \in 1 .. Len(l) : q \in Open(l[k])
  <1>1. \A k \in 1 .. Len(l) : Opens[l[k]] = Open(l[k])  BY DEF Opens
  <1>. QED  BY <1>1 DEF CoveredBy

\* An entry that fits is added.
LEMMA AddFits ==
    ASSUME NEW ax, NEW f, IsFrame(f), NEW R, NEW l \in FitTables(f, R, ax), ~ListFull(l),
           NEW e \in Clear(f, R), Fits(ax, e), \A k \in 1 .. Len(l) : Area(l[k]) \cap Area(e) = {}
    PROVE  /\ AddWorkList(l, e) \in FitTables(f, R, ax)
           /\ CoveredBy(Opens, l) \cup Open(e) \subseteq CoveredBy(Opens, AddWorkList(l, e))
  <1>. DEFINE G == {g \in Clear(f, R) : Fits(ax, g)}
  <1>1. G \subseteq Entries /\ e \in G /\ e \in Entries  BY DEF Clear, Framed
  <1>2. l \in Tables(f, R) /\ l \in PairedLists(G, Apart)  BY InFitTable DEF FitTables
  <1>3. l \in Seq(Entries) /\ \A k \in 1 .. Len(l) : l[k] \in Entries  BY <1>2, InTable
  <1>4. \A k \in 1 .. Len(l) : <<l[k], e>> \in Apart /\ <<e, l[k]>> \in Apart
    BY <1>1, <1>3 DEF Apart
  <1>5. MergesWithin(G, Apart, Opens)  BY FitsMerge
  <1>6. AddWorkList(l, e) \in Tables(f, R)  BY <1>2, AddClear
  <1>. HIDE DEF G
  <1>7. /\ AddWorkList(l, e) \in PairedLists(G, Apart)
        /\ CoveredBy(Opens, l) \cup Opens[e] \subseteq CoveredBy(Opens, AddWorkList(l, e))
    BY <1>1, <1>2, <1>4, <1>5, AddPaired
  <1>8. Len(AddWorkList(l, e)) <= MaxCalcWork  BY <1>6, InTable
  <1>9. AddWorkList(l, e) \in FitTables(f, R, ax)  BY <1>7, <1>8, InFitTable DEF G
  <1>. QED  BY <1>1, <1>7, <1>9 DEF Opens

\* And such a table is tidied.
LEMMA TidyFits ==
    ASSUME NEW ax, NEW f, IsFrame(f), NEW R, NEW l \in FitTables(f, R, ax)
    PROVE  /\ TidyWorkList(l) \in FitTables(f, R, ax)
           /\ CoveredBy(Opens, l) \subseteq CoveredBy(Opens, TidyWorkList(l))
  <1>. DEFINE G == {g \in Clear(f, R) : Fits(ax, g)}
              T == FitTables(f, R, ax)
              S1 == {s \in T : CoveredBy(Opens, l) \subseteq CoveredBy(Opens, s)}
  <1>1. G \in SUBSET Entries  BY DEF Clear, Framed
  <1>2. MergesWithin(G, Apart, Opens)  BY FitsMerge
  <1>3. \A s : s \in T <=> s \in PairedLists(G, Apart) /\ Len(s) <= MaxCalcWork
    BY InFitTable
  <1>4. \A s \in T : s \in Seq(Entries)  BY InTable DEF FitTables
  <1>. HIDE DEF G, T
  <1>5. S1 \in SUBSET Seq(Entries) /\ l \in S1  BY <1>4 DEF T
  <1>6. ASSUME NEW s \in S1  PROVE CombineWorkList(s) \in S1
    <2>1. /\ CombineWorkList(s) \in PairedLists(G, Apart)
          /\ CoveredBy(Opens, s) \subseteq CoveredBy(Opens, CombineWorkList(s))
      BY <1>1, <1>2, <1>3, CombinePaired
    <2>2. Len(CombineWorkList(s)) <= Len(s) /\ CombineWorkList(s) \in Seq(Entries) /\ s \in Seq(Entries)
      BY <1>4, CombineType
    <2>3. Len(CombineWorkList(s)) <= MaxCalcWork
      BY <1>3, <2>2, Sizes
    <2>. QED  BY <1>3, <2>1, <2>3
  <1>7. ASSUME NEW s \in S1, NEW i \in 1 .. Len(s), NEW j \in 1 .. Len(s)
        PROVE  SwapIfBefore(s, i, j) \in S1
    <2>1. /\ SwapIfBefore(s, i, j) \in PairedLists(G, Apart)
          /\ CoveredBy(Opens, s) \subseteq CoveredBy(Opens, SwapIfBefore(s, i, j))
      BY <1>3, SwapPaired
    <2>2. Len(SwapIfBefore(s, i, j)) = Len(s)  BY <1>4, SwapTurn
    <2>. QED  BY <1>3, <2>1, <2>2
  <1>. HIDE DEF S1
  <1>8. TidyWorkList(l) \in S1  BY <1>5, <1>6, <1>7, TidyWithin
  <1>. QED  BY <1>8 DEF S1, T

-----------------------------------------------------------------------------
\* What set_symmetry cuts off goes to the list, and it only decides what was undecided.

LEMMA SameAddOwn ==
    /\ \A l, e : SP!AddWorkList(l, e) = AddWorkList(l, e)
    /\ \A l : SP!ListFull(l) = ListFull(l)
    /\ \A f, R : SP!Clear(f, R) = Clear(f, R)
    /\ SP!Undecided = Undecided
  <1>1. \A e, f : /\ SP!Above(e, f) = Above(e, f) /\ SP!LeftOf(e, f) = LeftOf(e, f)
                  /\ SP!FreelyMerge(e, f) = FreelyMerge(e, f) /\ SP!Before(e, f) = Before(e, f)
    BY DEF SP!Above, Above, SP!LeftOf, LeftOf, SP!Touches, Touches, SP!FreelyMerge, FreelyMerge,
           SP!Before, Before
  <1>2. \A e, f : SP!Combinable(e, f) = Combinable(e, f)  BY <1>1 DEF SP!Combinable, Combinable
  <1>3. \A e, f : SP!Merged(e, f) = Merged(e, f)  BY <1>1 DEF SP!Merged, Merged
  <1>4. \A l : SP!CombinablePairs(l) = CombinablePairs(l)
    BY <1>2 DEF SP!CombinablePairs, CombinablePairs
  <1>5. \A pairs : SP!FirstPair(pairs) = FirstPair(pairs)  BY DEF SP!FirstPair, FirstPair
  <1>6. \A l, j : SP!Delete(l, j) = Delete(l, j)  BY DEF SP!Delete, Delete
  <1>7. \A l : SP!CombineWorkList(l) = CombineWorkList(l)
    BY <1>3, <1>4, <1>5, <1>6 DEF SP!CombineWorkList, CombineWorkList
  <1>8. \A l : SP!Combined(l) = Combined(l)  BY <1>7 DEF SP!Combined, Combined
  <1>9. \A l, i, j : SP!SwapIfBefore(l, i, j) = SwapIfBefore(l, i, j)
    BY <1>1 DEF SP!SwapIfBefore, SwapIfBefore
  <1>10. \A l : SP!Sorted(l) = Sorted(l)  BY <1>9 DEF SP!Sorted, Sorted
  <1>11. \A l : SP!TidyWorkList(l) = TidyWorkList(l)
    BY <1>8, <1>10 DEF SP!TidyWorkList, TidyWorkList
  <1>12. \A l : SP!ListFull(l) = ListFull(l)  BY DEF SP!ListFull, ListFull
  <1>13. \A l, e : SP!AddWorkList(l, e) = AddWorkList(l, e)
    BY <1>11, <1>12 DEF SP!AddWorkList, AddWorkList
  <1>14. \A f, R : SP!Clear(f, R) = Clear(f, R)  BY SameTables DEF SP!Clear, Clear
  <1>15. SP!Undecided = Undecided  BY DEF SP!Undecided, Undecided
  <1>. QED  BY <1>12, <1>13, <1>14, <1>15

Dirs == {"x", "y"}
Decided(e) == \A d \in Axes : e.symmetry[d] # "new"

\* One direction of the window: cut, or as it was.
CutDirection(w, e, d, done) ==
    IF done THEN /\ w.symmetry[d] \in {"yes", "no"}
                 /\ w.symmetry[d] = "yes" => /\ w.start[d] + w.stop[d] = Centre(axis, d)
                                             /\ w.i_stop[d] = (w.start[d] + w.stop[d]) \div 2
                 /\ w.symmetry[d] = "no" => w.i_stop[d] = w.stop[d]
    ELSE w.symmetry[d] = e.symmetry[d] /\ w.i_stop[d] = w.stop[d]

\* Window e, taken from list l, when the axes in done have been tried.
CutState(e, l, st, done) ==
    /\ SP!CutApart(st) /\ st.list \in FitTables(WholeScreen, Area(st.win), axis)
    /\ st.win.start = e.start /\ st.win.begin = e.begin /\ st.win.pass = e.pass
    /\ st.win.plot = "put_color"
    /\ \A d \in Dirs : CutDirection(st.win, e, d, d \in done)
    /\ CoveredBy(Opens, l) \subseteq CoveredBy(Opens, st.list)
    /\ Area(st.win) \subseteq Area(e)
    /\ Area(e) \subseteq Area(st.win) \cup CoveredBy(Opens, st.list)
    /\ Decided(e) => st.list = l /\ st.win.stop = e.stop /\ st.win.symmetry = e.symmetry

LEMMA CutStep ==
    ASSUME axis \in Points, NEW e \in Entries, Fits(axis, e), NEW l, NEW st, NEW done,
           CutState(e, l, st, done), NEW d \in Axes, d \notin done,
           NEW c, c = SP!AxisSplit(d, st)
    PROVE  /\ CutState(e, l, c, done \cup {d})
           /\ c.go <=> c.win.symmetry[d] = "yes"
  <1>. DEFINE v == st.win
              w == c.win
  <1>0. d \in {"x", "y"} /\ d \in Dirs  BY DEF Axes, Dirs
  <1>1. /\ SP!CutApart(st) /\ st.list \in FitTables(WholeScreen, Area(v), axis)
        /\ v.start = e.start /\ v.begin = e.begin /\ v.pass = e.pass /\ v.plot = "put_color"
        /\ \A o \in Dirs : CutDirection(v, e, o, o \in done)
        /\ CoveredBy(Opens, l) \subseteq CoveredBy(Opens, st.list)
        /\ Area(v) \subseteq Area(e) /\ Area(e) \subseteq Area(v) \cup CoveredBy(Opens, st.list)
        /\ Decided(e) => st.list = l /\ v.stop = e.stop /\ v.symmetry = e.symmetry
    BY DEF CutState
  <1>2. axis \in [x : Int, y : Int]  BY DEF Points
  <1>3. /\ SP!CutApart(c)
        /\ \E x, y : SP!AxisResult(st, c, d, w.symmetry[d], x, y)
        /\ w.symmetry[d] \in {"yes", "no"}
        /\ w.symmetry[d] = "yes" => w.i_stop[d] = (w.start[d] + w.stop[d]) \div 2
        /\ w.symmetry[d] = "yes" /\ v.symmetry[d] # "yes" => w.start[d] + w.stop[d] = SP!Across(d, 0)
        /\ w.symmetry[d] = "no" /\ v.i_stop[d] = v.stop[d] => w.i_stop[d] = w.stop[d]
        /\ v.symmetry[d] \in {"yes", "no"} => w.symmetry[d] = v.symmetry[d]
        /\ \/ w.stop = v.stop /\ c.list = st.list
           \/ v.symmetry[d] = "new" /\ \E piece : SP!PieceOf(st, c, piece)
    BY <1>0, <1>1, <1>2, Sizes, SP!AxisSplitLeaves
  <1>4. /\ w.start = v.start /\ w.begin = v.begin /\ w.pass = v.pass /\ w.plot = v.plot
        /\ c.go <=> w.symmetry[d] = "yes"
        /\ \A o \in {"x", "y"} \ {d} : /\ w.symmetry[o] = v.symmetry[o] /\ w.stop[o] = v.stop[o]
                                       /\ w.i_stop[o] = v.i_stop[o]
    BY <1>3 DEF SP!AxisResult
  <1>. HIDE DEF v, w
  <1>5. v.symmetry[d] = e.symmetry[d] /\ v.i_stop[d] = v.stop[d]
    BY <1>0, <1>1 DEF CutDirection
  <1>6. e.symmetry[d] \in {"new", "yes", "no"}  BY <1>0, EntryNumbers DEF Decision
  <1>7. v \in SP!Windows /\ w \in SP!Windows
    BY <1>1, <1>3 DEF SP!CutApart, SP!Halved, v, w
  <1>8. CutDirection(w, e, d, TRUE)
    <2>1. SP!Across(d, 0) = Centre(axis, d)
      <3>1. axis[d] \in Int  BY <1>0, <1>2
      <3>. QED  BY <3>1 DEF SP!Across, Centre
    <2>2. ASSUME v.symmetry[d] = "yes"  PROVE w.start[d] + w.stop[d] = Centre(axis, d)
      <3>1. e.start[d] + e.stop[d] = Centre(axis, d)
        BY <1>0, <1>5, <2>2 DEF Fits, Middle
      <3>2. Decided(e)
        <4>1. ~(\A o \in Axes : e.symmetry[o] = "new")  BY <1>5, <2>2
        <4>2. ~New(e, "x") /\ ~New(e, "y")  BY <4>1 DEF Fits
        <4>. QED  BY <4>2 DEF Decided, New, Axes
      <3>3. v.stop = e.stop  BY <1>1, <3>2
      <3>4. w.stop = v.stop  BY <1>3, <2>2
      <3>. QED  BY <1>1, <1>4, <3>1, <3>3, <3>4
    <2>. QED  BY <1>3, <1>5, <2>1, <2>2 DEF CutDirection
  <1>9. ASSUME NEW o \in Dirs  PROVE CutDirection(w, e, o, o \in done \cup {d})
    <2>1. CASE o = d  BY <1>8, <2>1
    <2>2. CASE o # d
      <3>1. /\ w.symmetry[o] = v.symmetry[o] /\ w.stop[o] = v.stop[o] /\ w.i_stop[o] = v.i_stop[o]
            /\ w.start = v.start /\ (o \in done \cup {d} <=> o \in done)
        BY <1>4, <2>2 DEF Dirs
      <3>. QED  BY <1>1, <3>1 DEF CutDirection
    <2>. QED  BY <2>1, <2>2
  <1>10. CASE w.stop = v.stop /\ c.list = st.list
    <2>1. Area(w) = Area(v)  BY <1>4, <1>10 DEF Area
    <2>2. Decided(e) => w.symmetry = v.symmetry
      <3>1. ASSUME Decided(e)  PROVE w.symmetry.x = v.symmetry.x /\ w.symmetry.y = v.symmetry.y
        <4>1. v.symmetry[d] \in {"yes", "no"}  BY <1>5, <1>6, <3>1 DEF Decided
        <4>. QED  BY <1>0, <1>3, <1>4, <4>1
      <3>2. w.symmetry = [x |-> w.symmetry.x, y |-> w.symmetry.y] /\ v.symmetry = [x |-> v.symmetry.x, y |-> v.symmetry.y]
        BY <1>7 DEF SP!Windows
      <3>. QED  BY <3>1, <3>2
    <2>. QED  BY <1>1, <1>3, <1>4, <1>9, <1>10, <2>1, <2>2 DEF CutState, w
  <1>11. ASSUME v.symmetry[d] = "new", NEW piece, SP!PieceOf(st, c, piece)
         PROVE  CutState(e, l, c, done \cup {d})
    <2>1. /\ piece \in Clear(WholeScreen, Area(w)) /\ ~ListFull(st.list)
          /\ st.list \in Tables(WholeScreen, Area(w))
          /\ \A k \in 1 .. Len(st.list) : Area(st.list[k]) \cap Area(piece) = {}
          /\ Area(v) = Area(w) \cup Area(piece)
          /\ piece.begin = piece.start /\ piece.pass = v.pass /\ piece.symmetry = Undecided
          /\ c.list = AddWorkList(st.list, piece)
      BY <1>11, SameAddOwn, SameTables DEF SP!PieceOf, SP!RoomBeside, v, w
    <2>2. ~Decided(e)  BY <1>5, <1>11 DEF Decided
    <2>3. TwoPasses => piece.pass = 0
      <3>1. New(e, "x") \/ New(e, "y")  BY <1>0, <1>5, <1>11 DEF New
      <3>. QED  BY <1>1, <2>1, <3>1 DEF Fits, Untouched
    <2>4. piece \in Entries  BY <2>1 DEF Clear, Framed
    <2>5. Fits(axis, piece) /\ Open(piece) = Area(piece)  BY <2>1, <2>3, <2>4, FreshFits
    <2>6. st.list \in FitTables(WholeScreen, Area(w), axis)  BY <1>1, <2>1 DEF FitTables
    <2>7. /\ c.list \in FitTables(WholeScreen, Area(w), axis)
          /\ CoveredBy(Opens, st.list) \cup Area(piece) \subseteq CoveredBy(Opens, c.list)
      <3>1. /\ AddWorkList(st.list, piece) \in FitTables(WholeScreen, Area(w), axis)
            /\ CoveredBy(Opens, st.list) \cup Open(piece) \subseteq CoveredBy(Opens, AddWorkList(st.list, piece))
        BY <2>1, <2>5, <2>6, ScreenFrame, AddFits
      <3>. QED  BY <2>1, <2>5, <3>1
    <2>. QED  BY <1>1, <1>3, <1>4, <1>9, <2>1, <2>2, <2>7 DEF CutState, w
  <1>. QED  BY <1>3, <1>4, <1>10, <1>11 DEF v, w

\* A window whose symmetry is decided, with the half that is calculated and the plot that
\* mirrors it.
ReadyDirection(w, d) ==
    /\ d \in Axes => w.symmetry[d] \in {"yes", "no"}
    /\ w.symmetry[d] = "yes" => /\ d \in Axes /\ w.start[d] + w.stop[d] = Centre(axis, d)
                                /\ w.i_stop[d] = (w.start[d] + w.stop[d]) \div 2
    /\ w.symmetry[d] # "yes" => w.i_stop[d] = w.stop[d]
Ready(w) == /\ IsWindow(w) /\ w.begin \in Points
            /\ \A d \in Dirs : ReadyDirection(w, d)
            /\ w.plot = SP!XYPlot(w)
            /\ TwoPasses => w.pass \in {0, 1}

\* Where an entry comes from, and what its pixels are ahead of, when its symmetry is decided.
LEMMA SameOpen ==
    ASSUME NEW e, NEW w, w.start = e.start, w.stop = e.stop, w.begin = e.begin, w.pass = e.pass,
           w.symmetry = e.symmetry
    PROVE  Open(w) = Open(e)
  <1>1. Area(w) = Area(e)  BY DEF Area
  <1>2. \A q : Source(w, q) = Source(e, q)  BY DEF Source, Fold
  <1>3. \A p : Ahead(w, p) = Ahead(e, p)  BY DEF Ahead, FirstPass, LastOfTwo
  <1>. QED  BY <1>1, <1>2, <1>3 DEF Open

\* What is left of the window and what is on the list have all the entry has open.
LEMMA CutOpens ==
    ASSUME axis \in Points, NEW e \in Framed(WholeScreen), Fits(axis, e), NEW l, NEW c,
           CutState(e, l, c, Axes)
    PROVE  /\ Open(e) \cup CoveredBy(Opens, l) \subseteq Open(c.win) \cup CoveredBy(Opens, c.list)
           /\ Open(c.win) \subseteq Open(e)
  <1>. DEFINE w == c.win
  <1>0. e \in Entries /\ IsFrame(e)  BY EntryFrame DEF Framed
  <1>1. /\ SP!CutApart(c)
        /\ w.start = e.start /\ w.begin = e.begin /\ w.pass = e.pass
        /\ CoveredBy(Opens, l) \subseteq CoveredBy(Opens, c.list)
        /\ Area(w) \subseteq Area(e) /\ Area(e) \subseteq Area(w) \cup CoveredBy(Opens, c.list)
        /\ Decided(e) => c.list = l /\ w.stop = e.stop /\ w.symmetry = e.symmetry
    BY DEF CutState
  <1>2. CASE Decided(e)
    <2>1. Open(w) = Open(e)  BY <1>1, <1>2, SameOpen
    <2>. QED  BY <1>1, <2>1
  <1>3. CASE ~Decided(e)
    <2>1. Untouched(e)
      <3>1. New(e, "x") \/ New(e, "y")
        BY <1>3 DEF Decided, New, Axes
      <3>. QED  BY <3>1 DEF Fits
    <2>2. IsFrame(w) /\ w.begin \in Points /\ Untouched(w)
      <3>1. w \in SP!Windows  BY <1>1 DEF SP!CutApart, SP!Halved
      <3>2. IsFrame(w)  BY <3>1, SameTables DEF SP!Windows, IsFrame
      <3>3. w.begin \in Points  BY <3>1, SameTables DEF SP!Windows
      <3>. QED  BY <1>1, <2>1, <3>2, <3>3 DEF Untouched
    <2>3. Open(w) = Area(w)  BY <2>2, UntouchedOpen
    <2>4. e.begin \in Points  BY <1>0 DEF Entries
    <2>5. Open(e) = Area(e)  BY <1>0, <2>1, <2>4, UntouchedOpen
    <2>. QED  BY <1>1, <2>3, <2>5
  <1>. QED  BY <1>2, <1>3

\* The front entry, its symmetry decided, and the list with what was cut off.
IsCut(e, l, c) ==
    /\ Ready(c.win) /\ c.list \in FitTables(WholeScreen, Area(c.win), axis)
    /\ Open(e) \cup CoveredBy(Opens, l) \subseteq Open(c.win) \cup CoveredBy(Opens, c.list)
    /\ Open(c.win) \subseteq Open(e)

LEMMA CutFinal ==
    ASSUME axis \in Points, NEW e \in Framed(WholeScreen), Fits(axis, e), NEW l, NEW s,
           CutState(e, l, s, Axes), NEW c, c.list = s.list,
           c.win = [s.win EXCEPT !.plot = SP!XYPlot(s.win)]
    PROVE  IsCut(e, l, c)
  <1>. DEFINE v == s.win
              w == c.win
  <1>1. /\ SP!CutApart(s) /\ s.list \in FitTables(WholeScreen, Area(v), axis)
        /\ \A d \in Dirs : CutDirection(v, e, d, d \in Axes)
        /\ v.pass = e.pass
    BY DEF CutState
  <1>2. v \in SP!Windows /\ SP!Halved(v)  BY <1>1 DEF SP!CutApart, SP!Halved
  <1>3. /\ w.start = v.start /\ w.stop = v.stop /\ w.i_stop = v.i_stop /\ w.begin = v.begin
        /\ w.pass = v.pass /\ w.symmetry = v.symmetry /\ w.plot = SP!XYPlot(v)
    BY <1>2 DEF SP!Windows
  <1>. HIDE DEF v, w
  <1>4. IsWindow(w)
    <2>1. Within(WholeScreen, v)  BY <1>2, SameTables DEF SP!Halved
    <2>2. IsWindow(v)
      BY <1>2, <2>1, SameTables DEF SP!Halved, SP!Windows, IsWindow
    <2>3. Within(WholeScreen, w)  BY <1>3, <2>1 DEF Within
    <2>. QED  BY <1>3, <2>2, <2>3 DEF IsWindow
  <1>5. w.begin \in Points  BY <1>2, <1>3, SameTables DEF SP!Windows
  <1>6. ASSUME NEW d \in Dirs  PROVE ReadyDirection(w, d)
    <2>1. CutDirection(v, e, d, d \in Axes)  BY <1>1
    <2>2. Middle(axis, e, d)  BY DEF Fits, Dirs
    <2>3. CASE d \in Axes  BY <1>3, <2>1, <2>3 DEF CutDirection, ReadyDirection
    <2>4. CASE d \notin Axes
      <3>1. e.symmetry[d] # "yes"  BY <2>2, <2>4 DEF Middle
      <3>. QED  BY <1>3, <2>1, <2>4, <3>1 DEF CutDirection, ReadyDirection
    <2>. QED  BY <2>3, <2>4
  <1>7. w.plot = SP!XYPlot(w)  BY <1>3 DEF SP!XYPlot
  <1>8. TwoPasses => w.pass \in {0, 1}  BY <1>1, <1>3 DEF Fits
  <1>9. Ready(w)  BY <1>4, <1>5, <1>6, <1>7, <1>8 DEF Ready
  <1>10. Area(w) = Area(v)  BY <1>3 DEF Area
  <1>11. Open(w) = Open(v)  BY <1>3, SameOpen
  <1>12. /\ Open(e) \cup CoveredBy(Opens, l) \subseteq Open(v) \cup CoveredBy(Opens, s.list)
         /\ Open(v) \subseteq Open(e)
    BY CutOpens DEF v
  <1>. QED  BY <1>1, <1>9, <1>10, <1>11, <1>12 DEF IsCut, w

LEMMA CutFits ==
    ASSUME Sym # "ORIGIN", axis \in Points, NEW e \in Framed(WholeScreen), Fits(axis, e),
           NEW l \in FitTables(WholeScreen, Area(e), axis),
           NEW c, c = S!SetSymmetry(S!Window(e), l)
    PROVE  IsCut(e, l, c)
  <1>. DEFINE st == SP!Started(e, l)
              rows == SP!AxisSplit("y", st)
              columns == SP!AxisSplit("x", st)
              both == SP!AxisSplit("x", rows)
  <1>0. axis \in [x : Int, y : Int] /\ e \in Entries  BY DEF Points, Framed
  <1>1. CutState(e, l, st, {})
    <2>1. /\ st.list = l /\ st.win.start = e.start /\ st.win.stop = e.stop /\ st.win.i_stop = e.stop
          /\ st.win.begin = e.begin /\ st.win.pass = e.pass /\ st.win.symmetry = e.symmetry
          /\ st.win.plot = "put_color"
      BY DEF SP!Started, SP!Window
    <2>2. SP!CutApart(st)
      <3>1. e \in SP!Framed(SP!WholeScreen) /\ l \in SP!Tables(SP!WholeScreen, SP!Area(e))
        BY SameTables DEF FitTables
      <3>. QED  BY <1>0, <3>1, Sizes, SP!StartApart
    <2>. HIDE DEF st
    <2>3. Area(st.win) = Area(e)  BY <2>1 DEF Area
    <2>4. \A d \in Dirs : CutDirection(st.win, e, d, d \in {})  BY <2>1 DEF CutDirection
    <2>. QED  BY <2>1, <2>2, <2>3, <2>4 DEF CutState
  <1>2. \/ Sym = "NONE" /\ c = st
        \/ Sym = "X_AXIS" /\ c = SP!OneAxisSplit("y", "sym_plot2", st)
        \/ Sym = "Y_AXIS" /\ c = SP!OneAxisSplit("x", "sym_plot2y", st)
        \/ Sym = "XY_AXIS" /\ c = SP!WithPlot(both, SP!XYPlot(both.win))
    BY SameSetSymmetry, Sizes DEF SP!SetSymmetry, SP!SymmetryKinds, SP!Started, SP!BothAxesSplit
  <1>. HIDE DEF st
  <1>. DEFINE Plotted2(s) == c.list = s.list /\ c.win = [s.win EXCEPT !.plot = SP!XYPlot(s.win)]
  <1>3. ASSUME NEW s, CutState(e, l, s, Axes), Plotted2(s)  PROVE IsCut(e, l, c)
    BY <1>3, CutFinal
  <1>4. ASSUME NEW s, SP!CutApart(s)
        PROVE  /\ s \in [win : SP!Windows, list : SP!Lists, go : BOOLEAN]
               /\ s.win.symmetry.x \in Decision /\ s.win.symmetry.y \in Decision
    BY <1>4, SameTables DEF SP!CutApart, SP!SplitStates, SP!Windows
  <1>5. ASSUME NEW s, SP!CutApart(s), s.win.plot = "put_color"
        PROVE  s.win = [s.win EXCEPT !.plot = "put_color"]
    BY <1>4, <1>5 DEF SP!Windows
  <1>6. ASSUME NEW s, SP!CutApart(s), NEW plot
        PROVE  SP!WithPlot(s, plot).list = s.list /\ SP!WithPlot(s, plot).win = [s.win EXCEPT !.plot = plot]
    BY <1>4, <1>6 DEF SP!WithPlot
  <1>7. CASE Sym = "NONE"
    <2>1. Axes = {} /\ c = st  BY <1>2, <1>7 DEF Axes
    <2>2. CutState(e, l, st, Axes) /\ SP!CutApart(st) /\ st.win.plot = "put_color"
      BY <1>1, <2>1 DEF CutState
    <2>3. st.win.symmetry.x # "yes" /\ st.win.symmetry.y # "yes"
      <3>1. CutDirection(st.win, e, "x", "x" \in {}) /\ CutDirection(st.win, e, "y", "y" \in {})
        BY <1>1 DEF CutState, Dirs
      <3>2. e.symmetry.x # "yes" /\ e.symmetry.y # "yes"
        BY <2>1 DEF Fits, Middle
      <3>. QED  BY <3>1, <3>2 DEF CutDirection
    <2>4. SP!XYPlot(st.win) = "put_color"  BY <2>3 DEF SP!XYPlot
    <2>. QED  BY <1>3, <1>5, <2>1, <2>2, <2>4
  <1>8. ASSUME NEW d \in {"x", "y"}, NEW plot, Axes = {d}, c = SP!OneAxisSplit(d, plot, st),
               \/ d = "y" /\ plot = "sym_plot2"
               \/ d = "x" /\ plot = "sym_plot2y"
        PROVE  IsCut(e, l, c)
    <2>. DEFINE s == SP!AxisSplit(d, st)
    <2>1. CutState(e, l, s, Axes) /\ (s.go <=> s.win.symmetry[d] = "yes")
      <3>1. d \in Axes /\ d \notin {} /\ {} \cup {d} = Axes  BY <1>8
      <3>2. CutState(e, l, s, {} \cup {d}) /\ (s.go <=> s.win.symmetry[d] = "yes")
        BY <1>0, <1>1, <3>1, CutStep
      <3>. QED  BY <3>1, <3>2
    <2>2. c = IF s.go THEN SP!WithPlot(s, plot) ELSE s  BY <1>8 DEF SP!OneAxisSplit
    <2>. HIDE DEF s
    <2>3. SP!CutApart(s) /\ s.win.plot = "put_color" /\ \A o \in Dirs : CutDirection(s.win, e, o, o \in Axes)
      BY <2>1 DEF CutState
    <2>4. ASSUME NEW o \in {"x", "y"} \ {d}  PROVE s.win.symmetry[o] # "yes"
      <3>1. CutDirection(s.win, e, o, o \in Axes)  BY <2>3, <2>4 DEF Dirs
      <3>2. Middle(axis, e, o) /\ o \notin Axes  BY <1>8, <2>4 DEF Fits
      <3>. QED  BY <3>1, <3>2 DEF CutDirection, Middle
    <2>5. SP!XYPlot(s.win) = IF s.go THEN plot ELSE "put_color"
      <3>1. CASE d = "y"
        <4>1. s.win.symmetry.x # "yes"  BY <2>4, <3>1
        <4>. QED  BY <1>8, <2>1, <3>1, <4>1 DEF SP!XYPlot
      <3>2. CASE d = "x"
        <4>1. s.win.symmetry.y # "yes"  BY <2>4, <3>2
        <4>. QED  BY <1>8, <2>1, <3>2, <4>1 DEF SP!XYPlot
      <3>. QED  BY <3>1, <3>2
    <2>6. Plotted2(s)  BY <1>5, <1>6, <2>2, <2>3, <2>5
    <2>. QED  BY <1>3, <2>1, <2>6
  <1>9. CASE Sym = "X_AXIS"
    <2>1. Axes = {"y"}  BY <1>9 DEF Axes
    <2>. QED  BY <1>2, <1>8, <1>9, <2>1
  <1>10. CASE Sym = "Y_AXIS"
    <2>1. Axes = {"x"}  BY <1>10 DEF Axes
    <2>. QED  BY <1>2, <1>8, <1>10, <2>1
  <1>11. CASE Sym = "XY_AXIS"
    <2>1. Axes = {"x", "y"}  BY <1>11 DEF Axes
    <2>2. CutState(e, l, rows, {} \cup {"y"})
      <3>1. "y" \in Axes /\ "y" \notin {}  BY <2>1
      <3>. QED  BY <1>0, <1>1, <3>1, CutStep
    <2>. HIDE DEF rows
    <2>3. CutState(e, l, both, {"y"} \cup {"x"})
      <3>1. "x" \in Axes /\ "x" \notin {"y"} /\ CutState(e, l, rows, {"y"})  BY <2>1, <2>2
      <3>. QED  BY <1>0, <3>1, CutStep
    <2>. HIDE DEF both
    <2>4. CutState(e, l, both, Axes) /\ SP!CutApart(both)
      <3>1. {"y"} \cup {"x"} = Axes  BY <2>1
      <3>2. CutState(e, l, both, Axes)  BY <2>3, <3>1
      <3>. QED  BY <3>2 DEF CutState
    <2>5. c = SP!WithPlot(both, SP!XYPlot(both.win))  BY <1>2, <1>11
    <2>6. Plotted2(both)  BY <1>6, <2>4, <2>5
    <2>. QED  BY <1>3, <2>4, <2>6
  <1>. QED  BY <1>2, <1>7, <1>9, <1>10, <1>11

-----------------------------------------------------------------------------
\* A plot writes the pixels that come from the plotted one, and they have its colour.

\* The coordinates d of the pixels a plot at coordinate c writes.
Images(w, d, c) == IF w.symmetry[d] = "yes" THEN {c, w.start[d] + w.stop[d] - c} ELSE {c}

LEMMA WindowNumbers ==
    ASSUME NEW w, Ready(w), NEW d \in {"x", "y"}
    PROVE  /\ w.start[d] \in Int /\ w.stop[d] \in Int /\ w.i_stop[d] \in Int /\ w.begin[d] \in Int
           /\ w.start[d] <= w.i_stop[d] /\ w.i_stop[d] <= w.stop[d] /\ 0 <= w.start[d]
           /\ d = "x" => w.stop[d] < XDots
           /\ d = "y" => w.stop[d] < YDots
           /\ w.symmetry[d] = "yes" => w.i_stop[d] = (w.start[d] + w.stop[d]) \div 2
           /\ w.symmetry[d] # "yes" => w.i_stop[d] = w.stop[d]
  <1>1. IsWindow(w) /\ w.begin \in Points /\ ReadyDirection(w, d)  BY DEF Ready, Dirs
  <1>2. /\ w.start.x \in Int /\ w.start.y \in Int /\ w.stop.x \in Int /\ w.stop.y \in Int
        /\ w.i_stop.x \in Int /\ w.i_stop.y \in Int /\ w.begin.x \in Int /\ w.begin.y \in Int
    BY <1>1 DEF IsWindow, Points
  <1>3. /\ 0 <= w.start.x /\ w.stop.x <= XDots - 1 /\ 0 <= w.start.y /\ w.stop.y <= YDots - 1
        /\ XDots \in Int /\ YDots \in Int
    BY <1>1, ScreenFrame, Sizes DEF IsWindow, Within
  <1>4. /\ w.start.x <= w.i_stop.x /\ w.i_stop.x <= w.stop.x
        /\ w.start.y <= w.i_stop.y /\ w.i_stop.y <= w.stop.y
    BY <1>1 DEF IsWindow
  <1>5. CASE d = "x"  BY <1>1, <1>2, <1>3, <1>4, <1>5 DEF ReadyDirection
  <1>6. CASE d = "y"  BY <1>1, <1>2, <1>3, <1>4, <1>6 DEF ReadyDirection
  <1>. QED  BY <1>5, <1>6

LEMMA HalfOf ==
    ASSUME NEW n \in Int
    PROVE  /\ n \div 2 \in Int /\ 2 * (n \div 2) <= n /\ n <= 2 * (n \div 2) + 1
  OBVIOUS

LEMMA FoldImages ==
    ASSUME NEW w, Ready(w), NEW d \in {"x", "y"}, NEW c \in Int
    PROVE  /\ w.start[d] <= c /\ c <= w.i_stop[d] =>
                 \A t \in Images(w, d, c) :
                     t \in Int /\ w.start[d] <= t /\ t <= w.stop[d] /\ Fold(w, d, t) = c
           /\ w.start[d] <= c /\ c <= w.stop[d] =>
                 /\ Fold(w, d, c) \in Int
                 /\ w.start[d] <= Fold(w, d, c) /\ Fold(w, d, c) <= w.i_stop[d]
                 /\ c \in Images(w, d, Fold(w, d, c))
  <1>. DEFINE a == w.start[d]
              b == w.stop[d]
              m == w.i_stop[d]
  <1>1. /\ a \in Int /\ b \in Int /\ m \in Int /\ a <= m /\ m <= b
        /\ w.symmetry[d] = "yes" => m = (a + b) \div 2
        /\ w.symmetry[d] # "yes" => m = b
    BY WindowNumbers
  <1>. HIDE DEF a, b, m
  <1>2. CASE w.symmetry[d] = "yes"
    <2>1. 2 * m <= a + b /\ a + b <= 2 * m + 1
      <3>1. a + b \in Int  BY <1>1
      <3>. QED  BY <1>1, <1>2, <3>1, HalfOf
    <2>2. Images(w, d, c) = {c, a + b - c}  BY <1>2 DEF Images, a, b
    <2>3. \A t : Fold(w, d, t) = IF 2 * t > a + b THEN a + b - t ELSE t  BY <1>2 DEF Fold, a, b
    <2>4. ASSUME a <= c, c <= m, NEW t \in Images(w, d, c)
          PROVE  t \in Int /\ a <= t /\ t <= b /\ Fold(w, d, t) = c
      BY <1>1, <2>1, <2>2, <2>3, <2>4
    <2>5. ASSUME a <= c, c <= b
          PROVE  /\ Fold(w, d, c) \in Int /\ a <= Fold(w, d, c) /\ Fold(w, d, c) <= m
                 /\ c = Fold(w, d, c) \/ c = a + b - Fold(w, d, c)
      BY <1>1, <2>1, <2>3, <2>5
    <2>6. \A n : Images(w, d, n) = {n, a + b - n}  BY <1>2 DEF Images, a, b
    <2>. QED  BY <2>4, <2>5, <2>6 DEF a, b, m
  <1>3. CASE w.symmetry[d] # "yes"
    <2>1. \A n : Images(w, d, n) = {n} /\ Fold(w, d, n) = n  BY <1>3 DEF Images, Fold
    <2>. QED  BY <1>1, <1>3, <2>1 DEF a, b, m
  <1>. QED  BY <1>2, <1>3

LEMMA MirrorPlace ==
    ASSUME NEW m \in Int, NEW n \in Int, NEW c \in Int, NEW i \in Int, i = n - c, 2 * m <= n, c <= m
    PROVE  i > m \/ i = c
  OBVIOUS

LEMMA PlotImages ==
    ASSUME NEW w, Ready(w), NEW p \in Half(w)
    PROVE  S!Targets(w, p) = {Pt(x, y) : x \in Images(w, "x", p.x), y \in Images(w, "y", p.y)}
  <1>. DEFINE i == w.stop.y - (p.y - w.start.y)
              j == w.stop.x - (p.x - w.start.x)
  <1>1. /\ w.start.x \in Int /\ w.start.y \in Int /\ w.stop.x \in Int /\ w.stop.y \in Int
        /\ w.i_stop.x \in Int /\ w.i_stop.y \in Int
        /\ w.stop.x < XDots /\ w.stop.y < YDots /\ XDots \in Int /\ YDots \in Int
        /\ w.symmetry.y = "yes" => w.i_stop.y = (w.start.y + w.stop.y) \div 2
    BY WindowNumbers, Sizes
  <1>2. /\ p.x \in Int /\ p.y \in Int /\ w.start.x <= p.x /\ p.x <= w.i_stop.x
        /\ w.start.y <= p.y /\ p.y <= w.i_stop.y /\ p = Pt(p.x, p.y)
    BY <1>1 DEF Half, Pt
  <1>3. i = w.start.y + w.stop.y - p.y /\ j = w.start.x + w.stop.x - p.x /\ i < YDots /\ j < XDots
    BY <1>1, <1>2
  <1>4. w.symmetry.y = "yes" => i > w.i_stop.y \/ i = p.y
    <2>1. w.start.y + w.stop.y \in Int  BY <1>1
    <2>2. w.symmetry.y = "yes" =>
             /\ 2 * w.i_stop.y <= w.start.y + w.stop.y
             /\ w.start.y + w.stop.y <= 2 * w.i_stop.y + 1
      BY <1>1, <2>1, HalfOf
    <2>. DEFINE n == w.start.y + w.stop.y
    <2>0. w.start.y \in Int /\ w.stop.y \in Int /\ p.y \in Int /\ w.i_stop.y \in Int /\ p.y <= w.i_stop.y
      BY <1>1, <1>2
    <2>3. n \in Int  BY <2>0
    <2>a. i = n - p.y  BY <2>0
    <2>4. i \in Int  BY <2>0
    <2>. HIDE DEF n, i
    <2>. SUFFICES ASSUME w.symmetry.y = "yes"  PROVE i > w.i_stop.y \/ i = p.y
      OBVIOUS
    <2>5. 2 * w.i_stop.y <= n  BY <2>2 DEF n
    <2>. QED  BY <2>0, <2>3, <2>a, <2>4, <2>5, MirrorPlace
  <1>5. w.plot = SP!XYPlot(w)  BY DEF Ready
  <1>6. /\ w.symmetry.x = "yes" => Images(w, "x", p.x) = {p.x, j}
        /\ w.symmetry.x # "yes" => Images(w, "x", p.x) = {p.x}
        /\ w.symmetry.y = "yes" => Images(w, "y", p.y) = {p.y, i}
        /\ w.symmetry.y # "yes" => Images(w, "y", p.y) = {p.y}
    BY <1>3 DEF Images
  <1>. DEFINE over == IF i > w.i_stop.y /\ i < YDots THEN {i} ELSE {}
              aside == IF j < XDots THEN {j} ELSE {}
  <1>7. S!Targets(w, p) =
          CASE w.plot = "put_color"  -> {p}
            [] w.plot = "sym_plot2"  -> {p} \cup {Pt(p.x, y) : y \in over}
            [] w.plot = "sym_plot2y" -> {p} \cup {Pt(x, p.y) : x \in aside}
            [] w.plot = "sym_plot2j" -> {p} \cup (IF (i > w.i_stop.y /\ i < YDots) /\ j < XDots THEN {Pt(j, i)} ELSE {})
            [] w.plot = "sym_plot4"  -> {Pt(x, y) : x \in {p.x} \cup aside, y \in {p.y} \cup over}
    BY DEF S!Targets
  <1>8. aside = {j}  BY <1>3
  <1>9. w.symmetry.y = "yes" => {p.y} \cup over = {p.y, i}  BY <1>3, <1>4
  <1>. HIDE DEF i, j, over, aside
  <1>10. CASE w.symmetry.x = "yes" /\ w.symmetry.y = "yes"
    <2>1. w.plot = "sym_plot4"  BY <1>5, <1>10 DEF SP!XYPlot
    <2>2. S!Targets(w, p) = {Pt(x, y) : x \in {p.x} \cup aside, y \in {p.y} \cup over}
      BY <1>7, <2>1
    <2>3. {p.x} \cup aside = Images(w, "x", p.x) /\ {p.y} \cup over = Images(w, "y", p.y)
      BY <1>6, <1>8, <1>9, <1>10
    <2>. QED  BY <2>2, <2>3
  <1>11. CASE w.symmetry.x # "yes" /\ w.symmetry.y = "yes"
    <2>1. w.plot = "sym_plot2"  BY <1>5, <1>11 DEF SP!XYPlot
    <2>2. S!Targets(w, p) = {p} \cup {Pt(p.x, y) : y \in over}
      BY <1>7, <2>1
    <2>3. S!Targets(w, p) = {Pt(p.x, y) : y \in {p.y} \cup over}  BY <1>2, <2>2
    <2>4. Images(w, "x", p.x) = {p.x} /\ {p.y} \cup over = Images(w, "y", p.y)
      BY <1>6, <1>9, <1>11
    <2>5. S!Targets(w, p) = {Pt(p.x, y) : y \in Images(w, "y", p.y)}  BY <2>3, <2>4
    <2>. QED  BY <2>4, <2>5
  <1>12. CASE w.symmetry.x = "yes" /\ w.symmetry.y # "yes"
    <2>1. w.plot = "sym_plot2y"  BY <1>5, <1>12 DEF SP!XYPlot
    <2>2. S!Targets(w, p) = {p} \cup {Pt(x, p.y) : x \in aside}
      BY <1>7, <2>1
    <2>3. S!Targets(w, p) = {Pt(x, p.y) : x \in {p.x} \cup aside}  BY <1>2, <2>2
    <2>4. Images(w, "y", p.y) = {p.y} /\ {p.x} \cup aside = Images(w, "x", p.x)
      BY <1>6, <1>8, <1>12
    <2>5. S!Targets(w, p) = {Pt(x, p.y) : x \in Images(w, "x", p.x)}  BY <2>3, <2>4
    <2>. QED  BY <2>4, <2>5
  <1>13. CASE w.symmetry.x # "yes" /\ w.symmetry.y # "yes"
    <2>1. w.plot = "put_color"  BY <1>5, <1>13 DEF SP!XYPlot
    <2>2. S!Targets(w, p) = {p}  BY <1>7, <2>1
    <2>3. Images(w, "y", p.y) = {p.y} /\ Images(w, "x", p.x) = {p.x}  BY <1>6, <1>13
    <2>. QED  BY <1>2, <2>2, <2>3
  <1>. QED  BY <1>10, <1>11, <1>12, <1>13

\* What is plotted comes from the pixel that is calculated.
LEMMA TargetsSource ==
    ASSUME NEW w, Ready(w), NEW p \in Half(w), NEW t \in S!Targets(w, p)
    PROVE  t \in Area(w) /\ Source(w, t) = p
  <1>1. PICK x \in Images(w, "x", p.x), y \in Images(w, "y", p.y) : t = Pt(x, y)
    BY PlotImages
  <1>2. /\ w.start.x \in Int /\ w.start.y \in Int /\ w.stop.x \in Int /\ w.stop.y \in Int
        /\ w.i_stop.x \in Int /\ w.i_stop.y \in Int
    BY WindowNumbers
  <1>3. /\ p.x \in Int /\ p.y \in Int /\ w.start.x <= p.x /\ p.x <= w.i_stop.x
        /\ w.start.y <= p.y /\ p.y <= w.i_stop.y /\ p = Pt(p.x, p.y)
    BY <1>2 DEF Half, Pt
  <1>4. /\ x \in Int /\ w.start.x <= x /\ x <= w.stop.x /\ Fold(w, "x", x) = p.x
        /\ y \in Int /\ w.start.y <= y /\ y <= w.stop.y /\ Fold(w, "y", y) = p.y
    BY <1>3, FoldImages
  <1>5. t \in Points /\ t.x = x /\ t.y = y  BY <1>1, <1>4, PointOf
  <1>6. IsFrame(w)  BY DEF Ready, IsWindow, IsFrame
  <1>7. t \in Area(w)  BY <1>4, <1>5, <1>6, InArea
  <1>. QED  BY <1>3, <1>4, <1>5, <1>7 DEF Source

\* The pixel that another comes from is in the half, and its plot is the right one there.
LEMMA SourcePlotted ==
    ASSUME axis \in Points, Sym # "ORIGIN", NEW w, Ready(w), NEW q \in Area(w),
           NEW p, p = Source(w, q)
    PROVE  p \in Half(w) /\ q \in Right(w, p) /\ p \in Points /\ p.x \in Int /\ p.y \in Int
  <1>1. /\ w.start.x \in Int /\ w.start.y \in Int /\ w.stop.x \in Int /\ w.stop.y \in Int
        /\ w.i_stop.x \in Int /\ w.i_stop.y \in Int
    BY WindowNumbers
  <1>2. IsFrame(w) /\ IsWindow(w)  BY DEF Ready, IsWindow, IsFrame
  <1>3. /\ q \in Points /\ q.x \in Int /\ q.y \in Int /\ q = Pt(q.x, q.y)
        /\ w.start.x <= q.x /\ q.x <= w.stop.x /\ w.start.y <= q.y /\ q.y <= w.stop.y
    BY <1>2, InArea DEF Points, Pt
  <1>4. /\ p.x = Fold(w, "x", q.x) /\ p.y = Fold(w, "y", q.y) /\ p = Pt(p.x, p.y)
    BY DEF Source, Pt
  <1>5. /\ p.x \in Int /\ w.start.x <= p.x /\ p.x <= w.i_stop.x /\ q.x \in Images(w, "x", p.x)
        /\ p.y \in Int /\ w.start.y <= p.y /\ p.y <= w.i_stop.y /\ q.y \in Images(w, "y", p.y)
    BY <1>3, <1>4, FoldImages
  <1>6. p \in Half(w)  BY <1>1, <1>4, <1>5 DEF Half, Pt
  <1>7. q \in S!Targets(w, p)
    <2>1. Pt(q.x, q.y) \in {Pt(x, y) : x \in Images(w, "x", p.x), y \in Images(w, "y", p.y)}
      BY <1>5
    <2>. QED  BY <1>3, <1>6, <2>1, PlotImages
  <1>8. q \in S!SameColour(p)
    <2>1. ASSUME NEW d \in {"x", "y"}, w.symmetry[d] = "yes", NEW c \in Int
          PROVE  S!Across(d, c) = w.start[d] + w.stop[d] - c /\ d \in Axes
      <3>1. d \in Axes /\ w.start[d] + w.stop[d] = Centre(axis, d)
        BY <2>1 DEF Ready, ReadyDirection, Dirs
      <3>2. axis[d] \in Int  BY <2>1 DEF Points
      <3>. DEFINE b == IF Between[d] THEN 1 ELSE 0
      <3>3. b \in {0, 1} /\ S!Across(d, c) = 2 * axis[d] - c + b /\ Centre(axis, d) = 2 * axis[d] + b
        BY DEF S!Across, Centre
      <3>. HIDE DEF b
      <3>4. w.start[d] + w.stop[d] = 2 * axis[d] + b  BY <3>1, <3>3
      <3>5. 2 * axis[d] - c + b = (w.start[d] + w.stop[d]) - c  BY <2>1, <3>2, <3>3, <3>4
      <3>6. w.start[d] \in Int /\ w.stop[d] \in Int  BY <2>1, WindowNumbers
      <3>7. (w.start[d] + w.stop[d]) - c = w.start[d] + w.stop[d] - c  BY <2>1, <3>6
      <3>. QED  BY <3>1, <3>3, <3>5, <3>7
    <2>. DEFINE x == S!Across("x", p.x)
                y == S!Across("y", p.y)
    <2>2. S!SameColour(p) = {p} \cup CASE Sym = "NONE"    -> {}
                                       [] Sym = "X_AXIS"  -> {Pt(p.x, y)}
                                       [] Sym = "Y_AXIS"  -> {Pt(x, p.y)}
                                       [] Sym = "XY_AXIS" -> {Pt(p.x, y), Pt(x, p.y), Pt(x, y)}
                                       [] Sym = "ORIGIN"  -> {Pt(x, y)}
      BY DEF S!SameColour
    <2>3. (q.x = x /\ "x" \in Axes) \/ q.x = p.x  BY <1>5, <2>1 DEF Images
    <2>4. (q.y = y /\ "y" \in Axes) \/ q.y = p.y  BY <1>5, <2>1 DEF Images
    <2>. HIDE DEF x, y
    <2>5. Sym \in {"NONE", "X_AXIS", "Y_AXIS", "XY_AXIS"}
      BY Sizes DEF SP!SymmetryKinds
    <2>6. CASE Sym = "NONE"  BY <1>3, <1>4, <2>2, <2>3, <2>4, <2>6 DEF Axes
    <2>7. CASE Sym = "X_AXIS"  BY <1>3, <1>4, <2>2, <2>3, <2>4, <2>7 DEF Axes
    <2>8. CASE Sym = "Y_AXIS"  BY <1>3, <1>4, <2>2, <2>3, <2>4, <2>8 DEF Axes
    <2>9. CASE Sym = "XY_AXIS"  BY <1>3, <1>4, <2>2, <2>3, <2>4, <2>9 DEF Axes
    <2>. QED  BY <2>5, <2>6, <2>7, <2>8, <2>9
  <1>9. p \in Points  BY <1>4, <1>5, PointOf
  <1>. QED  BY <1>5, <1>6, <1>7, <1>8, <1>9 DEF Right

\* The window writes only what it has open.
LEMMA WrittenOpen ==
    ASSUME NEW w, Ready(w), NEW pixels, pixels \subseteq Calculated(w)
    PROVE  Written(w, pixels) \subseteq Open(w)
  <1>1. ASSUME NEW p \in Calculated(w), NEW c \in {p} \cup Copies(w, p)
        PROVE  c \in Half(w) /\ Ahead(w, c)
    <2>0. /\ w.start.x \in Int /\ w.start.y \in Int /\ w.i_stop.x \in Int /\ w.i_stop.y \in Int
      BY WindowNumbers
    <2>1. /\ p \in Half(w) /\ AtOrAfter(p, w.begin) /\ (LastOfTwo(w) => ~(Even(p.x) /\ Even(p.y)))
      BY DEF Calculated
    <2>2. /\ p.x \in Int /\ p.y \in Int /\ w.start.x <= p.x /\ p.x <= w.i_stop.x
          /\ w.start.y <= p.y /\ p.y <= w.i_stop.y /\ p = Pt(p.x, p.y)
      BY <2>0, <2>1 DEF Half, Pt
    <2>3. CASE c = p  BY <2>1, <2>3 DEF Ahead, Odd
    <2>4. CASE c # p
      <3>1. /\ c \in {Pt(p.x, p.y + 1), Pt(p.x + 1, p.y), Pt(p.x + 1, p.y + 1)}
            /\ c.y > p.y => CopiesDown(w, p)
            /\ c.x > p.x => CopiesRight(w, p)
        BY <1>1, <2>4 DEF Copies
      <3>2. /\ \/ c.x = p.x /\ c.y = p.y + 1
               \/ c.x = p.x + 1 /\ c.y = p.y
               \/ c.x = p.x + 1 /\ c.y = p.y + 1
            /\ c = Pt(c.x, c.y)
        BY <3>1 DEF Pt
      <3>3. /\ c.x \in Int /\ c.y \in Int
            /\ c.y > p.y => c.y = p.y + 1 /\ CopiesDown(w, p)
            /\ c.x > p.x => c.x = p.x + 1 /\ CopiesRight(w, p)
            /\ c.y > p.y \/ c.x > p.x
            /\ c.y = p.y \/ c.y = p.y + 1
            /\ c.x = p.x \/ c.x = p.x + 1
        BY <2>2, <3>1, <3>2
      <3>4. FirstPass(w)  BY <3>3 DEF CopiesDown, CopiesRight
      <3>5. Odd(c)
        <4>1. c.y > p.y => ~Even(c.y)  BY <2>2, <3>3 DEF CopiesDown, Even
        <4>2. c.x > p.x => ~Even(c.x)  BY <2>2, <3>3 DEF CopiesRight, Even
        <4>. QED  BY <3>3, <4>1, <4>2 DEF Odd
      <3>6. /\ w.start.x <= c.x /\ c.x <= w.i_stop.x /\ w.start.y <= c.y /\ c.y <= w.i_stop.y
        <4>1. c.y > p.y => p.y < w.i_stop.y  BY <3>3 DEF CopiesDown
        <4>2. c.x > p.x => p.x < w.i_stop.x  BY <3>3 DEF CopiesRight
        <4>. QED  BY <2>0, <2>2, <3>3, <4>1, <4>2
      <3>7. c \in Half(w)  BY <2>0, <3>2, <3>3, <3>6 DEF Half, Pt
      <3>. QED  BY <3>4, <3>5, <3>7 DEF Ahead
    <2>. QED  BY <2>3, <2>4
  <1>2. ASSUME NEW p \in pixels, NEW c \in {p} \cup Copies(w, p), NEW t \in S!Targets(w, c)
        PROVE  t \in Open(w)
    <2>1. c \in Half(w) /\ Ahead(w, c)  BY <1>1
    <2>2. t \in Area(w) /\ Source(w, t) = c  BY <2>1, TargetsSource
    <2>. QED  BY <2>1, <2>2 DEF Open
  <1>. QED  BY <1>2 DEF Written

\* The list is empty, or does not have to be kept clear of what is not there.
LEMMA EmptyFits == ASSUME NEW f, NEW R, NEW ax  PROVE <<>> \in FitTables(f, R, ax)
  <1>. DEFINE l == <<>>
  <1>1. l \in Seq(Entries) /\ Len(l) = 0  OBVIOUS
  <1>. HIDE DEF l
  <1>2. 1 .. Len(l) = {} /\ Len(l) <= MaxCalcWork  BY <1>1, Sizes
  <1>3. l \in Tables(f, R)  BY <1>1, <1>2, InTable
  <1>4. l \in FitTables(f, R, ax)  BY <1>2, <1>3 DEF FitTables
  <1>. QED  BY <1>4 DEF l

\* What is open is pending.
LEMMA PendingOpen ==
    ASSUME Sym # "ORIGIN", axis \in Points, NEW e \in Framed(WholeScreen), Fits(axis, e)
    PROVE  Open(e) \subseteq PendingOf(e)
  <1>. DEFINE c == S!SetSymmetry(S!Window(e), <<>>)
              w == c.win
  <1>1. IsCut(e, <<>>, c)  BY EmptyFits, CutFits
  <1>. HIDE DEF c
  <1>2. /\ Ready(w) /\ c.list \in FitTables(WholeScreen, Area(w), axis)
        /\ Open(e) \subseteq Open(w) \cup CoveredBy(Opens, c.list)
    BY <1>1 DEF IsCut
  <1>3. c.list \in Seq(Entries)  BY <1>2, InTable DEF FitTables
  <1>4. ASSUME NEW q \in CoveredBy(Opens, c.list)
        PROVE  \E k \in 1 .. Len(c.list) : q \in Rectangle(c.list[k])
    <2>1. PICK k \in 1 .. Len(c.list) : q \in Open(c.list[k])  BY <1>3, <1>4, CoveredOpen
    <2>. QED  BY <2>1, SameTables DEF Open
  <1>5. ASSUME NEW q \in Open(w)  PROVE \E p \in Due(w) : q \in Right(w, p)
    <2>. DEFINE p == Source(w, q)
    <2>1. q \in Area(w) /\ Ahead(w, p)  BY <1>5 DEF Open
    <2>2. p \in Half(w) /\ q \in Right(w, p)  BY <1>2, <2>1, SourcePlotted
    <2>. HIDE DEF p, w
    <2>3. p \in Due(w)  BY <2>1, <2>2 DEF Due, Ahead, Odd
    <2>. QED  BY <2>2, <2>3
  <1>6. PendingOf(e) = (UNION {Right(w, p) : p \in Due(w)})
                       \cup (UNION {Rectangle(c.list[k]) : k \in 1 .. Len(c.list)})
    BY DEF PendingOf, c
  <1>. HIDE DEF w
  <1>. QED  BY <1>2, <1>4, <1>5, <1>6

\* An entry that fits goes back on the list where nothing else is.
LEMMA PutBackFits ==
    ASSUME NEW R, NEW l \in FitTables(WholeScreen, R, axis), ~ListFull(l),
           NEW e \in Framed(WholeScreen), Area(e) \subseteq R, Fits(axis, e)
    PROVE  /\ AddWorkList(l, e) \in FitTables(WholeScreen, {}, axis)
           /\ CoveredBy(Opens, l) \cup Open(e) \subseteq CoveredBy(Opens, AddWorkList(l, e))
  <1>1. l \in FitTables(WholeScreen, {}, axis)  BY LessClear DEF FitTables
  <1>2. e \in Clear(WholeScreen, {})  BY DEF Clear
  <1>3. \A k \in 1 .. Len(l) : Area(l[k]) \cap Area(e) = {}  BY InTable DEF Clear, FitTables
  <1>. QED  BY <1>1, <1>2, <1>3, ScreenFrame, AddFits

\* The front entry, and what is behind it.
LEMMA FrontFits ==
    ASSUME NEW l \in FitTables(WholeScreen, {}, axis), l # <<>>
    PROVE  /\ Head(l) \in Framed(WholeScreen) /\ Fits(axis, Head(l))
           /\ PopWorkListFront(l) \in FitTables(WholeScreen, Area(Head(l)), axis)
           /\ Len(PopWorkListFront(l)) < MaxCalcWork
           /\ CoveredBy(Opens, l) \subseteq Open(Head(l)) \cup CoveredBy(Opens, PopWorkListFront(l))
  <1>. DEFINE t == Tail(l)
  <1>1. /\ l \in Seq(Entries) /\ Len(l) <= MaxCalcWork /\ l \in Tables(WholeScreen, {})
        /\ \A k \in 1 .. Len(l) : Fits(axis, l[k])
    BY InTable DEF FitTables
  <1>2. Head(l) \in Framed(WholeScreen) /\ t \in Tables(WholeScreen, Area(Head(l)))
    BY <1>1, FrontApart DEF PopWorkListFront
  <1>3. /\ t \in Seq(Entries) /\ Len(t) = Len(l) - 1 /\ Head(l) = l[1] /\ Len(l) \in Nat /\ Len(l) >= 1
        /\ \A k \in 1 .. Len(t) : t[k] = l[k + 1] /\ k + 1 \in 1 .. Len(l)
        /\ \A k \in 1 .. Len(l) : k # 1 => k - 1 \in 1 .. Len(t)
    BY <1>1
  <1>. HIDE DEF t
  <1>4. Fits(axis, Head(l))  BY <1>1, <1>3
  <1>5. t \in FitTables(WholeScreen, Area(Head(l)), axis)  BY <1>1, <1>2, <1>3 DEF FitTables
  <1>6. Len(t) < MaxCalcWork  BY <1>1, <1>3, Sizes
  <1>7. ASSUME NEW q \in CoveredBy(Opens, l), q \notin Open(Head(l))
        PROVE  q \in CoveredBy(Opens, t)
    <2>1. PICK k \in 1 .. Len(l) : q \in Open(l[k])  BY <1>1, <1>7, CoveredOpen
    <2>2. k # 1  BY <1>3, <1>7, <2>1
    <2>3. k - 1 \in 1 .. Len(t) /\ t[k - 1] = l[k]
      <3>1. k - 1 \in 1 .. Len(t)  BY <1>3, <2>2
      <3>2. (k - 1) + 1 = k  OBVIOUS
      <3>. QED  BY <1>3, <3>1, <3>2
    <2>. QED  BY <1>3, <2>1, <2>3, CoveredOpen
  <1>. QED  BY <1>2, <1>4, <1>5, <1>6, <1>7 DEF PopWorkListFront, t

\* What set_symmetry cuts off leaves a place for the window itself.
LEMMA CutRoom ==
    ASSUME axis \in Points, NEW e \in Entries, NEW l \in Seq(Entries), Len(l) < MaxCalcWork,
           NEW c, c = S!SetSymmetry(S!Window(e), l), c.list \in Seq(Entries)
    PROVE  ~ListFull(c.list)
  <1>1. axis \in [x : Int, y : Int]  BY DEF Points
  <1>2. SP!Window(e) \in SP!Windows  BY SameTables, SP!WindowType, Sizes, <1>1
  <1>3. l \in SP!Lists  BY SameTables, Sizes DEF SP!Lists
  <1>4. SP!LeavesRoom(l, c.list)
    <2>1. SP!LeavesRoom(l, SP!SetSymmetry(SP!Window(e), l).list)
      BY <1>1, <1>2, <1>3, Sizes, SP!SetSymmetryType
    <2>. QED  BY <2>1, SameSetSymmetry
  <1>5. Len(c.list) < MaxCalcWork  BY <1>4 DEF SP!LeavesRoom
  <1>. QED  BY <1>5, Sizes DEF ListFull

\* Entry n stands for what window w has open when the pixels have been calculated.
GivesBack(w, pixels, n) ==
    /\ n \in Framed(WholeScreen) /\ Fits(axis, n) /\ Area(n) \subseteq Area(w)
    /\ \A q \in Open(w) : (\E p \in pixels : q \in Right(w, p)) \/ q \in Open(n)

\* Rows of the window that keep its axes fit.
LEMMA RowsFit ==
    ASSUME NEW w, Ready(w), NEW n \in Entries, n.symmetry = w.symmetry,
           n.start.x = w.start.x, n.stop.x = w.stop.x,
           w.symmetry.y = "yes" => n.start.y + n.stop.y = w.start.y + w.stop.y,
           TwoPasses => n.pass \in {0, 1}, n.start.y <= n.begin.y
    PROVE  /\ Fits(axis, n)
           /\ \A q \in Points : Source(n, q) = Source(w, q)
  <1>1. ReadyDirection(w, "x") /\ ReadyDirection(w, "y")  BY DEF Ready, Dirs
  <1>2. \A d \in Axes : n.symmetry[d] \in {"yes", "no"}
    <2>1. Axes \subseteq {"x", "y"}  BY DEF Axes
    <2>. QED  BY <1>1, <2>1 DEF ReadyDirection
  <1>3. ~New(n, "x") /\ ~New(n, "y")  BY <1>2 DEF New
  <1>4. Middle(axis, n, "x") /\ Middle(axis, n, "y")  BY <1>1 DEF Middle, ReadyDirection
  <1>5. ASSUME NEW q \in Points  PROVE Source(n, q) = Source(w, q)
    <2>1. Fold(n, "x", q.x) = Fold(w, "x", q.x)  BY DEF Fold
    <2>2. Fold(n, "y", q.y) = Fold(w, "y", q.y)
      <3>1. CASE w.symmetry.y = "yes"
        <4>1. /\ w.start.y \in Int /\ w.stop.y \in Int /\ n.start.y \in Int /\ n.stop.y \in Int
              /\ q.y \in Int
          BY <1>5, WindowNumbers, EntryNumbers DEF Points
        <4>2. w.start.y + (w.stop.y - q.y) = n.start.y + (n.stop.y - q.y)  BY <3>1, <4>1
        <4>. QED  BY <3>1, <4>2 DEF Fold
      <3>2. CASE w.symmetry.y # "yes"  BY <3>2 DEF Fold
      <3>. QED  BY <3>1, <3>2
    <2>. QED  BY <2>1, <2>2 DEF Source
  <1>. QED  BY <1>3, <1>4, <1>5 DEF Fits

LEMMA AreaPoints ==
    ASSUME NEW w, IsWindow(w), NEW q \in Area(w)  PROVE q \in Points
  <1>1. IsFrame(w)  BY DEF IsWindow, IsFrame
  <1>. QED  BY <1>1, InArea

LEMMA InWindow ==
    ASSUME NEW w, Ready(w), NEW p \in Half(w)
    PROVE  /\ p \in Points /\ p.x \in Int /\ p.y \in Int
           /\ w.start.x <= p.x /\ p.x <= w.i_stop.x /\ w.start.y <= p.y /\ p.y <= w.i_stop.y
  <1>1. /\ w.start.x \in Int /\ w.start.y \in Int /\ w.i_stop.x \in Int /\ w.i_stop.y \in Int
    BY WindowNumbers
  <1>. QED  BY <1>1 DEF Half, Points

\* Of an open pixel: where it comes from.
LEMMA OpenSource ==
    ASSUME axis \in Points, Sym # "ORIGIN", NEW w, Ready(w), NEW q \in Open(w),
           NEW p, p = Source(w, q)
    PROVE  /\ q \in Area(w) /\ Ahead(w, p) /\ p \in Half(w) /\ q \in Right(w, p)
           /\ FirstPass(w) => Odd(p) \/ p \in Calculated(w)
           /\ ~FirstPass(w) => p \in Calculated(w)
  <1>1. q \in Area(w) /\ Ahead(w, p)  BY DEF Open
  <1>2. p \in Half(w) /\ q \in Right(w, p)  BY <1>1, SourcePlotted
  <1>3. CASE FirstPass(w)
    <2>1. ~LastOfTwo(w)  BY <1>3 DEF FirstPass, LastOfTwo
    <2>. QED  BY <1>1, <1>2, <1>3, <2>1 DEF Ahead, Odd, Calculated
  <1>4. CASE ~FirstPass(w)  BY <1>1, <1>2, <1>4 DEF Ahead, Odd, Calculated
  <1>. QED  BY <1>1, <1>2, <1>3, <1>4

\* An item that has done the first pass.
LEMMA SecondPassGives ==
    ASSUME axis \in Points, Sym # "ORIGIN", NEW w, Ready(w), FirstPass(w),
           NEW n, n = Entry(w.start, w.stop, w.start, 1, w.symmetry)
    PROVE  GivesBack(w, Calculated(w), n)
  <1>1. /\ w.start.x \in Int /\ w.start.y \in Int /\ w.i_stop.x \in Int /\ w.i_stop.y \in Int
        /\ w.start.x <= w.i_stop.x /\ w.start.y <= w.i_stop.y /\ w.start \in Points /\ IsWindow(w)
    BY WindowNumbers DEF Ready, IsWindow
  <1>2. w.start \in Half(w)  BY <1>1 DEF Half, Points
  <1>3. n \in Framed(WholeScreen) /\ Area(n) \subseteq Area(w) /\ n \in Entries
    BY <1>1, <1>2, WindowBack DEF Framed
  <1>4. /\ n.start = w.start /\ n.stop = w.stop /\ n.begin = w.start /\ n.pass = 1
        /\ n.symmetry = w.symmetry
    BY DEF Entry
  <1>5. Fits(axis, n) /\ \A q \in Points : Source(n, q) = Source(w, q)  BY <1>1, <1>3, <1>4, RowsFit
  <1>6. ASSUME NEW q \in Open(w), ~\E p \in Calculated(w) : q \in Right(w, p)
        PROVE  q \in Open(n)
    <2>. DEFINE p == Source(w, q)
    <2>1. q \in Area(w) /\ p \in Half(w) /\ Odd(p)  BY <1>6, OpenSource
    <2>2. q \in Area(n) /\ Source(n, q) = p
      BY <1>1, <1>4, <1>5, <2>1, AreaPoints DEF Area
    <2>. HIDE DEF p
    <2>3. AtOrAfter(p, n.begin)
      <3>1. /\ p.x \in Int /\ p.y \in Int /\ w.start.x <= p.x /\ w.start.y <= p.y
        BY <2>1, InWindow
      <3>. QED  BY <1>1, <1>4, <3>1 DEF AtOrAfter
    <2>4. ~FirstPass(n)  BY <1>4 DEF FirstPass
    <2>. QED  BY <2>1, <2>2, <2>3, <2>4 DEF Open, Ahead
  <1>. QED  BY <1>3, <1>5, <1>6 DEF GivesBack

\* An item that is stopped in the first pass of two.
LEMMA StoppedFirstGives ==
    ASSUME axis \in Points, Sym # "ORIGIN", NEW w, Ready(w), FirstPass(w), NEW at \in Calculated(w),
           NEW n, n = Entry(w.start, w.stop, at, 0, w.symmetry)
    PROVE  GivesBack(w, {p \in Calculated(w) : ~AtOrAfter(p, at)}, n)
  <1>1. at \in Half(w) /\ IsWindow(w)  BY DEF Calculated, Ready
  <1>2. at.x \in Int /\ at.y \in Int /\ w.start.y <= at.y  BY <1>1, InWindow
  <1>3. n \in Framed(WholeScreen) /\ Area(n) \subseteq Area(w) /\ n \in Entries
    BY <1>1, WindowBack DEF Framed
  <1>4. /\ n.start = w.start /\ n.stop = w.stop /\ n.begin = at /\ n.pass = 0
        /\ n.symmetry = w.symmetry
    BY DEF Entry
  <1>5. Fits(axis, n) /\ \A q \in Points : Source(n, q) = Source(w, q)  BY <1>2, <1>3, <1>4, RowsFit
  <1>6. ASSUME NEW q \in Open(w),
               ~\E p \in {r \in Calculated(w) : ~AtOrAfter(r, at)} : q \in Right(w, p)
        PROVE  q \in Open(n)
    <2>. DEFINE p == Source(w, q)
    <2>1. q \in Area(w) /\ q \in Right(w, p) /\ (Odd(p) \/ p \in Calculated(w))  BY OpenSource, <1>6
    <2>2. q \in Area(n) /\ Source(n, q) = p
      BY <1>1, <1>4, <1>5, <2>1, AreaPoints DEF Area
    <2>. HIDE DEF p
    <2>3. Odd(p) \/ AtOrAfter(p, n.begin)  BY <1>4, <1>6, <2>1
    <2>4. FirstPass(n)  BY <1>4 DEF FirstPass
    <2>. QED  BY <2>2, <2>3, <2>4 DEF Open, Ahead
  <1>. QED  BY <1>3, <1>5, <1>6 DEF GivesBack

\* The rows between a row and its mirror image.
LEMMA MirrorRows ==
    ASSUME NEW a \in Int, NEW b \in Int, NEW m \in Int, a <= m, m <= b, m = (a + b) \div 2,
           NEW t \in Int, a <= t, t <= m,
           NEW r, r = IF m # b THEN b - (t - a) ELSE b
    PROVE  /\ r \in Int /\ t + r = a + b
           /\ \A c, p \in Int : a <= p /\ p <= m /\ t <= p /\ (c = p \/ c = a + b - p)
                                    => t <= c /\ c <= r
  <1>1. a + b \in Int  OBVIOUS
  <1>2. 2 * m <= a + b /\ a + b <= 2 * m + 1  BY <1>1, HalfOf
  <1>3. m = b => a = b /\ t = a  BY <1>2
  <1>4. r \in Int /\ t + r = a + b
    <2>1. CASE m # b  BY <2>1
    <2>2. CASE m = b  BY <1>3, <2>2
    <2>. QED  BY <2>1, <2>2
  <1>5. ASSUME NEW c \in Int, NEW p \in Int, a <= p, p <= m, t <= p, c = p \/ c = a + b - p
        PROVE  t <= c /\ c <= r
    <2>1. CASE c = p  BY <1>2, <1>4, <1>5, <2>1
    <2>2. CASE c = a + b - p  BY <1>2, <1>4, <1>5, <2>2
    <2>. QED  BY <1>5, <2>1, <2>2
  <1>. QED  BY <1>4, <1>5

\* An item that is stopped in another pass.
LEMMA StoppedGives ==
    ASSUME axis \in Points, Sym # "ORIGIN", NEW w, Ready(w), ~FirstPass(w), NEW at \in Calculated(w),
           NEW n, n = Entry(Pt(w.start.x, at.y), Pt(w.stop.x, StopRowForResume(w, at.y)), at,
                            w.pass, w.symmetry)
    PROVE  GivesBack(w, {p \in Calculated(w) : ~AtOrAfter(p, at)}, n)
  <1>1. at \in Half(w) /\ IsWindow(w) /\ (TwoPasses => w.pass \in {0, 1})  BY DEF Calculated, Ready
  <1>2. at.x \in Int /\ at.y \in Int /\ w.start.y <= at.y /\ at.y <= w.i_stop.y  BY <1>1, InWindow
  <1>3. n \in Framed(WholeScreen) /\ Area(n) \subseteq Area(w) /\ n \in Entries
    BY <1>1, WindowBack DEF Framed
  <1>4. /\ n.start.x = w.start.x /\ n.start.y = at.y /\ n.stop.x = w.stop.x
        /\ n.stop.y = StopRowForResume(w, at.y)
        /\ n.begin = at /\ n.pass = w.pass /\ n.symmetry = w.symmetry
    BY DEF Entry, Pt
  <1>5. /\ w.start.y \in Int /\ w.stop.y \in Int /\ w.i_stop.y \in Int
        /\ w.start.y <= w.i_stop.y /\ w.i_stop.y <= w.stop.y
        /\ w.symmetry.y = "yes" => w.i_stop.y = (w.start.y + w.stop.y) \div 2
        /\ w.symmetry.y # "yes" => w.i_stop.y = w.stop.y
    BY WindowNumbers
  <1>6. n.stop.y = IF w.i_stop.y # w.stop.y THEN w.stop.y - (at.y - w.start.y) ELSE w.stop.y
    BY <1>4 DEF StopRowForResume
  <1>7. ASSUME w.symmetry.y = "yes"
        PROVE  /\ at.y + n.stop.y = w.start.y + w.stop.y
               /\ \A c, p \in Int : w.start.y <= p /\ p <= w.i_stop.y /\ at.y <= p
                                    /\ (c = p \/ c = w.start.y + w.stop.y - p)
                                    => at.y <= c /\ c <= n.stop.y
    BY <1>2, <1>5, <1>6, <1>7, MirrorRows
  <1>8. Fits(axis, n) /\ \A q \in Points : Source(n, q) = Source(w, q)
    <2>1. w.symmetry.y = "yes" => n.start.y + n.stop.y = w.start.y + w.stop.y  BY <1>4, <1>7
    <2>2. n.start.y <= n.begin.y  BY <1>2, <1>4
    <2>. QED  BY <1>1, <1>3, <1>4, <2>1, <2>2, RowsFit
  <1>9. ASSUME NEW q \in Open(w),
               ~\E p \in {r \in Calculated(w) : ~AtOrAfter(r, at)} : q \in Right(w, p)
        PROVE  q \in Open(n)
    <2>. DEFINE p == Source(w, q)
    <2>1. q \in Area(w) /\ Ahead(w, p) /\ q \in Right(w, p) /\ p \in Calculated(w) /\ p \in Half(w)
      BY OpenSource, <1>9
    <2>2. AtOrAfter(p, at)  BY <1>9, <2>1
    <2>3. /\ IsFrame(w) /\ IsFrame(n)  BY <1>1, <1>3, EntryFrame DEF IsWindow, IsFrame
    <2>4. /\ q \in Points /\ q.x \in Int /\ q.y \in Int /\ w.start.x <= q.x /\ q.x <= w.stop.x
          /\ w.start.y <= q.y /\ q.y <= w.stop.y
      BY <2>1, <2>3, InArea
    <2>5. p.y = Fold(w, "y", q.y)  BY DEF Source, Pt
    <2>. HIDE DEF p
    <2>6. /\ p.x \in Int /\ p.y \in Int /\ w.start.y <= p.y /\ p.y <= w.i_stop.y /\ at.y <= p.y
      BY <1>2, <2>1, <2>2, InWindow DEF AtOrAfter
    <2>7. at.y <= q.y /\ q.y <= n.stop.y
      <3>1. CASE w.symmetry.y = "yes"
        <4>. DEFINE sum == w.start.y + w.stop.y
        <4>1. q.y = p.y \/ p.y = sum - q.y
          <5>1. w.start.y + (w.stop.y - q.y) = sum - q.y  BY <1>5, <2>4
          <5>. QED  BY <2>5, <3>1, <5>1 DEF Fold
        <4>2. sum \in Int  BY <1>5
        <4>. HIDE DEF sum
        <4>3. q.y = p.y \/ q.y = sum - p.y  BY <2>4, <2>6, <4>1, <4>2
        <4>4. sum - p.y = w.start.y + w.stop.y - p.y  BY <1>5, <2>6 DEF sum
        <4>. QED  BY <1>7, <2>4, <2>6, <3>1, <4>3, <4>4
      <3>2. CASE w.symmetry.y # "yes"
        <4>1. q.y = p.y  BY <2>5, <3>2 DEF Fold
        <4>2. n.stop.y = w.stop.y  BY <1>5, <1>6, <3>2
        <4>. QED  BY <2>4, <2>6, <4>1, <4>2
      <3>. QED  BY <3>1, <3>2
    <2>8. q \in Area(n)  BY <1>4, <2>3, <2>4, <2>7, InArea
    <2>9. Source(n, q) = p  BY <1>8, <2>4 DEF p
    <2>10. Ahead(n, p)
      <3>1. ~FirstPass(n) /\ (LastOfTwo(n) <=> LastOfTwo(w))  BY <1>4 DEF FirstPass, LastOfTwo
      <3>. QED  BY <1>4, <2>1, <2>2, <3>1 DEF Ahead
    <2>. QED  BY <2>8, <2>9, <2>10 DEF Open
  <1>. QED  BY <1>3, <1>8, <1>9 DEF GivesBack

\* No pixel is left out, in terms of what the entries have open.
CoverInv == /\ calc_status = "RESUMABLE" =>
                   /\ resume_data \in FitTables(WholeScreen, {}, axis)
                   /\ Screen \subseteq shown \cup CoveredBy(Opens, resume_data)
            /\ calc_status = "COMPLETED" => Screen \subseteq shown

\* The list that the engine works off.
LEMMA ListFits ==
    ASSUME CoverInv, calc_status = "RESUMABLE" => resume_data # <<>>, calc_status # "COMPLETED"
    PROVE  /\ List \in FitTables(WholeScreen, {}, axis) /\ List # <<>>
           /\ Screen \subseteq Old \cup CoveredBy(Opens, List)
  <1>1. CASE calc_status = "RESUMABLE"  BY <1>1 DEF List, Old, CoverInv
  <1>2. CASE calc_status # "RESUMABLE"
    <2>. DEFINE l == <<WholeScreen>>
    <2>1. List = l  BY <1>2 DEF List
    <2>2. l \in Seq(Entries) /\ Len(l) = 1 /\ l[1] = WholeScreen /\ l # <<>>  BY ScreenFrame
    <2>3. WholeScreen \in Clear(WholeScreen, {})
      <3>1. Within(WholeScreen, WholeScreen)  BY ScreenFrame, Sizes DEF Within
      <3>2. WholeScreen.start \in Area(WholeScreen)
        BY ScreenFrame, InArea, Sizes DEF IsFrame
      <3>. QED  BY <3>1, <3>2, ScreenFrame DEF Clear, Framed
    <2>. HIDE DEF l
    <2>4. 1 \in 1 .. Len(l) /\ \A k \in 1 .. Len(l) : k = 1  BY <2>2
    <2>5. /\ Len(l) <= MaxCalcWork
          /\ \A k \in 1 .. Len(l) : l[k] \in Clear(WholeScreen, {})
          /\ \A i, j \in 1 .. Len(l) : i # j => Area(l[i]) \cap Area(l[j]) = {}
      BY <2>2, <2>3, <2>4, Sizes
    <2>6. l \in Tables(WholeScreen, {})  BY <2>2, <2>5, InTable
    <2>7. Fits(axis, WholeScreen) /\ Open(WholeScreen) = Area(WholeScreen)
      <3>1. /\ WholeScreen.pass = 0 /\ WholeScreen.symmetry = Undecided
        BY DEF WholeScreen, S!WholeScreen, S!Entry, Entry, S!Undecided, Undecided
      <3>. QED  BY <3>1, ScreenFrame, FreshFits
    <2>8. l \in FitTables(WholeScreen, {}, axis)  BY <2>2, <2>4, <2>6, <2>7 DEF FitTables
    <2>9. ASSUME NEW q \in Screen  PROVE q \in CoveredBy(Opens, l)
      <3>1. q \in Area(WholeScreen)  BY ScreenFrame, InArea, OnScreen, Sizes
      <3>. QED  BY <2>2, <2>4, <2>7, <3>1, CoveredOpen
    <2>. QED  BY <2>1, <2>2, <2>8, <2>9
  <1>. QED  BY <1>1, <1>2

\* A window goes back on the list: nothing is lost.
LEMMA BackCovers ==
    ASSUME NEW w, Ready(w), NEW l \in FitTables(WholeScreen, Area(w), axis), ~ListFull(l),
           Screen \subseteq Old \cup Open(w) \cup CoveredBy(Opens, l),
           NEW pixels, pixels \subseteq Calculated(w), NEW n, GivesBack(w, pixels, n)
    PROVE  /\ AddWorkList(l, n) \in FitTables(WholeScreen, {}, axis)
           /\ Screen \subseteq Plotted(w, pixels) \cup CoveredBy(Opens, AddWorkList(l, n))
  <1>1. /\ n \in Framed(WholeScreen) /\ Fits(axis, n) /\ Area(n) \subseteq Area(w)
        /\ \A q \in Open(w) : (\E p \in pixels : q \in Right(w, p)) \/ q \in Open(n)
    BY DEF GivesBack
  <1>. DEFINE after == AddWorkList(l, n)
  <1>2. /\ after \in FitTables(WholeScreen, {}, axis)
        /\ CoveredBy(Opens, l) \cup Open(n) \subseteq CoveredBy(Opens, after)
    BY <1>1, PutBackFits
  <1>. HIDE DEF after
  <1>3. Written(w, pixels) \subseteq Open(w)  BY WrittenOpen
  <1>4. ASSUME NEW q \in Screen  PROVE q \in Plotted(w, pixels) \cup CoveredBy(Opens, after)
    <2>1. CASE q \in Open(w)
      <3>1. CASE \E p \in pixels : q \in Right(w, p)  BY <3>1 DEF Plotted
      <3>2. CASE q \in Open(n)  BY <1>2, <3>2
      <3>. QED  BY <1>1, <2>1, <3>1, <3>2
    <2>2. CASE q \notin Open(w) /\ q \in Old  BY <1>3, <2>2 DEF Plotted
    <2>3. CASE q \in CoveredBy(Opens, l)  BY <1>2, <2>3
    <2>. QED  BY <1>4, <2>1, <2>2, <2>3
  <1>. QED  BY <1>2, <1>4 DEF after

\* The engine, one item at a time, leaves no pixel out, and plots over none that is finished.
LEMMA CalculateCovers ==
    ASSUME Sym # "ORIGIN", axis \in Points, CoverInv,
           calc_status = "RESUMABLE" => resume_data # <<>>, Calculate
    PROVE  /\ calc_status' = "RESUMABLE" =>
                 /\ resume_data' \in FitTables(WholeScreen, {}, axis)
                 /\ Screen \subseteq shown' \cup CoveredBy(Opens, resume_data')
           /\ calc_status' = "COMPLETED" => Screen \subseteq shown'
           /\ Old \ Open(Head(List)) \subseteq shown'
  <1>. DEFINE cut == Cut
              w == cut.win
              e == Head(List)
              t == PopWorkListFront(List)
  <1>1. calc_status # "COMPLETED"  BY DEF Calculate
  <1>2. /\ List \in FitTables(WholeScreen, {}, axis) /\ List # <<>>
        /\ Screen \subseteq Old \cup CoveredBy(Opens, List)
    BY <1>1, ListFits
  <1>3. /\ e \in Framed(WholeScreen) /\ Fits(axis, e)
        /\ t \in FitTables(WholeScreen, Area(e), axis) /\ Len(t) < MaxCalcWork
        /\ CoveredBy(Opens, List) \subseteq Open(e) \cup CoveredBy(Opens, t)
    BY <1>2, FrontFits
  <1>4. cut = S!SetSymmetry(S!Window(e), t)  BY DEF Cut
  <1>5. \/ FinishItem(w, cut.list)
        \/ \E at \in Screen : StopItem(w, cut.list, at)
    BY DEF Calculate
  <1>. HIDE DEF cut, e, t
  <1>6. IsCut(e, t, cut)  BY <1>3, <1>4, CutFits
  <1>7. /\ Ready(w) /\ cut.list \in FitTables(WholeScreen, Area(w), axis)
        /\ Open(e) \cup CoveredBy(Opens, t) \subseteq Open(w) \cup CoveredBy(Opens, cut.list)
        /\ Open(w) \subseteq Open(e)
    BY <1>6 DEF IsCut
  <1>8. ~ListFull(cut.list)
    <2>1. /\ cut.list \in Seq(Entries) /\ t \in Seq(Entries) /\ e \in Entries
      BY <1>3, <1>7, InTable DEF FitTables, Framed
    <2>. QED  BY <1>3, <1>4, <2>1, CutRoom
  <1>. HIDE DEF w
  <1>9. Screen \subseteq Old \cup Open(w) \cup CoveredBy(Opens, cut.list)
    BY <1>2, <1>3, <1>7
  <1>. DEFINE Goal == /\ calc_status' = "RESUMABLE" =>
                            /\ resume_data' \in FitTables(WholeScreen, {}, axis)
                            /\ Screen \subseteq shown' \cup CoveredBy(Opens, resume_data')
                      /\ calc_status' = "COMPLETED" => Screen \subseteq shown'
                      /\ Old \ Open(e) \subseteq shown'
  <1>10. ASSUME NEW pixels, pixels \subseteq Calculated(w), shown' = Plotted(w, pixels)
         PROVE  Old \ Open(e) \subseteq shown'
    BY <1>7, <1>10, WrittenOpen DEF Plotted
  <1>11. ASSUME NEW pixels, pixels \subseteq Calculated(w), shown' = Plotted(w, pixels),
                NEW n, GivesBack(w, pixels, n), resume_data' = AddWorkList(cut.list, n),
                calc_status' = "COMPLETED" => resume_data' = <<>>
         PROVE  Goal
    <2>1. /\ resume_data' \in FitTables(WholeScreen, {}, axis)
          /\ Screen \subseteq shown' \cup CoveredBy(Opens, resume_data')
      <3>1. /\ AddWorkList(cut.list, n) \in FitTables(WholeScreen, {}, axis)
            /\ Screen \subseteq Plotted(w, pixels) \cup CoveredBy(Opens, AddWorkList(cut.list, n))
        BY <1>7, <1>8, <1>9, <1>11, BackCovers
      <3>. QED  BY <1>11, <3>1
    <2>2. resume_data' = <<>> => CoveredBy(Opens, resume_data') = {}  BY DEF CoveredBy
    <2>. QED  BY <1>10, <1>11, <2>1, <2>2
  <1>12. ASSUME FinishItem(w, cut.list)  PROVE Goal
    <2>1. CASE FirstPass(w)
      <3>. DEFINE n == Entry(w.start, w.stop, w.start, 1, w.symmetry)
      <3>1. /\ shown' = Plotted(w, Calculated(w)) /\ resume_data' = AddWorkList(cut.list, n)
            /\ calc_status' = "COMPLETED" => resume_data' = <<>>
        BY <1>12, <2>1 DEF FinishItem
      <3>2. GivesBack(w, Calculated(w), n)  BY <1>7, <2>1, SecondPassGives
      <3>. HIDE DEF n, Goal
      <3>. QED  BY <1>11, <3>1, <3>2
    <2>2. CASE ~FirstPass(w)
      <3>1. /\ shown' = Plotted(w, Calculated(w)) /\ resume_data' = cut.list
            /\ calc_status' = "COMPLETED" => resume_data' = <<>>
        BY <1>12, <2>2 DEF FinishItem
      <3>2. cut.list \in FitTables(WholeScreen, {}, axis)  BY <1>7, LessClear DEF FitTables
      <3>3. ASSUME NEW q \in Screen  PROVE q \in Plotted(w, Calculated(w)) \cup CoveredBy(Opens, cut.list)
        <4>1. Written(w, Calculated(w)) \subseteq Open(w)  BY <1>7, WrittenOpen
        <4>2. CASE q \in Open(w)
          <5>. DEFINE p == Source(w, q)
          <5>1. p \in Calculated(w) /\ q \in Right(w, p)  BY <1>7, <2>2, <4>2, OpenSource
          <5>. HIDE DEF p
          <5>. QED  BY <5>1 DEF Plotted
        <4>3. CASE q \notin Open(w)  BY <1>9, <4>1, <4>3 DEF Plotted
        <4>. QED  BY <4>2, <4>3
      <3>4. Screen \subseteq shown' \cup CoveredBy(Opens, resume_data')  BY <3>1, <3>3
      <3>5. resume_data' = <<>> => CoveredBy(Opens, resume_data') = {}  BY DEF CoveredBy
      <3>6. Old \ Open(e) \subseteq shown'  BY <1>10, <3>1
      <3>. QED  BY <3>1, <3>2, <3>4, <3>5, <3>6
    <2>. QED  BY <2>1, <2>2
  <1>13. ASSUME NEW at \in Screen, StopItem(w, cut.list, at)  PROVE Goal
    <2>. DEFINE pixels == {p \in Calculated(w) : ~AtOrAfter(p, at)}
                first == Entry(w.start, w.stop, at, 0, w.symmetry)
                other == Entry(Pt(w.start.x, at.y), Pt(w.stop.x, StopRowForResume(w, at.y)), at,
                               w.pass, w.symmetry)
    <2>1. /\ at \in Calculated(w) /\ shown' = Plotted(w, pixels) /\ calc_status' = "RESUMABLE"
          /\ pixels \subseteq Calculated(w)
          /\ FirstPass(w) => resume_data' = AddWorkList(cut.list, first)
          /\ ~FirstPass(w) => resume_data' = AddWorkList(cut.list, other)
      BY <1>13 DEF StopItem
    <2>2. CASE FirstPass(w)
      <3>1. GivesBack(w, pixels, first)  BY <1>7, <2>1, <2>2, StoppedFirstGives
      <3>. HIDE DEF pixels, first, other, Goal
      <3>. QED  BY <1>11, <2>1, <2>2, <3>1
    <2>3. CASE ~FirstPass(w)
      <3>1. GivesBack(w, pixels, other)  BY <1>7, <2>1, <2>3, StoppedGives
      <3>. HIDE DEF pixels, first, other, Goal
      <3>. QED  BY <1>11, <2>1, <2>3, <3>1
    <2>. QED  BY <2>2, <2>3
  <1>14. Goal
    <2>. HIDE DEF Goal
    <2>. QED  BY <1>5, <1>12, <1>13
  <1>. QED  BY <1>14 DEF e

-----------------------------------------------------------------------------
\* The picture moves, and what the entries have open with it.

Shift(e, d) == [e EXCEPT !.start = Minus(@, d), !.stop = Minus(@, d), !.begin = Minus(@, d)]

LEMMA MovedPoint ==
    ASSUME NEW p \in Points, NEW d \in Points
    PROVE  /\ p.x \in Int /\ p.y \in Int /\ d.x \in Int /\ d.y \in Int
           /\ Minus(p, d) \in Points /\ Minus(p, d).x = p.x - d.x /\ Minus(p, d).y = p.y - d.y
           /\ Plus(p, d) \in Points /\ Plus(p, d).x = p.x + d.x /\ Plus(p, d).y = p.y + d.y
  <1>1. p.x \in Int /\ p.y \in Int /\ d.x \in Int /\ d.y \in Int  BY DEF Points
  <1>2. /\ p.x - d.x \in Int /\ p.y - d.y \in Int
        /\ p.x + d.x \in Int /\ p.y + d.y \in Int
    BY <1>1
  <1>. QED  BY <1>1, <1>2, PointOf DEF Minus, Plus

LEMMA ShiftEntry ==
    ASSUME NEW e \in Entries, NEW d \in Points
    PROVE  /\ Shift(e, d) \in Entries
           /\ Shift(e, d).start = Minus(e.start, d) /\ Shift(e, d).stop = Minus(e.stop, d)
           /\ Shift(e, d).begin = Minus(e.begin, d)
           /\ Shift(e, d).pass = e.pass /\ Shift(e, d).symmetry = e.symmetry
  <1>1. \A p \in Points : Minus(p, d) \in Points  BY MovedPoint
  <1>. QED  BY <1>1 DEF Shift, Entries

LEMMA ShiftNumbers ==
    ASSUME NEW e \in Entries, NEW d \in Points, NEW m, m = Shift(e, d)
    PROVE  /\ m.start.x = e.start.x - d.x /\ m.start.y = e.start.y - d.y
           /\ m.stop.x = e.stop.x - d.x /\ m.stop.y = e.stop.y - d.y
           /\ m.begin.x = e.begin.x - d.x /\ m.begin.y = e.begin.y - d.y
  <1>1. e.start \in Points /\ e.stop \in Points /\ e.begin \in Points  BY DEF Entries
  <1>2. m.start = Minus(e.start, d) /\ m.stop = Minus(e.stop, d) /\ m.begin = Minus(e.begin, d)
    BY ShiftEntry
  <1>3. \A p \in Points : Minus(p, d).x = p.x - d.x /\ Minus(p, d).y = p.y - d.y  BY MovedPoint
  <1>. QED  BY <1>1, <1>2, <1>3

LEMMA MovedSum ==
    ASSUME NEW a \in Int, NEW b \in Int, NEW c \in Int, NEW k \in Int, NEW n \in Int,
           a + b = 2 * c + n
    PROVE  (a - k) + (b - k) = 2 * (c - k) + n
  OBVIOUS

\* The axes move with the picture.
LEMMA ShiftFits ==
    ASSUME NEW ax \in Points, NEW d \in Points, NEW e \in Entries, Fits(ax, e)
    PROVE  Fits(Minus(ax, d), Shift(e, d))
  <1>. DEFINE m == Shift(e, d)
              bx == IF Between.x THEN 1 ELSE 0
              by == IF Between.y THEN 1 ELSE 0
  <1>1. /\ m.start.x = e.start.x - d.x /\ m.start.y = e.start.y - d.y
        /\ m.stop.x = e.stop.x - d.x /\ m.stop.y = e.stop.y - d.y
        /\ m.begin.x = e.begin.x - d.x /\ m.begin.y = e.begin.y - d.y
        /\ m.pass = e.pass /\ m.symmetry = e.symmetry
    BY ShiftNumbers, ShiftEntry
  <1>. HIDE DEF m
  <1>2. /\ e.start.x \in Int /\ e.start.y \in Int /\ e.stop.x \in Int /\ e.stop.y \in Int
        /\ e.begin.x \in Int /\ e.begin.y \in Int /\ d.x \in Int /\ d.y \in Int
        /\ ax.x \in Int /\ ax.y \in Int /\ bx \in Int /\ by \in Int
    BY EntryNumbers, MovedPoint
  <1>3. /\ Centre(ax, "x") = 2 * ax.x + bx /\ Centre(ax, "y") = 2 * ax.y + by
        /\ Centre(Minus(ax, d), "x") = 2 * (ax.x - d.x) + bx
        /\ Centre(Minus(ax, d), "y") = 2 * (ax.y - d.y) + by
    BY MovedPoint DEF Centre
  <1>. HIDE DEF bx, by
  <1>4. Middle(ax, e, "x") /\ Middle(ax, e, "y")  BY DEF Fits
  <1>5. Middle(Minus(ax, d), m, "x")
    <2>. SUFFICES ASSUME m.symmetry.x = "yes"
                  PROVE  "x" \in Axes /\ m.start.x + m.stop.x = Centre(Minus(ax, d), "x")
      BY DEF Middle
    <2>1. "x" \in Axes /\ e.start.x + e.stop.x = 2 * ax.x + bx  BY <1>1, <1>3, <1>4 DEF Middle
    <2>. DEFINE a == e.start.x
                z == e.stop.x
                k == d.x
                t == ax.x
    <2>2. a \in Int /\ z \in Int /\ k \in Int /\ t \in Int /\ bx \in Int /\ a + z = 2 * t + bx
      BY <1>2, <2>1
    <2>. HIDE DEF a, z, k, t
    <2>3. (a - k) + (z - k) = 2 * (t - k) + bx  BY <2>2, MovedSum
    <2>. QED  BY <1>1, <1>3, <2>1, <2>3 DEF a, z, k, t
  <1>6. Middle(Minus(ax, d), m, "y")
    <2>. SUFFICES ASSUME m.symmetry.y = "yes"
                  PROVE  "y" \in Axes /\ m.start.y + m.stop.y = Centre(Minus(ax, d), "y")
      BY DEF Middle
    <2>1. "y" \in Axes /\ e.start.y + e.stop.y = 2 * ax.y + by  BY <1>1, <1>3, <1>4 DEF Middle
    <2>. DEFINE a == e.start.y
                z == e.stop.y
                k == d.y
                t == ax.y
    <2>2. a \in Int /\ z \in Int /\ k \in Int /\ t \in Int /\ by \in Int /\ a + z = 2 * t + by
      BY <1>2, <2>1
    <2>. HIDE DEF a, z, k, t
    <2>3. (a - k) + (z - k) = 2 * (t - k) + by  BY <2>2, MovedSum
    <2>. QED  BY <1>1, <1>3, <2>1, <2>3 DEF a, z, k, t
  <1>7. /\ Untouched(e) => Untouched(m)
        /\ e.start.y <= e.begin.y => m.start.y <= m.begin.y
    BY <1>1, <1>2 DEF Untouched
  <1>. QED  BY <1>1, <1>5, <1>6, <1>7 DEF Fits, New, m

LEMMA SameParity == ASSUME NEW n \in Int, NEW k \in Int, Even(k)  PROVE Even(n - k) <=> Even(n)
  <1>1. PICK j \in Int : k = 2 * j  BY DEF Even
  <1>. QED  BY <1>1 DEF Even

\* Two passes move by even steps.
LEMMA ShiftOpen ==
    ASSUME NEW e \in Entries, NEW d \in Points, TwoPasses => Even(d.x) /\ Even(d.y),
           NEW q \in Points, Plus(q, d) \in Open(e)
    PROVE  q \in Open(Shift(e, d))
  <1>. DEFINE m == Shift(e, d)
              r == Plus(q, d)
              p == Source(e, r)
              s == Source(m, q)
  <1>1. /\ m.start.x = e.start.x - d.x /\ m.start.y = e.start.y - d.y
        /\ m.stop.x = e.stop.x - d.x /\ m.stop.y = e.stop.y - d.y
        /\ m.begin.x = e.begin.x - d.x /\ m.begin.y = e.begin.y - d.y
        /\ m.pass = e.pass /\ m.symmetry = e.symmetry /\ m \in Entries
    BY ShiftNumbers, ShiftEntry
  <1>2. /\ e.start.x \in Int /\ e.start.y \in Int /\ e.stop.x \in Int /\ e.stop.y \in Int
        /\ e.begin.x \in Int /\ e.begin.y \in Int /\ d.x \in Int /\ d.y \in Int
        /\ q.x \in Int /\ q.y \in Int /\ r.x = q.x + d.x /\ r.y = q.y + d.y
    BY EntryNumbers, MovedPoint
  <1>3. r \in Area(e) /\ Ahead(e, p)  BY DEF Open
  <1>4. IsFrame(e) /\ IsFrame(m)  BY <1>1, EntryFrame
  <1>5. p.x \in Int /\ p.y \in Int /\ p.x = Fold(e, "x", r.x) /\ p.y = Fold(e, "y", r.y)
    BY <1>3, <1>4, SourceAfter
  <1>. HIDE DEF p, r, m
  <1>6. e.start.x <= r.x /\ r.x <= e.stop.x /\ e.start.y <= r.y /\ r.y <= e.stop.y
    BY <1>3, <1>4, InArea
  <1>7. q \in Area(m)  BY <1>1, <1>2, <1>4, <1>6, InArea
  <1>8. s.x = Fold(m, "x", q.x) /\ s.y = Fold(m, "y", q.y)
    BY <1>4, <1>7, SourceAfter
  <1>9. Fold(m, "x", q.x) = Fold(e, "x", r.x) - d.x  BY <1>1, <1>2 DEF Fold
  <1>10. Fold(m, "y", q.y) = Fold(e, "y", r.y) - d.y  BY <1>1, <1>2 DEF Fold
  <1>11. s.x = p.x - d.x /\ s.y = p.y - d.y  BY <1>5, <1>8, <1>9, <1>10
  <1>. HIDE DEF s
  <1>12. AtOrAfter(p, e.begin) => AtOrAfter(s, m.begin)
    BY <1>1, <1>2, <1>5, <1>11 DEF AtOrAfter
  <1>13. TwoPasses => (Odd(p) => Odd(s))
    <2>1. TwoPasses => (Even(p.x - d.x) <=> Even(p.x)) /\ (Even(p.y - d.y) <=> Even(p.y))
      BY <1>2, <1>5, SameParity
    <2>. QED  BY <1>11, <2>1 DEF Odd
  <1>14. Ahead(m, s)
    BY <1>1, <1>3, <1>12, <1>13 DEF Ahead, FirstPass, LastOfTwo, TwoPasses
  <1>. QED  BY <1>7, <1>14 DEF Open, m, s

\* The list, shifted.
LEMMA ShiftedFits ==
    ASSUME NEW d, IsPan(d), axis \in Points, resume_data \in Tables(WholeScreen, {}), Aligned(d),
           calc_status = "RESUMABLE" =>
               d.y = 0 /\ resume_data \in FitTables(WholeScreen, {}, axis),
           NEW R, R = UNION {Area(Edges(d)[k]) : k \in 1 .. Len(Edges(d))}
    PROVE  /\ Shifted(d) \in FitTables(Reach(d), R, Minus(axis, d))
           /\ calc_status = "RESUMABLE" =>
                 \A q \in Screen : Plus(q, d) \in CoveredBy(Opens, resume_data)
                                      => q \in CoveredBy(Opens, Shifted(d))
  <1>. DEFINE l == resume_data
              s == Shifted(d)
  <1>1. s \in Tables(Reach(d), R)  BY ShiftedApart
  <1>2. s \in Seq(Entries)  BY <1>1, InTable
  <1>3. d \in Points  BY DEF IsPan
  <1>4. CASE calc_status # "RESUMABLE"
    <2>1. Len(s) = 0
      <3>1. s = [k \in 1 .. Len(<<>>) |->
                    [<<>>[k] EXCEPT !.start = Minus(@, d), !.stop = Minus(@, d),
                                    !.begin = Minus(@, d)]]
        BY <1>4 DEF Shifted
      <3>2. 1 .. Len(<<>>) = {} /\ 1 .. 0 = {}  OBVIOUS
      <3>3. s = [k \in 1 .. 0 |-> 0]  BY <3>1, <3>2
      <3>. QED  BY <3>3
    <2>. HIDE DEF s
    <2>2. \A k \in 1 .. Len(s) : Fits(Minus(axis, d), s[k])  BY <2>1
    <2>. QED  BY <1>1, <1>4, <2>2 DEF FitTables, s
  <1>5. CASE calc_status = "RESUMABLE"
    <2>1. s = [k \in 1 .. Len(l) |-> Shift(l[k], d)]  BY <1>5 DEF Shifted, Shift
    <2>. HIDE DEF s
    <2>2. /\ l \in Seq(Entries) /\ Len(l) \in Nat
          /\ \A k \in 1 .. Len(l) : Fits(axis, l[k]) /\ l[k] \in Entries
      BY <1>5, InTable DEF FitTables
    <2>3. Len(s) = Len(l) /\ \A k \in 1 .. Len(l) : s[k] = Shift(l[k], d)
      BY <1>2, <2>1, <2>2
    <2>4. \A k \in 1 .. Len(s) : Fits(Minus(axis, d), s[k])
      BY <1>3, <2>2, <2>3, ShiftFits
    <2>5. TwoPasses => Even(d.x) /\ Even(d.y)  BY <1>5 DEF Aligned, TwoPasses
    <2>6. ASSUME NEW q \in Screen, Plus(q, d) \in CoveredBy(Opens, l)
          PROVE  q \in CoveredBy(Opens, s)
      <3>1. PICK k \in 1 .. Len(l) : Plus(q, d) \in Open(l[k])
        BY <2>2, <2>6, CoveredOpen
      <3>2. q \in Points  BY OnScreen
      <3>3. q \in Open(s[k]) /\ k \in 1 .. Len(s)
        BY <1>3, <2>2, <2>3, <2>5, <3>1, <3>2, ShiftOpen
      <3>. QED  BY <1>2, <3>3, CoveredOpen
    <2>. QED  BY <1>1, <2>4, <2>6 DEF FitTables, s
  <1>. QED  BY <1>4, <1>5

-----------------------------------------------------------------------------
\* The edges that come into view.

LEMMA StripIs ==
    ASSUME NEW a, NEW b
    PROVE  /\ Strip(a, b).start = a /\ Strip(a, b).stop = b /\ Strip(a, b).begin = a
           /\ Strip(a, b).pass = 0 /\ Strip(a, b).symmetry = Undecided
  BY DEF Strip, Entry

LEMMA StripArea ==
    ASSUME NEW a \in Int, NEW b \in Int, NEW c \in Int, NEW g \in Int, NEW q \in Points,
           a <= q.x, q.x <= c, b <= q.y, q.y <= g
    PROVE  q \in Area(Strip(Pt(a, b), Pt(c, g)))
  <1>. DEFINE e == Strip(Pt(a, b), Pt(c, g))
  <1>1. e.start = Pt(a, b) /\ e.stop = Pt(c, g)  BY StripIs
  <1>. HIDE DEF e
  <1>2. /\ e.start \in Points /\ e.start.x = a /\ e.start.y = b
        /\ e.stop \in Points /\ e.stop.x = c /\ e.stop.y = g
    BY <1>1, PointOf
  <1>3. IsFrame(e)  BY <1>2 DEF IsFrame
  <1>4. q.x \in Int /\ q.y \in Int  BY DEF Points
  <1>5. q \in Area(e)  BY <1>2, <1>3, <1>4, InArea
  <1>. QED  BY <1>5 DEF e

LEMMA EdgesAreStrips ==
    ASSUME NEW d, NEW k \in 1 .. Len(Edges(d)), Len(Edges(d)) \in {1, 2}
    PROVE  Edges(d)[k].begin = Edges(d)[k].start /\ Edges(d)[k].pass = 0
           /\ Edges(d)[k].symmetry = Undecided
  <1>1. EdgeRows(d) = <<>> \/ \E a, b : EdgeRows(d) = <<Strip(a, b)>>
    BY DEF EdgeRows
  <1>2. EdgeColumns(d) = <<>> \/ \E a, b : EdgeColumns(d) = <<Strip(a, b)>>
    BY DEF EdgeColumns
  <1>3. \E a, b : Edges(d)[k] = Strip(a, b)
    <2>1. CASE EdgeRows(d) = <<>>
      <3>1. Edges(d) = EdgeColumns(d)
        <4>1. CASE EdgeColumns(d) = <<>>
          <5>1. Edges(d) = <<>> \o <<>>  BY <2>1, <4>1 DEF Edges
          <5>. QED  BY <4>1, <5>1
        <4>2. ASSUME NEW a, NEW b, EdgeColumns(d) = <<Strip(a, b)>>  PROVE Edges(d) = EdgeColumns(d)
          <5>. DEFINE s == Strip(a, b)
          <5>. HIDE DEF s
          <5>1. Edges(d) = <<>> \o <<s>>  BY <2>1, <4>2 DEF Edges, s
          <5>2. <<>> \o <<s>> = <<s>>  OBVIOUS
          <5>. QED  BY <4>2, <5>1, <5>2 DEF s
        <4>. QED  BY <1>2, <4>1, <4>2
      <3>2. EdgeColumns(d) # <<>>
        <4>. SUFFICES ASSUME EdgeColumns(d) = <<>>  PROVE FALSE
          OBVIOUS
        <4>1. Len(Edges(d)) = 0  BY <3>1
        <4>. QED  BY <4>1
      <3>3. PICK a, b : EdgeColumns(d) = <<Strip(a, b)>>  BY <1>2, <3>2
      <3>. DEFINE s == Strip(a, b)
      <3>. HIDE DEF s
      <3>4. Edges(d) = <<s>>  BY <3>1, <3>3 DEF s
      <3>5. k = 1  BY <3>4
      <3>6. Edges(d)[k] = s  BY <3>4, <3>5
      <3>. QED  BY <3>6 DEF s
    <2>2. ASSUME NEW a, NEW b, EdgeRows(d) = <<Strip(a, b)>>
          PROVE  \E t, u : Edges(d)[k] = Strip(t, u)
      <3>. DEFINE s == Strip(a, b)
      <3>. HIDE DEF s
      <3>1. CASE EdgeColumns(d) = <<>>
        <4>1. Edges(d) = <<s>> \o <<>>  BY <2>2, <3>1 DEF Edges, s
        <4>2. <<s>> \o <<>> = <<s>>  OBVIOUS
        <4>3. k = 1  BY <4>1, <4>2
        <4>4. Edges(d)[k] = s  BY <4>1, <4>2, <4>3
        <4>. QED  BY <4>4 DEF s
      <3>2. ASSUME NEW t, NEW u, EdgeColumns(d) = <<Strip(t, u)>>
            PROVE  \E x, y : Edges(d)[k] = Strip(x, y)
        <4>. DEFINE r == Strip(t, u)
        <4>. HIDE DEF r
        <4>1. Edges(d) = <<s>> \o <<r>>  BY <2>2, <3>2 DEF Edges, s, r
        <4>2. Len(Edges(d)) = 2 /\ Edges(d)[1] = s /\ Edges(d)[2] = r  BY <4>1
        <4>3. k = 1 \/ k = 2  BY <4>2
        <4>4. Edges(d)[k] = s \/ Edges(d)[k] = r  BY <4>2, <4>3
        <4>. QED  BY <4>4 DEF s, r
      <3>. QED  BY <1>2, <3>1, <3>2
    <2>. QED  BY <1>1, <2>1, <2>2
  <1>. QED  BY <1>3, StripIs

\* What was not on the screen before is in an edge.
LEMMA EdgesCover ==
    ASSUME NEW d, IsPan(d), NEW q \in Screen, Plus(q, d) \notin Screen
    PROVE  \E k \in 1 .. Len(Edges(d)) : q \in Area(Edges(d)[k])
  <1>1. /\ d.x \in Int /\ d.y \in Int /\ d \in Points
        /\ -XDots < d.x /\ d.x < XDots /\ -YDots < d.y /\ d.y < YDots
    BY DEF IsPan
  <1>2. /\ q \in Points /\ q.x \in Int /\ q.y \in Int
        /\ 0 <= q.x /\ q.x <= XDots - 1 /\ 0 <= q.y /\ q.y <= YDots - 1
    BY OnScreen
  <1>3. /\ Plus(q, d) \in Points /\ Plus(q, d).x = q.x + d.x /\ Plus(q, d).y = q.y + d.y
    BY <1>1, <1>2, MovedPoint
  <1>4. \/ q.x + d.x < 0 \/ q.x + d.x > XDots - 1 \/ q.y + d.y < 0 \/ q.y + d.y > YDots - 1
    BY <1>1, <1>2, <1>3, OnScreen, Sizes
  <1>5. XDots \in Int /\ YDots \in Int  BY Sizes
  <1>6. EdgeRows(d) = <<>> \/ \E r : EdgeRows(d) = <<r>>
    BY DEF EdgeRows
  <1>7. EdgeColumns(d) = <<>> \/ \E c : EdgeColumns(d) = <<c>>
    BY DEF EdgeColumns
  <1>8. ASSUME NEW r, EdgeRows(d) = <<r>>, q \in Area(r)
        PROVE  \E k \in 1 .. Len(Edges(d)) : q \in Area(Edges(d)[k])
    <2>1. CASE EdgeColumns(d) = <<>>
      <3>1. Edges(d) = <<r>> \o <<>>  BY <1>8, <2>1 DEF Edges
      <3>2. 1 \in 1 .. Len(Edges(d)) /\ Edges(d)[1] = r  BY <3>1
      <3>. QED  BY <1>8, <3>2
    <2>2. ASSUME NEW c, EdgeColumns(d) = <<c>>
          PROVE  \E k \in 1 .. Len(Edges(d)) : q \in Area(Edges(d)[k])
      <3>1. Edges(d) = <<r>> \o <<c>>  BY <1>8, <2>2 DEF Edges
      <3>2. 1 \in 1 .. Len(Edges(d)) /\ Edges(d)[1] = r  BY <3>1
      <3>. QED  BY <1>8, <3>2
    <2>. QED  BY <1>7, <2>1, <2>2
  <1>9. ASSUME NEW c, EdgeColumns(d) = <<c>>, q \in Area(c)
        PROVE  \E k \in 1 .. Len(Edges(d)) : q \in Area(Edges(d)[k])
    <2>1. CASE EdgeRows(d) = <<>>
      <3>1. Edges(d) = <<>> \o <<c>>  BY <1>9, <2>1 DEF Edges
      <3>2. 1 \in 1 .. Len(Edges(d)) /\ Edges(d)[1] = c  BY <3>1
      <3>. QED  BY <1>9, <3>2
    <2>2. ASSUME NEW r, EdgeRows(d) = <<r>>
          PROVE  \E k \in 1 .. Len(Edges(d)) : q \in Area(Edges(d)[k])
      <3>1. Edges(d) = <<r>> \o <<c>>  BY <1>9, <2>2 DEF Edges
      <3>2. 2 \in 1 .. Len(Edges(d)) /\ Edges(d)[2] = c  BY <3>1
      <3>. QED  BY <1>9, <3>2
    <2>. QED  BY <1>6, <2>1, <2>2
  <1>10. CASE q.y + d.y < 0
    <2>. DEFINE r == Strip(Pt(0, 0), Pt(XDots - 1, -d.y - 1))
    <2>1. d.y < 0 /\ ~(d.y > 0) /\ q.y <= -d.y - 1 /\ -d.y - 1 \in Int /\ XDots - 1 \in Int  BY <1>1, <1>2, <1>5, <1>10
    <2>2. EdgeRows(d) = <<r>>  BY <2>1 DEF EdgeRows
    <2>3. q \in Area(r)  BY <1>2, <2>1, StripArea
    <2>. QED  BY <1>8, <2>2, <2>3
  <1>11. CASE q.y + d.y > YDots - 1
    <2>. DEFINE r == Strip(Pt(0, YDots - d.y), Pt(XDots - 1, YDots - 1))
    <2>1. /\ d.y > 0 /\ ~(d.y < 0) /\ YDots - d.y <= q.y /\ YDots - d.y \in Int /\ XDots - 1 \in Int
          /\ YDots - 1 \in Int
      BY <1>1, <1>2, <1>5, <1>11
    <2>2. EdgeRows(d) = <<r>>  BY <2>1 DEF EdgeRows
    <2>3. q \in Area(r)  BY <1>2, <2>1, StripArea
    <2>. QED  BY <1>8, <2>2, <2>3
  <1>12. ASSUME ~(q.y + d.y < 0), ~(q.y + d.y > YDots - 1)
         PROVE  /\ ColumnTop(d) \in Int /\ ColumnBottom(d) \in Int
                /\ ColumnTop(d) <= q.y /\ q.y <= ColumnBottom(d)
    BY <1>1, <1>2, <1>5, <1>12 DEF ColumnTop, ColumnBottom
  <1>13. CASE ~(q.y + d.y < 0) /\ ~(q.y + d.y > YDots - 1) /\ q.x + d.x < 0
    <2>. DEFINE c == Strip(Pt(0, ColumnTop(d)), Pt(-d.x - 1, ColumnBottom(d)))
    <2>1. d.x < 0 /\ ~(d.x > 0) /\ q.x <= -d.x - 1 /\ -d.x - 1 \in Int  BY <1>1, <1>2, <1>5, <1>13
    <2>2. EdgeColumns(d) = <<c>>  BY <2>1 DEF EdgeColumns
    <2>3. q \in Area(c)  BY <1>2, <1>12, <1>13, <2>1, StripArea
    <2>. QED  BY <1>9, <2>2, <2>3
  <1>14. CASE ~(q.y + d.y < 0) /\ ~(q.y + d.y > YDots - 1) /\ q.x + d.x > XDots - 1
    <2>. DEFINE c == Strip(Pt(XDots - d.x, ColumnTop(d)), Pt(XDots - 1, ColumnBottom(d)))
    <2>1. /\ d.x > 0 /\ ~(d.x < 0) /\ XDots - d.x <= q.x /\ XDots - d.x \in Int /\ XDots - 1 \in Int
      BY <1>1, <1>2, <1>5, <1>14
    <2>2. EdgeColumns(d) = <<c>>  BY <2>1 DEF EdgeColumns
    <2>3. q \in Area(c)  BY <1>2, <1>12, <1>14, <2>1, StripArea
    <2>. QED  BY <1>9, <2>2, <2>3
  <1>. QED  BY <1>4, <1>10, <1>11, <1>13, <1>14

\* The list with its edges, when none was refused.
LEMMA WithEdgesFits ==
    ASSUME NEW d, IsPan(d), axis \in Points, resume_data \in Tables(WholeScreen, {}), Aligned(d),
           calc_status = "RESUMABLE" =>
               d.y = 0 /\ resume_data \in FitTables(WholeScreen, {}, axis),
           ~EdgeRefused(d)
    PROVE  LET l == WithEdges(d, Len(Edges(d)))
           IN  /\ l \in FitTables(Reach(d), {}, Minus(axis, d))
               /\ \A q \in Screen :
                     \/ Plus(q, d) \notin Screen
                     \/ calc_status = "RESUMABLE" /\ Plus(q, d) \in CoveredBy(Opens, resume_data)
                     => q \in CoveredBy(Opens, l)
  <1>. DEFINE f == Reach(d)
              g(k) == Edges(d)[k]
              R == UNION {Area(g(k)) : k \in 1 .. Len(Edges(d))}
              ax == Minus(axis, d)
              Saved(q) == calc_status = "RESUMABLE" /\ Plus(q, d) \in CoveredBy(Opens, resume_data)
  <1>1. /\ Len(Edges(d)) \in {1, 2}
        /\ \A k \in 1 .. Len(Edges(d)) : g(k) \in Framed(WholeScreen)
        /\ Len(Edges(d)) = 2 => Area(g(1)) \cap Area(g(2)) = {}
    BY EdgesApart
  <1>2. /\ WithEdges(d, 0) \in FitTables(f, R, ax)
        /\ \A q \in Screen : Saved(q) => q \in CoveredBy(Opens, WithEdges(d, 0))
    <2>1. WithEdges(d, 0) = Shifted(d)  BY EdgeByEdge
    <2>2. Shifted(d) \in FitTables(f, R, ax)  BY ShiftedFits
    <2>3. \A q \in Screen : Saved(q) => q \in CoveredBy(Opens, Shifted(d))  BY ShiftedFits
    <2>. QED  BY <2>1, <2>2, <2>3
  <1>3. OneSided(f) /\ IsFrame(f)  BY ReachOneSided DEF OneSided
  <1>4. \A k \in 1 .. Len(Edges(d)) : ~ListFull(WithEdges(d, k - 1))  BY DEF EdgeRefused
  <1>5. /\ WithEdges(d, 1) = AddWorkList(WithEdges(d, 0), g(1))
        /\ WithEdges(d, 2) = AddWorkList(WithEdges(d, 1), g(2))
    BY EdgeByEdge
  <1>6. \A q \in Screen : Plus(q, d) \notin Screen => \E k \in 1 .. Len(Edges(d)) : q \in Area(g(k))
    BY EdgesCover
  <1>7. \A k \in 1 .. Len(Edges(d)) : g(k).begin = g(k).start /\ g(k).pass = 0 /\ g(k).symmetry = Undecided
    BY <1>1, EdgesAreStrips
  <1>. HIDE DEF f, g, ax, Saved
  <1>8. \A k \in 1 .. Len(Edges(d)) : g(k) \in Framed(f) /\ g(k) \in Entries
    BY <1>1, <1>3, EntryFrame, ScreenInFrame DEF Framed
  <1>9. \A k \in 1 .. Len(Edges(d)) : Fits(ax, g(k)) /\ Open(g(k)) = Area(g(k))
    <2>. TAKE k \in 1 .. Len(Edges(d))
    <2>. DEFINE e == g(k)
    <2>1. e \in Entries /\ e.begin = e.start /\ e.pass = 0 /\ e.symmetry = Undecided  BY <1>7, <1>8
    <2>. HIDE DEF e
    <2>2. Fits(ax, e) /\ Open(e) = Area(e)  BY <2>1, FreshFits
    <2>. QED  BY <2>2 DEF e
  <1>10. 1 \in 1 .. Len(Edges(d))  BY <1>1
  <1>11. CASE Len(Edges(d)) = 1
    <2>1. R = Area(g(1)) /\ \A k \in 1 .. Len(Edges(d)) : k = 1
      <3>1. \A k : k \in 1 .. Len(Edges(d)) <=> k = 1  BY <1>11
      <3>. QED  BY <3>1
    <2>. HIDE DEF R
    <2>2. WithEdges(d, 0) \in FitTables(f, {}, ax)  BY <1>2, LessClear DEF FitTables
    <2>3. g(1) \in Clear(f, {})  BY <1>8, <1>10 DEF Clear
    <2>4. \A k \in 1 .. Len(WithEdges(d, 0)) : Area(WithEdges(d, 0)[k]) \cap Area(g(1)) = {}
      BY <1>2, <2>1, InTable DEF Clear, FitTables
    <2>5. ~ListFull(WithEdges(d, 0))
      <3>1. 1 - 1 = 0  OBVIOUS
      <3>. QED  BY <1>4, <1>10, <3>1
    <2>6. /\ WithEdges(d, 1) \in FitTables(f, {}, ax)
          /\ CoveredBy(Opens, WithEdges(d, 0)) \cup Open(g(1)) \subseteq CoveredBy(Opens, WithEdges(d, 1))
      BY <1>3, <1>5, <1>9, <1>10, <2>2, <2>3, <2>4, <2>5, AddFits
    <2>7. \A q \in Screen : Plus(q, d) \notin Screen \/ Saved(q) => q \in CoveredBy(Opens, WithEdges(d, 1))
      BY <1>2, <1>6, <1>9, <1>10, <2>1, <2>6
    <2>. QED  BY <1>11, <2>6, <2>7 DEF f, ax, Saved
  <1>12. CASE Len(Edges(d)) = 2
    <2>1. /\ R = Area(g(1)) \cup Area(g(2)) /\ 2 \in 1 .. Len(Edges(d))
          /\ \A k \in 1 .. Len(Edges(d)) : k = 1 \/ k = 2
      <3>1. \A k : k \in 1 .. Len(Edges(d)) <=> k = 1 \/ k = 2  BY <1>12
      <3>. QED  BY <3>1
    <2>. HIDE DEF R
    <2>2. WithEdges(d, 0) \in FitTables(f, Area(g(2)), ax)  BY <1>2, <2>1, LessClear DEF FitTables
    <2>3. g(1) \in Clear(f, Area(g(2)))  BY <1>1, <1>8, <1>10, <1>12 DEF Clear
    <2>4. \A k \in 1 .. Len(WithEdges(d, 0)) : Area(WithEdges(d, 0)[k]) \cap Area(g(1)) = {}
      BY <1>2, <2>1, InTable DEF Clear, FitTables
    <2>5. ~ListFull(WithEdges(d, 0)) /\ ~ListFull(WithEdges(d, 1))
      <3>1. 1 - 1 = 0 /\ 2 - 1 = 1  OBVIOUS
      <3>. QED  BY <1>4, <1>10, <2>1, <3>1
    <2>6. /\ WithEdges(d, 1) \in FitTables(f, Area(g(2)), ax)
          /\ CoveredBy(Opens, WithEdges(d, 0)) \cup Open(g(1)) \subseteq CoveredBy(Opens, WithEdges(d, 1))
      BY <1>3, <1>5, <1>9, <1>10, <2>2, <2>3, <2>4, <2>5, AddFits
    <2>7. WithEdges(d, 1) \in FitTables(f, {}, ax)  BY <2>6, LessClear DEF FitTables
    <2>8. g(2) \in Clear(f, {})  BY <1>8, <2>1 DEF Clear
    <2>9. \A k \in 1 .. Len(WithEdges(d, 1)) : Area(WithEdges(d, 1)[k]) \cap Area(g(2)) = {}
      BY <2>6, InTable DEF Clear, FitTables
    <2>10. /\ WithEdges(d, 2) \in FitTables(f, {}, ax)
           /\ CoveredBy(Opens, WithEdges(d, 1)) \cup Open(g(2)) \subseteq CoveredBy(Opens, WithEdges(d, 2))
      BY <1>3, <1>5, <1>9, <2>1, <2>5, <2>7, <2>8, <2>9, AddFits
    <2>11. \A q \in Screen : Plus(q, d) \notin Screen \/ Saved(q) => q \in CoveredBy(Opens, WithEdges(d, 2))
      BY <1>2, <1>6, <1>9, <1>10, <2>1, <2>6, <2>10
    <2>. QED  BY <1>12, <2>10, <2>11 DEF f, ax, Saved
  <1>. QED  BY <1>1, <1>11, <1>12

-----------------------------------------------------------------------------
\* What fix_work_list does to an entry, and what the entry has open.

\* m is some of the columns of e.
Part(e, m) ==
    /\ m.begin = e.begin /\ m.pass = e.pass
    /\ m.start.y = e.start.y /\ m.stop.y = e.stop.y /\ e.start.x <= m.start.x
    /\ m.symmetry.y = e.symmetry.y
    /\ m.symmetry.x = e.symmetry.x \/ (e.symmetry.x = "yes" /\ m.symmetry.x = "no")
    /\ m.symmetry.x = "yes" => m.start.x + m.stop.x = e.start.x + e.stop.x

\* Without its symmetry it has no column right of the middle.
LEMMA PartFits ==
    ASSUME NEW ax, NEW e \in Entries, Fits(ax, e), NEW m \in Entries, Part(e, m)
    PROVE  /\ Fits(ax, m)
           /\ m.symmetry.x = e.symmetry.x \/ 2 * m.stop.x <= e.start.x + e.stop.x
                 => Open(e) \cap Area(m) \subseteq Open(m)
  <1>1. /\ m.begin = e.begin /\ m.pass = e.pass
        /\ m.start.y = e.start.y /\ m.stop.y = e.stop.y /\ e.start.x <= m.start.x
        /\ m.symmetry.y = e.symmetry.y
        /\ m.symmetry.x = e.symmetry.x \/ (e.symmetry.x = "yes" /\ m.symmetry.x = "no")
        /\ m.symmetry.x = "yes" => m.start.x + m.stop.x = e.start.x + e.stop.x
    BY DEF Part
  <1>2. /\ e.start.x \in Int /\ e.start.y \in Int /\ e.stop.x \in Int /\ e.stop.y \in Int
        /\ e.begin.x \in Int /\ e.begin.y \in Int
        /\ m.start.x \in Int /\ m.start.y \in Int /\ m.stop.x \in Int /\ m.stop.y \in Int
    BY EntryNumbers
  <1>3. /\ Middle(ax, e, "x") /\ Middle(ax, e, "y")
        /\ New(e, "x") \/ New(e, "y") => Untouched(e) /\ \A d \in Axes : e.symmetry[d] = "new"
        /\ TwoPasses => e.pass \in {0, 1}
        /\ e.start.y <= e.begin.y
    BY DEF Fits
  <1>4. Middle(ax, m, "x") /\ Middle(ax, m, "y")  BY <1>1, <1>3 DEF Middle
  <1>5. Untouched(e) => Untouched(m)  BY <1>1, <1>2 DEF Untouched
  <1>6. ASSUME New(m, "x") \/ New(m, "y")
        PROVE  Untouched(m) /\ \A d \in Axes : m.symmetry[d] = "new"
    <2>1. New(e, "x") \/ New(e, "y")  BY <1>1, <1>6 DEF New
    <2>2. Untouched(m) /\ \A d \in Axes : e.symmetry[d] = "new"  BY <1>3, <1>5, <2>1
    <2>3. \A d \in Axes : d = "x" \/ d = "y"  BY DEF Axes
    <2>. QED  BY <1>1, <2>2, <2>3
  <1>7. Fits(ax, m)  BY <1>1, <1>3, <1>4, <1>6 DEF Fits
  <1>8. ASSUME m.symmetry.x = e.symmetry.x \/ 2 * m.stop.x <= e.start.x + e.stop.x,
               NEW q \in Open(e) \cap Area(m)
        PROVE  q \in Open(m)
    <2>1. q \in Area(m) /\ Ahead(e, Source(e, q))  BY DEF Open
    <2>2. q.x \in Int /\ q.x <= m.stop.x  BY <2>1, EntryFrame, InArea
    <2>3. Fold(m, "y", q.y) = Fold(e, "y", q.y)  BY <1>1 DEF Fold
    <2>4. Fold(m, "x", q.x) = Fold(e, "x", q.x)
      <3>1. CASE m.symmetry.x = e.symmetry.x
        <4>1. CASE m.symmetry.x = "yes"
          <5>1. m.start.x + m.stop.x = e.start.x + e.stop.x /\ e.symmetry.x = "yes"
            BY <1>1, <3>1, <4>1
          <5>. QED  BY <1>2, <2>2, <4>1, <5>1 DEF Fold
        <4>2. CASE m.symmetry.x # "yes"  BY <3>1, <4>2 DEF Fold
        <4>. QED  BY <4>1, <4>2
      <3>2. CASE m.symmetry.x # e.symmetry.x
        <4>1. m.symmetry.x = "no" /\ 2 * m.stop.x <= e.start.x + e.stop.x  BY <1>1, <1>8, <3>2
        <4>2. ~(2 * q.x > e.start.x + e.stop.x)  BY <1>2, <2>2, <4>1
        <4>. QED  BY <4>1, <4>2 DEF Fold
      <3>. QED  BY <3>1, <3>2
    <2>5. Source(m, q) = Source(e, q)  BY <2>3, <2>4 DEF Source
    <2>6. Ahead(m, Source(m, q))  BY <1>1, <2>1, <2>5 DEF Ahead, FirstPass, LastOfTwo
    <2>. QED  BY <2>1, <2>6 DEF Open
  <1>. QED  BY <1>7, <1>8

\* Beginning in its first row it has no less open.
LEMMA BeginFits ==
    ASSUME NEW ax, NEW e \in Entries, Fits(ax, e), e.start.x <= e.stop.x,
           NEW m, m = [e EXCEPT !.begin = BeginWithin(e)]
    PROVE  Fits(ax, m) /\ Open(e) \subseteq Open(m)
  <1>. DEFINE x == CASE e.begin.x < e.start.x -> e.start.x
                     [] e.begin.x > e.stop.x  -> e.stop.x
                     [] OTHER                 -> e.begin.x
  <1>1. /\ e.start.x \in Int /\ e.start.y \in Int /\ e.stop.x \in Int /\ e.stop.y \in Int
        /\ e.begin.x \in Int /\ e.begin.y \in Int
    BY EntryNumbers
  <1>2. /\ x \in Int
        /\ e.begin.x <= e.start.x => x = e.start.x
        /\ x > e.begin.x => x = e.start.x
    <2>1. CASE e.begin.x < e.start.x
      <3>1. ~(e.begin.x > e.stop.x)  BY <1>1, <2>1
      <3>2. x = e.start.x  BY <2>1, <3>1
      <3>. HIDE DEF x
      <3>. QED  BY <1>1, <3>2
    <2>2. CASE e.begin.x > e.stop.x
      <3>1. ~(e.begin.x < e.start.x)  BY <1>1, <2>2
      <3>2. x = e.stop.x  BY <2>2, <3>1
      <3>. HIDE DEF x
      <3>. QED  BY <1>1, <2>2, <3>2
    <2>3. CASE ~(e.begin.x < e.start.x) /\ ~(e.begin.x > e.stop.x)
      <3>1. x = e.begin.x  BY <2>3
      <3>. HIDE DEF x
      <3>. QED  BY <1>1, <2>3, <3>1
    <2>. HIDE DEF x
    <2>. QED  BY <2>1, <2>2, <2>3
  <1>3. BeginWithin(e) = Pt(x, e.start.y)  BY DEF BeginWithin
  <1>4. x <= e.begin.x \/ x <= e.start.x  BY <1>1, <1>2
  <1>. HIDE DEF x
  <1>5. /\ m.start = e.start /\ m.stop = e.stop /\ m.pass = e.pass /\ m.symmetry = e.symmetry
        /\ m.begin = BeginWithin(e)
    BY DEF Entries
  <1>6. m.begin.x = x /\ m.begin.y = e.start.y  BY <1>1, <1>2, <1>3, <1>5, PointOf
  <1>7. /\ Middle(ax, e, "x") /\ Middle(ax, e, "y")
        /\ New(e, "x") \/ New(e, "y") => Untouched(e) /\ \A d \in Axes : e.symmetry[d] = "new"
        /\ TwoPasses => e.pass \in {0, 1}
        /\ e.start.y <= e.begin.y
    BY DEF Fits
  <1>8. Untouched(e) => Untouched(m)  BY <1>1, <1>2, <1>5, <1>6 DEF Untouched
  <1>9. /\ Middle(ax, m, "x") /\ Middle(ax, m, "y")
        /\ New(m, "x") \/ New(m, "y") => Untouched(m) /\ \A d \in Axes : m.symmetry[d] = "new"
    BY <1>5, <1>7, <1>8 DEF Middle, New
  <1>10. Fits(ax, m)  BY <1>1, <1>5, <1>6, <1>7, <1>9 DEF Fits
  <1>11. ASSUME NEW q \in Open(e)  PROVE q \in Open(m)
    <2>. DEFINE p == Source(e, q)
    <2>1. q \in Area(e) /\ Ahead(e, p)  BY DEF Open
    <2>2. /\ p.x \in Int /\ p.y \in Int /\ e.start.x <= p.x /\ e.start.y <= p.y
      BY <2>1, EntryFrame, SourceAfter
    <2>3. q \in Area(m) /\ Source(m, q) = p  BY <1>5, <2>1 DEF Area, Source, Fold
    <2>. HIDE DEF p
    <2>4. AtOrAfter(p, e.begin) => AtOrAfter(p, m.begin)
      <3>1. ASSUME AtOrAfter(p, e.begin)  PROVE p.y > e.start.y \/ (p.y = e.start.y /\ p.x >= x)
        <4>1. p.y > e.begin.y \/ (p.y = e.begin.y /\ p.x >= e.begin.x)  BY <3>1 DEF AtOrAfter
        <4>2. p.x >= e.begin.x => p.x >= x  BY <1>1, <1>2, <1>4, <2>2
        <4>. QED  BY <1>1, <1>2, <1>7, <2>2, <4>1, <4>2
      <3>. QED  BY <1>6, <3>1 DEF AtOrAfter
    <2>5. Ahead(m, p)  BY <1>5, <2>1, <2>4 DEF Ahead, FirstPass, LastOfTwo
    <2>. QED  BY <2>3, <2>5 DEF Open
  <1>. QED  BY <1>10, <1>11

\* Its columns have all else from the entry.
LEMMA ColumnsArePart ==
    ASSUME NEW e \in Entries, NEW a \in Int, NEW b \in Int
    PROVE  Columns(e, a, b).begin = e.begin /\ Columns(e, a, b).pass = e.pass
  <1>1. e.start \in Points /\ e.stop \in Points  BY DEF Entries
  <1>. DEFINE s == [e.start EXCEPT !.x = a]
              t == [e.stop EXCEPT !.x = b]
  <1>2. Columns(e, a, b) = [e EXCEPT !.start = s, !.stop = t]  BY DEF Columns, Entries
  <1>. HIDE DEF s, t
  <1>3. /\ [e EXCEPT !.start = s, !.stop = t].begin = e.begin
        /\ [e EXCEPT !.start = s, !.stop = t].pass = e.pass
    BY DEF Entries
  <1>. QED  BY <1>2, <1>3

LEMMA NoLongerPart ==
    ASSUME NEW e \in Entries, NEW m, m = NoLongerSymmetric(e)
    PROVE  /\ m \in Entries /\ m.start = e.start /\ m.stop = e.stop
           /\ m.begin = e.begin /\ m.pass = e.pass
           /\ m.symmetry.y = e.symmetry.y /\ m.symmetry.x # "yes"
           /\ m.symmetry.x = e.symmetry.x \/ (e.symmetry.x = "yes" /\ m.symmetry.x = "no")
  <1>1. CASE e.symmetry.x = "yes"
    <2>. DEFINE s == [e.symmetry EXCEPT !.x = "no"]
    <2>1. s \in [x : Decision, y : Decision] /\ s.x = "no" /\ s.y = e.symmetry.y
      BY DEF Entries, Decision
    <2>2. [e EXCEPT !.symmetry.x = "no"] = [e EXCEPT !.symmetry = s]  BY DEF Entries
    <2>3. m = [e EXCEPT !.symmetry = s]  BY <1>1, <2>2 DEF NoLongerSymmetric
    <2>. HIDE DEF s
    <2>4. /\ m \in Entries /\ m.start = e.start /\ m.stop = e.stop
          /\ m.begin = e.begin /\ m.pass = e.pass /\ m.symmetry = s
      BY <2>1, <2>3 DEF Entries
    <2>. QED  BY <1>1, <2>1, <2>4
  <1>2. CASE e.symmetry.x # "yes"
    <2>1. m = e  BY <1>2 DEF NoLongerSymmetric
    <2>. QED  BY <1>2, <2>1
  <1>. QED  BY <1>1, <1>2

\* A window that starts over has all of itself open, and is blanked.
LEMMA RestartFresh ==
    ASSUME NEW st \in FixRecords, st.at \in 1 .. Len(st.list), NEW u, u = RestartWindow(st)
    PROVE  /\ u \in FixRecords /\ u.at = st.at /\ Len(u.list) = Len(st.list)
           /\ u.list[st.at].start = st.list[st.at].start /\ u.list[st.at].stop = st.list[st.at].stop
           /\ u.list[st.at].begin = st.list[st.at].start /\ u.list[st.at].pass = 0
           /\ u.list[st.at].symmetry = Undecided
           /\ u.blanked = st.blanked \cup (Area(st.list[st.at]) \cap Screen)
           /\ \A k \in 1 .. Len(st.list) : k # st.at => u.list[k] = st.list[k]
  <1>. DEFINE e == st.list[st.at]
              m == Entry(e.start, e.stop, e.start, 0, Undecided)
              b == st.blanked \cup (Rectangle(e) \cap Screen)
              v == Put(st, m)
  <1>1. e \in Entries  BY DEF FixRecords
  <1>2. /\ m \in Entries /\ m.start = e.start /\ m.stop = e.stop
        /\ m.begin = e.start /\ m.pass = 0 /\ m.symmetry = Undecided
    BY <1>1 DEF Entry, Entries, Undecided, Decision
  <1>. HIDE DEF m
  <1>3. /\ v \in FixRecords /\ v.at = st.at /\ v.blanked = st.blanked
        /\ Len(v.list) = Len(st.list) /\ v.list[st.at] = m
        /\ \A k \in 1 .. Len(st.list) : k # st.at => v.list[k] = st.list[k]
    BY <1>2, PutAt
  <1>4. u = [v EXCEPT !.blanked = @ \cup (Rectangle(e) \cap Screen)]
    BY DEF RestartWindow, m
  <1>. HIDE DEF v
  <1>5. u = [v EXCEPT !.blanked = v.blanked \cup (Rectangle(e) \cap Screen)]  BY <1>4
  <1>6. u = [v EXCEPT !.blanked = b] /\ Rectangle(e) = Area(e)  BY <1>3, <1>5, SameTables
  <1>7. u.blanked = b /\ u.at = v.at /\ u.list = v.list  BY <1>3, <1>6 DEF FixRecords
  <1>8. u \in FixRecords  BY RestartAt
  <1>. QED  BY <1>2, <1>3, <1>6, <1>7, <1>8

\* An entry off the screen has none of its pixels.
LEMMA OffTheScreen ==
    ASSUME NEW f, OneSided(f), NEW e \in Entries, Within(f, e), Offscreen(e)
    PROVE  Area(e) \cap Screen = {}
  <1>. SUFFICES ASSUME NEW p \in Screen, p \in Area(e)  PROVE FALSE
    OBVIOUS
  <1>1. p.x \in Int /\ p.y \in Int /\ 0 <= p.x /\ p.x <= XDots - 1 /\ 0 <= p.y /\ p.y <= YDots - 1
    BY OnScreen
  <1>2. /\ e.start.x \in Int /\ e.start.y \in Int /\ e.stop.x \in Int /\ e.stop.y \in Int
        /\ f.start.x \in Int /\ f.start.y \in Int /\ IsFrame(e)
    BY EntryFrame, FrameNumbers DEF OneSided
  <1>3. 0 <= e.start.y  BY <1>2 DEF OneSided, Within
  <1>. QED  BY <1>1, <1>2, <1>3, InArea, Sizes DEF Offscreen

-----------------------------------------------------------------------------
\* The turns of fix_work_list leave no pixel of C out, nor one that they blank.

FixCovers(ax, C) ==
    {st \in FixRecords :
        /\ \A k \in 1 .. Len(st.list) : Fits(ax, st.list[k])
        /\ \A q \in C \cup st.blanked : \E k \in 1 .. Len(st.list) : q \in Open(st.list[k])}

\* The entry and the copy of it, if there is one, have what it had open.
Regains(ax, st, u) ==
    LET m == u.list[st.at]
        c == u.list[Len(u.list)]
        copied == Len(u.list) = Len(st.list) + 1
    IN  /\ SameRest(st, u) /\ (copied \/ Len(u.list) = Len(st.list))
        /\ Fits(ax, m) /\ (copied => Fits(ax, c))
        /\ \A q \in Screen : q \in Open(st.list[st.at]) \/ q \in u.blanked \ st.blanked
                                => q \in Open(m) \/ (copied /\ q \in Open(c))

LEMMA RegainedCovers ==
    ASSUME NEW ax, NEW C, C \subseteq Screen, NEW st \in FixCovers(ax, C),
           st.at \in 1 .. Len(st.list), NEW u, Regains(ax, st, u)
    PROVE  u \in FixCovers(ax, C)
  <1>. DEFINE i == st.at
              n == Len(st.list)
              l == u.list
              c == l[Len(l)]
              copied == Len(l) = n + 1
  <1>1. /\ st \in FixRecords /\ \A k \in 1 .. n : Fits(ax, st.list[k])
        /\ \A q \in C \cup st.blanked : \E k \in 1 .. n : q \in Open(st.list[k])
    BY DEF FixCovers
  <1>2. /\ u \in FixRecords /\ \A k \in 1 .. n : k # i => l[k] = st.list[k]
        /\ copied \/ Len(l) = n
        /\ Fits(ax, l[i]) /\ (copied => Fits(ax, c))
        /\ \A q \in Screen : q \in Open(st.list[i]) \/ q \in u.blanked \ st.blanked
                                => q \in Open(l[i]) \/ (copied /\ q \in Open(c))
    BY DEF Regains, SameRest
  <1>3. u.blanked \subseteq Screen /\ st.blanked \subseteq Screen  BY <1>1, <1>2 DEF FixRecords
  <1>4. n \in Nat /\ Len(l) \in Nat /\ i \in 1 .. n  BY <1>1, <1>2 DEF FixRecords
  <1>. HIDE DEF i, n, l, c
  <1>5. /\ \A k \in 1 .. Len(l) : k \in 1 .. n \/ (copied /\ k = Len(l))
        /\ \A k \in 1 .. n : k \in 1 .. Len(l)
        /\ copied => Len(l) \in 1 .. Len(l)
    BY <1>2, <1>4
  <1>6. \A k \in 1 .. Len(l) : Fits(ax, l[k])
    <2>. TAKE k \in 1 .. Len(l)
    <2>1. CASE k \in 1 .. n
      <3>1. CASE k = i  BY <1>2, <3>1
      <3>2. CASE k # i  BY <1>1, <1>2, <2>1, <3>2
      <3>. QED  BY <3>1, <3>2
    <2>2. CASE copied /\ k = Len(l)  BY <1>2, <2>2 DEF c
    <2>. QED  BY <1>5, <2>1, <2>2
  <1>7. ASSUME NEW q \in C \cup u.blanked  PROVE \E k \in 1 .. Len(l) : q \in Open(l[k])
    <2>1. q \in Screen  BY <1>3
    <2>2. CASE q \in Open(st.list[i]) \/ q \in u.blanked \ st.blanked
      <3>1. q \in Open(l[i]) \/ (copied /\ q \in Open(c))  BY <1>2, <2>1, <2>2
      <3>. QED  BY <1>4, <1>5, <3>1 DEF c
    <2>3. CASE ~(q \in Open(st.list[i]) \/ q \in u.blanked \ st.blanked)
      <3>1. PICK k \in 1 .. n : q \in Open(st.list[k])  BY <1>1, <1>7, <2>3
      <3>2. k # i  BY <2>3, <3>1
      <3>3. l[k] = st.list[k] /\ k \in 1 .. Len(l)  BY <1>2, <1>5, <3>2
      <3>. QED  BY <3>1, <3>3
    <2>. QED  BY <2>2, <2>3
  <1>. QED  BY <1>2, <1>6, <1>7 DEF FixCovers, l

\* Partly off the left edge.
LEMMA LeftRegains ==
    ASSUME NEW ax, NEW f, NEW st \in FixRecords, st.at \in 1 .. Len(st.list),
           OnTheScreen(f, st.list[st.at]), Fits(ax, st.list[st.at]), st.list[st.at].start.x < 0,
           Len(st.list) <= MaxCalcWork
    PROVE  Regains(ax, st, FixLeftEdge(st))
  <1>. DEFINE e == st.list[st.at]
              j == e.stop.x + e.start.x
              whole == Put(st, Columns(e, 0, e.stop.x))
              split == SplitOff(st, 0, j)
              halves == Put(split, Columns(e, j + 1, e.stop.x))
  <1>1. /\ e \in Entries /\ e.start.x \in Int /\ e.stop.x \in Int /\ e.start.x < 0
        /\ 0 <= e.stop.x /\ e.stop.x <= XDots - 1 /\ Len(st.list) \in Nat /\ Fits(ax, e)
    BY DEF OnTheScreen, FixRecords
  <1>2. /\ whole \in FixRecords /\ whole.at = st.at /\ whole.blanked = st.blanked
        /\ Len(whole.list) = Len(st.list) /\ whole.list[st.at] = Columns(e, 0, e.stop.x)
        /\ \A k \in 1 .. Len(st.list) : k # st.at => whole.list[k] = st.list[k]
    <2>1. Columns(e, 0, e.stop.x) \in Entries  BY <1>1, ColumnsOf
    <2>. QED  BY <2>1, PutAt
  \* The columns that are on the screen.
  <1>3. ASSUME NEW m \in Entries, m.start.y = e.start.y, m.stop.y = e.stop.y, m.stop.x = e.stop.x,
               NEW q \in Screen, q \in Area(e), m.start.x <= q.x
        PROVE  q \in Area(m)
    <2>. HIDE DEF e
    <2>1. q \in Points /\ q.x \in Int /\ q.y \in Int  BY OnScreen
    <2>2. e.start.y <= q.y /\ q.y <= e.stop.y /\ q.x <= e.stop.x  BY <1>1, <1>3, EntryFrame, InArea
    <2>. QED  BY <1>3, <2>1, <2>2, EntryFrame, InArea
  <1>4. \A q \in Screen : q.x \in Int /\ 0 <= q.x  BY OnScreen
  <1>5. CASE e.symmetry.x # "yes"
    <2>1. FixLeftEdge(st) = whole  BY <1>1, <1>5 DEF FixLeftEdge
    <2>. DEFINE m == Columns(e, 0, e.stop.x)
    <2>2. /\ m \in Entries /\ m.symmetry = e.symmetry /\ m.begin = e.begin /\ m.pass = e.pass
          /\ m.start.x = 0 /\ m.start.y = e.start.y /\ m.stop.x = e.stop.x /\ m.stop.y = e.stop.y
      BY <1>1, ColumnsOf, ColumnsArePart
    <2>3. whole.list[st.at] = m  BY <1>2
    <2>. HIDE DEF whole, m, e
    <2>4. Part(e, m)  BY <1>1, <1>5, <2>2 DEF Part
    <2>5. Fits(ax, m) /\ Open(e) \cap Area(m) \subseteq Open(m)  BY <1>1, <2>2, <2>4, PartFits
    <2>6. ASSUME NEW q \in Screen, q \in Open(e)  PROVE q \in Open(m)
      <3>1. q \in Area(e)  BY <2>6 DEF Open
      <3>2. q \in Area(m)  BY <1>3, <1>4, <2>2, <3>1
      <3>. QED  BY <2>5, <2>6, <3>2
    <2>7. Regains(ax, st, whole)
      <3>1. SameRest(st, whole) /\ whole.blanked \ st.blanked = {}  BY <1>2 DEF SameRest
      <3>2. ~(Len(whole.list) = Len(st.list) + 1)  BY <1>1, <1>2
      <3>. QED  BY <1>2, <2>3, <2>5, <2>6, <3>1, <3>2 DEF Regains, e
    <2>. QED  BY <2>1, <2>7
  <1>6. CASE e.symmetry.x = "yes" /\ ~(j > 0 /\ RoomToCopy(st.list))
    <2>1. FixLeftEdge(st) = RestartWindow(whole)  BY <1>1, <1>6 DEF FixLeftEdge
    <2>. DEFINE c == Columns(e, 0, e.stop.x)
    <2>2. /\ c \in Entries /\ c.start.x = 0 /\ c.start.y = e.start.y /\ c.stop.x = e.stop.x
          /\ c.stop.y = e.stop.y /\ whole.list[st.at] = c
      BY <1>1, <1>2, ColumnsOf
    <2>. HIDE DEF whole, c
    <2>. DEFINE u == RestartWindow(whole)
                m == u.list[st.at]
    <2>3. st.at \in 1 .. Len(whole.list)  BY <1>2
    <2>4. /\ u \in FixRecords /\ u.at = whole.at /\ Len(u.list) = Len(whole.list)
          /\ m.start = c.start /\ m.stop = c.stop
          /\ m.begin = c.start /\ m.pass = 0 /\ m.symmetry = Undecided
          /\ u.blanked = whole.blanked \cup (Area(c) \cap Screen)
          /\ \A k \in 1 .. Len(whole.list) : k # whole.at => u.list[k] = whole.list[k]
      BY <1>2, <2>2, <2>3, RestartFresh
    <2>5. m \in Entries  BY <1>2, <2>3, <2>4 DEF FixRecords
    <2>. HIDE DEF u
    <2>6. m \in Entries /\ m.begin = m.start /\ m.pass = 0 /\ m.symmetry = Undecided  BY <2>4, <2>5
    <2>7. m.start.x = 0 /\ m.start.y = e.start.y /\ m.stop.x = e.stop.x /\ m.stop.y = e.stop.y
      BY <2>2, <2>4
    <2>8. Area(m) = Area(c)  BY <2>4 DEF Area
    <2>. HIDE DEF m, e
    <2>9. Fits(ax, m) /\ Open(m) = Area(m)  BY <2>6, FreshFits
    <2>10. ASSUME NEW q \in Screen, q \in Open(e) \/ q \in u.blanked \ st.blanked  PROVE q \in Open(m)
      <3>1. CASE q \in Open(e)
        <4>1. q \in Area(e)  BY <3>1 DEF Open
        <4>. QED  BY <1>3, <1>4, <2>6, <2>7, <2>9, <4>1
      <3>2. CASE q \in u.blanked \ st.blanked  BY <1>2, <2>4, <2>8, <2>9, <3>2
      <3>. QED  BY <2>10, <3>1, <3>2
    <2>11. Regains(ax, st, u)
      <3>1. SameRest(st, u)  BY <1>2, <2>4 DEF SameRest
      <3>2. ~(Len(u.list) = Len(st.list) + 1) /\ Len(u.list) = Len(st.list)  BY <1>1, <1>2, <2>4
      <3>. QED  BY <2>9, <2>10, <3>1, <3>2 DEF Regains, e, m
    <2>. QED  BY <2>1, <2>11 DEF u
  <1>7. CASE e.symmetry.x = "yes" /\ j > 0 /\ RoomToCopy(st.list)
    <2>1. FixLeftEdge(st) = RestartWindow(halves)  BY <1>1, <1>7 DEF FixLeftEdge
    <2>2. j \in Int /\ 0 <= j /\ j + 1 \in Int /\ j + 1 <= e.stop.x /\ j = e.start.x + e.stop.x
      <3>. HIDE DEF e
      <3>. QED  BY <1>1, <1>7
    <2>. HIDE DEF j
    <2>. DEFINE c == Columns(e, 0, j)
                g == Columns(e, j + 1, e.stop.x)
    <2>3. /\ c \in Entries /\ c.symmetry = e.symmetry /\ c.begin = e.begin /\ c.pass = e.pass
          /\ c.start.x = 0 /\ c.start.y = e.start.y /\ c.stop.x = j /\ c.stop.y = e.stop.y
          /\ g \in Entries /\ g.start.x = j + 1 /\ g.start.y = e.start.y
          /\ g.stop.x = e.stop.x /\ g.stop.y = e.stop.y
      <3>. HIDE DEF e
      <3>1. c \in Entries /\ g \in Entries /\ c.start.x = 0 /\ c.stop.x = j
            /\ g.start.x = j + 1 /\ g.stop.x = e.stop.x
        BY <1>1, <2>2, ColumnsOf
      <3>2. /\ c.symmetry = e.symmetry /\ c.start.y = e.start.y /\ c.stop.y = e.stop.y
            /\ g.start.y = e.start.y /\ g.stop.y = e.stop.y
        BY <1>1, <2>2, ColumnsOf
      <3>3. c.begin = e.begin /\ c.pass = e.pass
        <4>1. e \in Entries /\ 0 \in Int /\ j \in Int  BY <1>1, <2>2
        <4>. QED  BY ONLY <4>1, ColumnsArePart
      <3>. QED  BY <3>1, <3>2, <3>3
    <2>4. /\ split \in FixRecords /\ split.at = st.at /\ Len(split.list) = Len(st.list) + 1
          /\ split.list[Len(st.list) + 1] = c /\ split.blanked = st.blanked
          /\ \A k \in 1 .. Len(st.list) : split.list[k] = st.list[k]
      BY <2>2, SplitOffAt
    <2>5. split.at \in 1 .. Len(split.list)  BY <1>1, <2>4
    <2>. HIDE DEF split
    <2>6. /\ halves \in FixRecords /\ halves.at = split.at /\ Len(halves.list) = Len(split.list)
          /\ halves.list[split.at] = g /\ halves.blanked = split.blanked
          /\ \A k \in 1 .. Len(split.list) : k # split.at => halves.list[k] = split.list[k]
      BY <2>3, <2>4, <2>5, PutAt
    <2>7. halves.at \in 1 .. Len(halves.list)  BY <2>5, <2>6
    <2>. HIDE DEF halves, c, g
    <2>. DEFINE u == RestartWindow(halves)
                m == u.list[st.at]
    <2>8. /\ u \in FixRecords /\ u.at = halves.at /\ Len(u.list) = Len(halves.list)
          /\ m.start = g.start /\ m.stop = g.stop
          /\ m.begin = g.start /\ m.pass = 0 /\ m.symmetry = Undecided
          /\ u.blanked = halves.blanked \cup (Area(g) \cap Screen)
          /\ \A k \in 1 .. Len(halves.list) : k # halves.at => u.list[k] = halves.list[k]
      BY <2>4, <2>6, <2>7, RestartFresh
    <2>9. m \in Entries  BY <2>4, <2>6, <2>7, <2>8 DEF FixRecords
    <2>. HIDE DEF u
    <2>10. m \in Entries /\ m.begin = m.start /\ m.pass = 0 /\ m.symmetry = Undecided  BY <2>8, <2>9
    <2>11. m.start.x = j + 1 /\ m.start.y = e.start.y /\ m.stop.x = e.stop.x /\ m.stop.y = e.stop.y
      BY <2>3, <2>8
    <2>12. Area(m) = Area(g)  BY <2>8 DEF Area
    <2>13. /\ \A k \in 1 .. Len(st.list) : k \in 1 .. Len(split.list)
           /\ Len(split.list) \in 1 .. Len(split.list) /\ Len(split.list) # st.at
      BY <1>1, <2>4
    <2>14. SameRest(st, u)  BY <2>4, <2>6, <2>8, <2>13 DEF SameRest
    <2>15. u.list[Len(u.list)] = c /\ Len(u.list) = Len(st.list) + 1
      BY <2>4, <2>6, <2>8, <2>13
    <2>. HIDE DEF m, e
    <2>16. Fits(ax, m) /\ Open(m) = Area(m)  BY <2>10, FreshFits
    <2>17. Part(e, c)  BY <1>1, <2>2, <2>3 DEF Part
    <2>18. Fits(ax, c) /\ Open(e) \cap Area(c) \subseteq Open(c)  BY <1>1, <2>3, <2>17, PartFits
    <2>19. ASSUME NEW q \in Screen, q \in Open(e) \/ q \in u.blanked \ st.blanked
           PROVE  q \in Open(m) \/ q \in Open(c)
      <3>1. CASE q \in Open(e)
        <4>1. q \in Area(e) /\ q.x \in Int /\ 0 <= q.x  BY <1>4, <3>1 DEF Open
        <4>2. CASE q.x >= j + 1  BY <1>3, <2>10, <2>11, <2>16, <4>1, <4>2
        <4>3. CASE q.x <= j
          <5>1. q \in Points /\ q.y \in Int /\ e.start.y <= q.y /\ q.y <= e.stop.y
            BY <1>1, <4>1, EntryFrame, InArea
          <5>2. q \in Area(c)  BY <2>3, <4>1, <4>3, <5>1, EntryFrame, InArea
          <5>. QED  BY <2>18, <3>1, <5>2
        <4>. QED  BY <2>2, <4>1, <4>2, <4>3
      <3>2. CASE q \in u.blanked \ st.blanked  BY <2>4, <2>6, <2>8, <2>12, <2>16, <3>2
      <3>. QED  BY <2>19, <3>1, <3>2
    <2>20. Regains(ax, st, u)  BY <2>14, <2>15, <2>16, <2>18, <2>19 DEF Regains, e, m
    <2>. QED  BY <2>1, <2>20 DEF u
  <1>. QED  BY <1>5, <1>6, <1>7

\* The columns up to b, without symmetry.
LEMMA NarrowedFits ==
    ASSUME NEW ax, NEW n \in Entries, Fits(ax, n), NEW b \in Int,
           n.symmetry.x # "yes" \/ 2 * b <= n.start.x + n.stop.x,
           NEW m, m = NoLongerSymmetric(Columns(n, n.start.x, b))
    PROVE  /\ m \in Entries /\ m.start.x = n.start.x /\ m.start.y = n.start.y
           /\ m.stop.x = b /\ m.stop.y = n.stop.y
           /\ Fits(ax, m) /\ Open(n) \cap Area(m) \subseteq Open(m)
  <1>. DEFINE c == Columns(n, n.start.x, b)
  <1>1. n.start.x \in Int /\ n.stop.x \in Int  BY EntryNumbers
  <1>2. /\ c \in Entries /\ c.symmetry = n.symmetry
        /\ c.start.x = n.start.x /\ c.start.y = n.start.y /\ c.stop.x = b /\ c.stop.y = n.stop.y
    BY <1>1, ColumnsOf
  <1>3. c.begin = n.begin /\ c.pass = n.pass
    <2>1. n \in Entries /\ n.start.x \in Int /\ b \in Int  BY <1>1
    <2>. QED  BY ONLY <2>1, ColumnsArePart
  <1>. HIDE DEF c
  <1>4. /\ m \in Entries /\ m.start = c.start /\ m.stop = c.stop
        /\ m.begin = c.begin /\ m.pass = c.pass
        /\ m.symmetry.y = c.symmetry.y /\ m.symmetry.x # "yes"
        /\ m.symmetry.x = c.symmetry.x \/ (c.symmetry.x = "yes" /\ m.symmetry.x = "no")
    <2>1. m = NoLongerSymmetric(c)  BY DEF c
    <2>. QED  BY <1>2, <2>1, NoLongerPart
  <1>5. Part(n, m)  BY <1>1, <1>2, <1>3, <1>4 DEF Part
  <1>6. m.symmetry.x = n.symmetry.x \/ 2 * m.stop.x <= n.start.x + n.stop.x
    BY <1>2, <1>4
  <1>. QED  BY <1>2, <1>4, <1>5, <1>6, PartFits

\* Partly off the right edge, or not at all.
LEMMA RightRegains ==
    ASSUME NEW ax, NEW f, NEW st \in FixRecords, st.at \in 1 .. Len(st.list),
           OnTheScreen(f, st.list[st.at]), Fits(ax, st.list[st.at]), st.list[st.at].start.x >= 0,
           Len(st.list) <= MaxCalcWork
    PROVE  Regains(ax, st, FixRightEdge(st))
  <1>. DEFINE e == st.list[st.at]
              last == XDots - 1
              i == e.start.x + (e.stop.x - last)
              splits == e.symmetry.x = "yes" /\ i < last
              room == RoomToCopy(st.list)
              split == SplitOff(st, i, last)
              Narrow(n, b) == NoLongerSymmetric(Columns(n, e.start.x, b))
  <1>1. /\ e \in Entries /\ e.start.x \in Int /\ e.stop.x \in Int /\ 0 <= e.start.x
        /\ e.start.x <= e.stop.x /\ e.start.x < XDots /\ Len(st.list) \in Nat /\ XDots \in Int
        /\ OnTheScreen(f, e) /\ Fits(ax, e)
    BY Sizes DEF OnTheScreen, FixRecords
  <1>2. CASE e.stop.x < XDots
    <2>1. FixRightEdge(st) = st  BY <1>2 DEF FixRightEdge
    <2>2. SameRest(st, st) /\ st.blanked \ st.blanked = {}  BY DEF SameRest
    <2>3. ~(Len(st.list) = Len(st.list) + 1)  BY <1>1
    <2>4. Regains(ax, st, st)  BY <2>2, <2>3 DEF Regains
    <2>. QED  BY <2>1, <2>4
  <1>3. CASE e.stop.x >= XDots
    \* The entry is narrowed in a list that is the same but for a copy.
    <2>1. ASSUME NEW next \in FixRecords, next.at = st.at,
                 Len(next.list) = Len(st.list) \/ Len(next.list) = Len(st.list) + 1,
                 \A k \in 1 .. Len(st.list) : k # st.at => next.list[k] = st.list[k],
                 NEW m \in Entries
          PROVE  /\ SameRest(st, Put(next, m))
                 /\ Len(Put(next, m).list) = Len(next.list)
                 /\ Put(next, m).list[st.at] = m /\ Put(next, m).blanked = next.blanked
                 /\ Len(next.list) = Len(st.list) + 1 =>
                       Put(next, m).list[Len(next.list)] = next.list[Len(next.list)]
      <3>1. /\ next.at \in 1 .. Len(next.list) /\ Len(next.list) \in Nat
            /\ \A k \in 1 .. Len(st.list) : k \in 1 .. Len(next.list)
            /\ Len(next.list) = Len(st.list) + 1 =>
                  Len(next.list) \in 1 .. Len(next.list) /\ Len(next.list) # next.at
        BY <1>1, <2>1 DEF FixRecords
      <3>. DEFINE u == Put(next, m)
      <3>2. /\ u \in FixRecords /\ u.at = next.at /\ u.blanked = next.blanked
            /\ Len(u.list) = Len(next.list) /\ u.list[next.at] = m
            /\ \A k \in 1 .. Len(next.list) : k # next.at => u.list[k] = next.list[k]
        BY <3>1, PutAt
      <3>. HIDE DEF u
      <3>3. SameRest(st, u)  BY <2>1, <3>1, <3>2 DEF SameRest
      <3>. QED  BY <2>1, <3>1, <3>2, <3>3 DEF u
    <2>2. FixRightEdge(st)
             = LET next == IF splits /\ room THEN split ELSE IF splits THEN RestartWindow(st) ELSE st
                   b    == IF splits /\ room THEN i - 1 ELSE last
               IN  Put(next, Narrow(next.list[st.at], b))
      BY <1>1, <1>3 DEF FixRightEdge
    <2>3. /\ last \in Int /\ i \in Int /\ e.start.x + 1 <= i /\ e.start.x <= last
          /\ i + last = e.start.x + e.stop.x /\ last <= e.stop.x
      <3>. HIDE DEF e
      <3>. QED  BY <1>1, <1>3
    <2>. HIDE DEF Narrow, i, last
    \* The columns that are on the screen.
    <2>4. ASSUME NEW m \in Entries, m.start.y = e.start.y, m.stop.y = e.stop.y,
                 NEW q \in Screen, q \in Area(e), m.start.x <= q.x, q.x <= m.stop.x
          PROVE  q \in Area(m)
      <3>. HIDE DEF e
      <3>1. q \in Points /\ q.x \in Int /\ q.y \in Int  BY OnScreen
      <3>2. e.start.y <= q.y /\ q.y <= e.stop.y  BY <1>1, <2>4, EntryFrame, InArea
      <3>. QED  BY <2>4, <3>1, <3>2, EntryFrame, InArea
    <2>5. ASSUME NEW q \in Screen, q \in Area(e)
          PROVE  q.x \in Int /\ e.start.x <= q.x /\ q.x <= last
      <3>. HIDE DEF e
      <3>1. q.x \in Int /\ q.x <= XDots - 1  BY OnScreen
      <3>2. e.start.x <= q.x  BY <1>1, <2>5, EntryFrame, InArea
      <3>. QED  BY <3>1, <3>2 DEF last
    <2>6. \A q \in Open(e) : q \in Area(e)  BY DEF Open
    <2>7. CASE splits /\ room
      <3>. DEFINE c == Columns(e, i, last)
                  m == Narrow(e, i - 1)
      <3>1. /\ split \in FixRecords /\ split.at = st.at /\ split.blanked = st.blanked
            /\ Len(split.list) = Len(st.list) + 1 /\ split.list[Len(st.list) + 1] = c
            /\ \A k \in 1 .. Len(st.list) : split.list[k] = st.list[k]
        BY <2>3, SplitOffAt
      <3>2. FixRightEdge(st) = Put(split, m)  BY <2>2, <2>7, <3>1
      <3>. HIDE DEF split
      <3>3. i - 1 \in Int /\ 2 * (i - 1) <= e.start.x + e.stop.x
        <4>. HIDE DEF e
        <4>. QED  BY <1>1, <2>3, <2>7
      <3>4. /\ c \in Entries /\ c.symmetry = e.symmetry
            /\ c.start.x = i /\ c.start.y = e.start.y /\ c.stop.x = last /\ c.stop.y = e.stop.y
        BY <1>1, <2>3, ColumnsOf
      <3>5. c.begin = e.begin /\ c.pass = e.pass
        <4>1. e \in Entries /\ i \in Int /\ last \in Int  BY <1>1, <2>3
        <4>. QED  BY ONLY <4>1, ColumnsArePart
      <3>6. /\ m \in Entries /\ m.start.x = e.start.x /\ m.start.y = e.start.y
            /\ m.stop.x = i - 1 /\ m.stop.y = e.stop.y
            /\ Fits(ax, m) /\ Open(e) \cap Area(m) \subseteq Open(m)
        <4>. HIDE DEF e
        <4>1. m = NoLongerSymmetric(Columns(e, e.start.x, i - 1))  BY DEF Narrow
        <4>. HIDE DEF m
        <4>. QED  BY <1>1, <3>3, <4>1, NarrowedFits
      <3>. DEFINE u == Put(split, m)
      <3>. HIDE DEF c, m
      <3>7. /\ SameRest(st, u) /\ Len(u.list) = Len(st.list) + 1 /\ u.list[st.at] = m
            /\ u.blanked = st.blanked /\ u.list[Len(u.list)] = c
        BY <2>1, <3>1, <3>6
      <3>. HIDE DEF u, e
      <3>8. Part(e, c)  BY <1>1, <2>3, <3>4, <3>5 DEF Part
      <3>9. Fits(ax, c) /\ Open(e) \cap Area(c) \subseteq Open(c)  BY <1>1, <3>4, <3>8, PartFits
      <3>10. ASSUME NEW q \in Screen, q \in Open(e)  PROVE q \in Open(m) \/ q \in Open(c)
        <4>1. q \in Area(e) /\ q.x \in Int /\ e.start.x <= q.x /\ q.x <= last
          BY <2>5, <2>6, <3>10
        <4>2. CASE q.x <= i - 1
          <5>1. q \in Area(m)  BY <2>4, <3>6, <4>1, <4>2
          <5>. QED  BY <3>6, <3>10, <5>1
        <4>3. CASE q.x >= i
          <5>1. q \in Area(c)  BY <2>4, <3>4, <4>1, <4>3
          <5>. QED  BY <3>9, <3>10, <5>1
        <4>. QED  BY <2>3, <4>1, <4>2, <4>3
      <3>11. Regains(ax, st, u)  BY <3>6, <3>7, <3>9, <3>10 DEF Regains, e
      <3>. QED  BY <3>2, <3>11 DEF u
    <2>8. CASE ~(splits /\ room)
      <3>. DEFINE next == IF splits THEN RestartWindow(st) ELSE st
                  n == next.list[st.at]
                  m == Narrow(n, last)
                  u == Put(next, m)
      <3>1. FixRightEdge(st) = u  BY <2>2, <2>8
      <3>2. /\ next \in FixRecords /\ next.at = st.at /\ Len(next.list) = Len(st.list)
            /\ \A k \in 1 .. Len(st.list) : k # st.at => next.list[k] = st.list[k]
            /\ n.start = e.start /\ n.stop = e.stop /\ n \in Entries /\ Fits(ax, n)
            /\ n.symmetry.x # "yes" \/ 2 * last <= n.start.x + n.stop.x
            /\ Open(e) \subseteq Open(n)
            /\ next.blanked \ st.blanked \subseteq Open(n) \cap Area(e)
        <4>1. CASE splits
          <5>. DEFINE r == RestartWindow(st)
                      o == r.list[st.at]
          <5>1. next = r  BY <4>1
          <5>2. /\ r \in FixRecords /\ r.at = st.at /\ Len(r.list) = Len(st.list)
                /\ o.start = e.start /\ o.stop = e.stop
                /\ o.begin = e.start /\ o.pass = 0 /\ o.symmetry = Undecided
                /\ r.blanked = st.blanked \cup (Area(e) \cap Screen)
                /\ \A k \in 1 .. Len(st.list) : k # st.at => r.list[k] = st.list[k]
            BY RestartFresh
          <5>. HIDE DEF r, next
          <5>3. o \in Entries  BY <5>2 DEF FixRecords
          <5>. HIDE DEF o
          <5>4. o.begin = o.start /\ o.pass = 0 /\ o.symmetry = Undecided  BY <5>2
          <5>5. Fits(ax, o) /\ Open(o) = Area(o)  BY <5>3, <5>4, FreshFits
          <5>6. Area(o) = Area(e)  BY <5>2 DEF Area
          <5>7. o.symmetry.x # "yes"  BY <5>4 DEF Undecided
          <5>8. n = o  BY <5>1 DEF o
          <5>. HIDE DEF e
          <5>9. next.blanked \ st.blanked \subseteq Open(n) \cap Area(e)
            BY <5>1, <5>2, <5>5, <5>6, <5>8
          <5>10. Open(e) \subseteq Open(n)  BY <2>6, <5>5, <5>6, <5>8
          <5>. QED  BY <5>1, <5>2, <5>3, <5>5, <5>7, <5>8, <5>9, <5>10
        <4>2. CASE ~splits
          <5>1. next = st  BY <4>2
          <5>2. n = e  BY <5>1
          <5>. HIDE DEF next
          <5>3. e.symmetry.x # "yes" \/ 2 * last <= e.start.x + e.stop.x
            <6>. HIDE DEF e
            <6>. QED  BY <2>3, <4>2
          <5>. QED  BY <1>1, <5>1, <5>2, <5>3
        <4>. QED  BY <4>1, <4>2
      <3>. HIDE DEF next
      <3>3. /\ m \in Entries /\ m.start.x = e.start.x /\ m.start.y = e.start.y
            /\ m.stop.x = last /\ m.stop.y = e.stop.y
            /\ Fits(ax, m) /\ Open(n) \cap Area(m) \subseteq Open(m)
        <4>. HIDE DEF e, n
        <4>1. m = NoLongerSymmetric(Columns(n, n.start.x, last))  BY <3>2 DEF Narrow
        <4>. HIDE DEF m
        <4>. QED  BY <2>3, <3>2, <4>1, NarrowedFits
      <3>. HIDE DEF n, m
      <3>4. /\ SameRest(st, u) /\ Len(u.list) = Len(st.list) /\ u.list[st.at] = m
            /\ u.blanked = next.blanked
        BY <2>1, <3>2, <3>3
      <3>5. ~(Len(u.list) = Len(st.list) + 1)  BY <1>1, <3>4
      <3>. HIDE DEF u, e
      <3>6. ASSUME NEW q \in Screen, q \in Open(e) \/ q \in u.blanked \ st.blanked
            PROVE  q \in Open(m)
        <4>1. q \in Open(n) /\ q \in Area(e)  BY <2>6, <3>2, <3>4, <3>6
        <4>2. q.x \in Int /\ e.start.x <= q.x /\ q.x <= last  BY <2>5, <4>1
        <4>3. q \in Area(m)  BY <2>4, <3>3, <4>1, <4>2
        <4>. QED  BY <3>3, <4>1, <4>3
      <3>7. Regains(ax, st, u)  BY <3>3, <3>4, <3>5, <3>6 DEF Regains, e
      <3>. QED  BY <3>1, <3>7 DEF u
    <2>. QED  BY <2>7, <2>8
  <1>. QED  BY <1>1, <1>2, <1>3

\* The entry begins in itself.
LEMMA BeginRegains ==
    ASSUME NEW ax, NEW st \in FixRecords, st.at \in 1 .. Len(st.list),
           Within(WholeScreen, st.list[st.at]), Fits(ax, st.list[st.at])
    PROVE  Regains(ax, st, FixBegin(st))
  <1>. DEFINE e == st.list[st.at]
              m == [e EXCEPT !.begin = BeginWithin(e)]
              u == FixBegin(st)
  <1>1. /\ SameRest(st, u) /\ Len(u.list) = Len(st.list)
        /\ u.list[st.at] \in Framed(WholeScreen)
    BY BeginFixed
  <1>2. e \in Entries /\ e.start.x <= e.stop.x /\ Len(st.list) \in Nat
    BY DEF FixRecords, Within
  <1>3. u = Put(st, m)  BY DEF FixBegin
  <1>4. u = [st EXCEPT !.list = [st.list EXCEPT ![st.at] = m]]  BY <1>3 DEF Put, FixRecords
  <1>5. u.list[st.at] = m /\ u.blanked = st.blanked
    <2>. HIDE DEF m, e, u
    <2>. QED  BY <1>4 DEF FixRecords
  <1>6. Fits(ax, m) /\ Open(e) \subseteq Open(m)
    <2>1. m = [e EXCEPT !.begin = BeginWithin(e)] /\ Fits(ax, e)  OBVIOUS
    <2>. HIDE DEF e, m
    <2>. QED  BY <1>2, <2>1, BeginFits
  <1>7. ~(Len(u.list) = Len(st.list) + 1)  BY <1>1, <1>2
  <1>. HIDE DEF m, u
  <1>. QED  BY <1>1, <1>5, <1>6, <1>7 DEF Regains, u

-----------------------------------------------------------------------------
\* The entry that is deleted has no pixel of the screen.
LEMMA DeleteCovers ==
    ASSUME NEW ax, NEW C, C \subseteq Screen, NEW f, OneSided(f), NEW st \in FixCovers(ax, C),
           st.at \in 1 .. Len(st.list), Within(f, st.list[st.at]), Offscreen(st.list[st.at])
    PROVE  DeleteEntry(st) \in FixCovers(ax, C)
  <1>. DEFINE l == st.list
              i == st.at
              t == Delete(l, i)
              u == [st EXCEPT !.list = t]
              Was(k) == IF k < i THEN k ELSE k + 1
  <1>1. /\ st \in FixRecords /\ l \in Seq(Entries) /\ i \in 1 .. Len(l) /\ Len(l) \in Nat
        /\ st.blanked \subseteq Screen
        /\ \A k \in 1 .. Len(l) : Fits(ax, l[k])
        /\ \A q \in C \cup st.blanked : \E k \in 1 .. Len(l) : q \in Open(l[k])
    <2>1. /\ st \in FixRecords /\ \A k \in 1 .. Len(l) : Fits(ax, l[k])
          /\ \A q \in C \cup st.blanked : \E k \in 1 .. Len(l) : q \in Open(l[k])
      BY DEF FixCovers
    <2>2. l \in Seq(Entries) /\ st.blanked \in SUBSET Screen  BY <2>1 DEF FixRecords
    <2>. QED  BY <2>1, <2>2
  <1>2. DeleteEntry(st) = u  BY DEF DeleteEntry
  <1>3. l[i] \in Entries /\ Within(f, l[i]) /\ Offscreen(l[i])  BY <1>1
  <1>. HIDE DEF l, i
  <1>4. Open(l[i]) \cap Screen = {}
    <2>1. Area(l[i]) \cap Screen = {}  BY <1>3, OffTheScreen
    <2>. QED  BY <2>1 DEF Open
  <1>5. /\ t \in Seq(Entries) /\ Len(t) = Len(l) - 1
        /\ \A k \in 1 .. Len(t) : t[k] = l[Was(k)]
    BY <1>1, Deleted
  <1>. HIDE DEF t
  <1>6. u \in FixRecords /\ u.list = t /\ u.blanked = st.blanked  BY <1>1, <1>5 DEF FixRecords
  <1>7. \A k \in 1 .. Len(t) : Was(k) \in 1 .. Len(l)  BY <1>1, <1>5
  <1>8. \A k \in 1 .. Len(l) : k # i => \E j \in 1 .. Len(t) : Was(j) = k
    <2>. TAKE k \in 1 .. Len(l)
    <2>. HAVE k # i
    <2>1. CASE k < i
      <3>1. k \in 1 .. Len(t) /\ Was(k) = k  BY <1>1, <1>5, <2>1
      <3>. QED  BY <3>1
    <2>2. CASE k > i
      <3>1. k - 1 \in 1 .. Len(t) /\ Was(k - 1) = k  BY <1>1, <1>5, <2>2
      <3>. QED  BY <3>1
    <2>. HIDE DEF Was
    <2>. QED  BY <1>1, <2>1, <2>2
  <1>. HIDE DEF Was, u
  <1>9. \A k \in 1 .. Len(t) : Fits(ax, t[k])  BY <1>1, <1>5, <1>7
  <1>10. ASSUME NEW q \in C \cup st.blanked  PROVE \E k \in 1 .. Len(t) : q \in Open(t[k])
    <2>1. PICK k \in 1 .. Len(l) : q \in Open(l[k])  BY <1>1
    <2>2. q \in Screen  BY <1>1
    <2>3. k # i  BY <1>4, <2>1, <2>2
    <2>4. PICK j \in 1 .. Len(t) : Was(j) = k  BY <1>8, <2>3
    <2>. QED  BY <1>5, <2>1, <2>4
  <1>. QED  BY <1>2, <1>6, <1>9, <1>10 DEF FixCovers

\* The entry that is fixed: its left or its right edge, and where it begins.
LEMMA FixTurnCovers ==
    ASSUME NEW ax, NEW C, C \subseteq Screen, NEW f, OneSided(f), NEW st \in FixCovers(ax, C),
           st.at \in 1 .. Len(st.list), Len(st.list) <= MaxCalcWork,
           Within(f, st.list[st.at]), ~Offscreen(st.list[st.at]),
           NEW u, u = [FixBegin(FixRightEdge(FixLeftEdge(st))) EXCEPT !.at = @ + 1]
    PROVE  u \in FixCovers(ax, C)
  <1>. DEFINE l == st.list
              i == st.at
              e == l[i]
              v == FixRightEdge(FixLeftEdge(st))
              w == FixBegin(v)
  <1>1. /\ st \in FixRecords /\ l \in Seq(Entries) /\ i \in 1 .. Len(l) /\ Len(l) \in Nat
        /\ Fits(ax, e)
    <2>1. st \in FixRecords /\ \A k \in 1 .. Len(l) : Fits(ax, l[k])  BY DEF FixCovers
    <2>2. l \in Seq(Entries)  BY <2>1 DEF FixRecords
    <2>. QED  BY <2>1, <2>2
  <1>2. e \in Entries /\ OnTheScreen(f, e)
    <2>1. e \in Entries /\ Within(f, e) /\ ~Offscreen(e)  BY <1>1
    <2>. HIDE DEF e
    <2>. QED  BY <2>1, NotOffscreen
  <1>3. Clipped(st, v) /\ Regains(ax, st, v)
    <2>1. CASE e.start.x < 0
      <3>. DEFINE t == FixLeftEdge(st)
      <3>1. Clipped(st, t)  BY <1>1, <1>2, <2>1, LeftEdge
      <3>2. FixRightEdge(t) = t
        <4>1. t.at = i /\ Within(WholeScreen, t.list[i]) /\ t.list[i] \in Entries
          <5>1. /\ t \in FixRecords /\ t.at = i /\ Within(WholeScreen, t.list[i])
                /\ Len(t.list) = Len(l) \/ Len(t.list) = Len(l) + 1
            BY <3>1 DEF Clipped
          <5>2. i \in 1 .. Len(t.list) /\ t.list \in Seq(Entries)  BY <1>1, <5>1 DEF FixRecords
          <5>. QED  BY <5>1, <5>2
        <4>2. t.list[i].stop.x \in Int /\ t.list[i].stop.x <= XDots - 1
          BY <4>1, EntryFrame, FrameNumbers, ScreenFrame DEF Within
        <4>3. t.list[t.at].stop.x < XDots  BY <4>1, <4>2, Sizes
        <4>. QED  BY <4>3 DEF FixRightEdge
      <3>3. Regains(ax, st, t)  BY <1>1, <1>2, <2>1, LeftRegains
      <3>. QED  BY <3>1, <3>2, <3>3
    <2>2. CASE ~(e.start.x < 0)
      <3>1. e.start.x >= 0  BY <1>2, <2>2 DEF OnTheScreen
      <3>2. FixLeftEdge(st) = st  BY <2>2, <3>1 DEF FixLeftEdge
      <3>3. Clipped(st, FixRightEdge(st))  BY <1>1, <1>2, <3>1, RightEdge
      <3>4. Regains(ax, st, FixRightEdge(st))  BY <1>1, <1>2, <3>1, RightRegains
      <3>. QED  BY <3>2, <3>3, <3>4
    <2>. QED  BY <2>1, <2>2
  <1>. HIDE DEF v
  <1>4. v \in FixCovers(ax, C)  BY <1>3, RegainedCovers
  <1>5. /\ v \in FixRecords /\ v.at = i /\ Within(WholeScreen, v.list[v.at])
        /\ v.at \in 1 .. Len(v.list)
    <2>1. /\ v \in FixRecords /\ v.at = i /\ Within(WholeScreen, v.list[v.at])
          /\ Len(v.list) = Len(l) \/ Len(v.list) = Len(l) + 1
      BY <1>3 DEF Clipped
    <2>2. v.list \in Seq(Entries)  BY <2>1 DEF FixRecords
    <2>. QED  BY <1>1, <2>1, <2>2
  <1>6. Fits(ax, v.list[v.at])  BY <1>4, <1>5 DEF FixCovers
  <1>7. Regains(ax, v, w)  BY <1>5, <1>6, BeginRegains
  <1>. HIDE DEF w
  <1>8. w \in FixCovers(ax, C)  BY <1>4, <1>5, <1>7, RegainedCovers
  <1>9. w.at = v.at /\ w \in FixRecords  BY <1>7 DEF Regains, SameRest
  <1>10. u = [w EXCEPT !.at = w.at + 1]  BY DEF w, v
  <1>11. u \in FixRecords /\ u.list = w.list /\ u.blanked = w.blanked
    <2>1. w.at + 1 \in Nat  BY <1>9 DEF FixRecords
    <2>. QED  BY <1>9, <1>10, <2>1 DEF FixRecords
  <1>. QED  BY <1>8, <1>11 DEF FixCovers

\* All the turns: what was open stays covered, and what they blank is.
LEMMA FixedCovers ==
    ASSUME NEW ax, NEW f, OneSided(f), NEW list \in FitTables(f, {}, ax),
           NEW p \in Screen, \E k \in 1 .. Len(list) : p \in Area(list[k]),
           NEW C, C = Screen \cap CoveredBy(Opens, list)
    PROVE  /\ FixWorkList(list).list \in FitTables(WholeScreen, {}, ax)
           /\ C \cup FixWorkList(list).blanked \subseteq CoveredBy(Opens, FixWorkList(list).list)
  <1>. DEFINE N == 3 * MaxCalcWork
              c == [list |-> list, at |-> 1, blanked |-> {}]
              S1 == FixStates(f, p) \cap FixCovers(ax, C)
              turn == [q \in S1 \X Nat |-> FixEntry(q[1])]
              IsLoop(g) == g = [n \in 0 .. N |-> IF n = 0 THEN c ELSE FixEntry(g[n - 1])]
              after == CHOOSE g : IsLoop(g)
              Far(st, n) == st.at > Len(st.list) \/ n <= Progress(st)
              P == {n \in 0 .. N : after[n] \in S1 /\ Far(after[n], n)}
  <1>1. N \in Nat /\ MaxCalcWork \in Nat \ {0}  BY Sizes
  <1>2. /\ list \in Seq(Entries) /\ Len(list) \in Nat /\ Len(list) <= MaxCalcWork
        /\ \A k \in 1 .. Len(list) : Within(f, list[k]) /\ Fits(ax, list[k])
        /\ \A i, j \in 1 .. Len(list) : i # j => Area(list[i]) \cap Area(list[j]) = {}
    <2>0. list \in Tables(f, {}) /\ \A k \in 1 .. Len(list) : Fits(ax, list[k])  BY DEF FitTables
    <2>1. /\ list \in Seq(Entries) /\ Len(list) <= MaxCalcWork
          /\ \A k \in 1 .. Len(list) : list[k] \in Clear(f, {})
          /\ \A i, j \in 1 .. Len(list) : i # j => Area(list[i]) \cap Area(list[j]) = {}
      BY <2>0, InTable
    <2>2. Len(list) \in Nat  BY <2>1
    <2>3. \A k \in 1 .. Len(list) : Within(f, list[k])  BY <2>1 DEF Clear, Framed
    <2>. QED  BY <2>0, <2>1, <2>2, <2>3
  <1>3. c \in S1 /\ Far(c, 0)
    <2>1. c \in FixRecords  BY <1>2 DEF FixRecords
    <2>2. c.list = list /\ c.at = 1 /\ c.blanked = {}  OBVIOUS
    <2>. HIDE DEF c
    <2>3. 1 \in 1 .. Len(list) + 1 /\ \A k \in 1 .. Len(list) : ~(k < 1)  BY <1>2
    <2>4. c \in FixStates(f, p)
      <3>1. /\ Len(c.list) <= MaxCalcWork /\ c.at \in 1 .. Len(c.list) + 1
            /\ \A k \in 1 .. Len(c.list) :
                  IF k < c.at THEN c.list[k] \in Framed(WholeScreen) ELSE Within(f, c.list[k])
            /\ \A i, j \in 1 .. Len(c.list) : i # j => Area(c.list[i]) \cap Area(c.list[j]) = {}
            /\ \E k \in 1 .. Len(c.list) : p \in Area(c.list[k])
        BY <1>2, <2>2, <2>3
      <3>. QED  BY <2>1, <3>1 DEF FixStates
    <2>5. c \in FixCovers(ax, C)
      <3>1. \A q \in C : \E k \in 1 .. Len(list) : q \in Open(list[k])  BY <1>2, CoveredOpen
      <3>. QED  BY <1>2, <2>1, <2>2, <3>1 DEF FixCovers
    <2>6. 0 <= Progress(c)  BY <1>1, <1>2, <2>2 DEF Progress
    <2>. QED  BY <2>4, <2>5, <2>6
  <1>4. ASSUME NEW st \in S1
        PROVE  /\ FixEntry(st) \in S1
               /\ \A n \in Nat : Far(st, n - 1) => Far(FixEntry(st), n)
               /\ Progress(st) \in Int
    <2>1. /\ st.at \in Nat /\ st.list \in Seq(Entries) /\ Len(st.list) <= MaxCalcWork
          /\ st.at \in 1 .. Len(st.list) + 1
          /\ \A k \in 1 .. Len(st.list) :
                IF k < st.at THEN st.list[k] \in Framed(WholeScreen) ELSE Within(f, st.list[k])
      BY DEF FixStates, FixRecords
    <2>2. Len(st.list) \in Nat  BY <2>1
    <2>3. Progress(st) \in Int  BY <1>1, <2>1, <2>2 DEF Progress
    <2>4. st.at <= Len(st.list) => /\ st.at \in 1 .. Len(st.list) /\ Within(f, st.list[st.at])
                                   /\ ~(st.at > Len(st.list))
      BY <2>1, <2>2
    <2>5. C \subseteq Screen  OBVIOUS
    <2>6. CASE st.at > Len(st.list)
      <3>1. FixEntry(st) = st  BY <2>1, <2>2, <2>6 DEF FixEntry
      <3>. QED  BY <2>3, <2>6, <3>1
    <2>7. CASE st.at <= Len(st.list) /\ Offscreen(st.list[st.at])
      <3>1. FixEntry(st) = DeleteEntry(st)  BY <2>1, <2>2, <2>7 DEF FixEntry
      <3>2. FixEntry(st) \in FixStates(f, p) /\ Progress(FixEntry(st)) = Progress(st) + 1
        BY <2>7, <3>1, DeleteTurn
      <3>3. FixEntry(st) \in FixCovers(ax, C)  BY <2>4, <2>5, <2>7, <3>1, DeleteCovers
      <3>. QED  BY <2>3, <2>4, <2>7, <3>2, <3>3
    <2>8. CASE st.at <= Len(st.list) /\ ~Offscreen(st.list[st.at])
      <3>. DEFINE u == [FixBegin(FixRightEdge(FixLeftEdge(st))) EXCEPT !.at = @ + 1]
      <3>1. FixEntry(st) = u  BY <2>1, <2>2, <2>8 DEF FixEntry
      <3>2. u \in FixStates(f, p) /\ Progress(u) >= Progress(st) + 1  BY <2>8, FixTurn
      <3>3. u \in FixCovers(ax, C)  BY <2>1, <2>4, <2>5, <2>8, FixTurnCovers
      <3>. HIDE DEF u
      <3>4. Progress(u) \in Int
        <4>1. u.at \in Nat /\ u.list \in Seq(Entries)  BY <3>2 DEF FixStates, FixRecords
        <4>2. Len(u.list) \in Nat  BY <4>1
        <4>. QED  BY <1>1, <4>1, <4>2 DEF Progress
      <3>. QED  BY <2>3, <2>4, <2>8, <3>1, <3>2, <3>3, <3>4
    <2>. QED  BY <2>1, <2>2, <2>6, <2>7, <2>8
  <1>. HIDE DEF Far, N, S1, c
  <1>5. turn \in [S1 \X Nat -> S1]  BY <1>4
  <1>6. \E g : IsLoop(g)
    <2>. HIDE DEF turn
    <2>0. PICK g : TurnsOf(g, S1, c, N, turn)  BY <1>1, <1>3, <1>5, LoopExists
    <2>. USE DEF turn
    <2>1. /\ g \in [0 .. N -> S1]
          /\ \A n \in 0 .. N : g[n] = IF n = 0 THEN c ELSE turn[<<g[n - 1], n>>]
      BY <2>0 DEF TurnsOf
    <2>2. ASSUME NEW n \in 0 .. N
          PROVE  g[n] = IF n = 0 THEN c ELSE FixEntry(g[n - 1])
      <3>1. CASE n = 0  BY <3>1, <2>1
      <3>2. CASE n # 0
        <4>1. n - 1 \in 0 .. N /\ n \in Nat  BY <1>1, <3>2
        <4>2. g[n - 1] \in S1  BY <2>1, <4>1
        <4>3. turn[<<g[n - 1], n>>] = FixEntry(g[n - 1])  BY <4>1, <4>2
        <4>. QED  BY <2>1, <4>3, <3>2
      <3>. QED  BY <3>1, <3>2
    <2>3. g = [n \in 0 .. N |-> g[n]]  BY <2>1
    <2>4. IsLoop(g)  BY <2>2, <2>3
    <2>. QED  BY <2>4
  <1>7. IsLoop(after)
    <2>. HIDE DEF IsLoop
    <2>. QED  BY <1>6
  <1>. HIDE DEF after
  <1>8. 0 \in P  BY <1>1, <1>3, <1>7
  <1>9. \A n \in 1 .. N : n - 1 \in P => n \in P
    <2>. TAKE n \in 1 .. N
    <2>1. n \in 0 .. N /\ n # 0 /\ n \in Nat  BY <1>1
    <2>2. after[n] = FixEntry(after[n - 1])  BY <1>7, <2>1
    <2>. QED  BY <1>4, <2>1, <2>2
  <1>10. N \in P
    <2>1. P \in SUBSET (0 .. N)  OBVIOUS
    <2>. HIDE DEF P
    <2>2. \A n \in 0 .. N : n \in P  BY <1>1, <1>8, <1>9, <2>1, Turns
    <2>. QED  BY <1>1, <2>2
  <1>. DEFINE st == after[N]
              l == st.list
              t == TidyWorkList(l)
  <1>11. FixWorkList(list) = [st EXCEPT !.list = TidyWorkList(@)]
    BY DEF FixWorkList, after, N, c
  <1>12. st \in S1 /\ Far(st, N)  BY <1>10
  <1>. HIDE DEF st
  <1>13. /\ st \in FixRecords /\ Len(l) <= MaxCalcWork /\ st.at \in 1 .. Len(l) + 1
         /\ \A k \in 1 .. Len(l) :
               IF k < st.at THEN l[k] \in Framed(WholeScreen) ELSE Within(f, l[k])
         /\ \A i, j \in 1 .. Len(l) : i # j => Area(l[i]) \cap Area(l[j]) = {}
    BY <1>12 DEF S1, FixStates
  <1>14. /\ \A k \in 1 .. Len(l) : Fits(ax, l[k])
         /\ \A q \in C \cup st.blanked : \E k \in 1 .. Len(l) : q \in Open(l[k])
    BY <1>12 DEF S1, FixCovers
  <1>15. l \in Seq(Entries) /\ Len(l) \in Nat
    <2>1. l \in Seq(Entries)  BY <1>13 DEF FixRecords
    <2>. QED  BY <2>1
  \* The turns are enough for every entry.
  <1>16. st.at > Len(l)
    <2>1. st.at > Len(l) \/ 3 * MaxCalcWork <= 2 * (st.at - 1) + MaxCalcWork - Len(l)
      BY <1>12 DEF Far, Progress, N
    <2>2. st.at \in Int /\ st.at <= Len(l) + 1  BY <1>13, <1>15
    <2>. QED  BY <1>1, <1>13, <1>15, <2>1, <2>2
  <1>17. l \in FitTables(WholeScreen, {}, ax)
    <2>1. \A k \in 1 .. Len(l) : k < st.at  BY <1>13, <1>15, <1>16
    <2>2. \A k \in 1 .. Len(l) : l[k] \in Clear(WholeScreen, {})  BY <1>13, <2>1 DEF Clear
    <2>3. l \in Tables(WholeScreen, {})  BY <1>13, <1>15, <2>2, InTable
    <2>. QED  BY <1>14, <2>3 DEF FitTables
  <1>. HIDE DEF l
  <1>18. C \cup st.blanked \subseteq CoveredBy(Opens, l)  BY <1>14, <1>15, CoveredOpen
  <1>19. t \in FitTables(WholeScreen, {}, ax) /\ CoveredBy(Opens, l) \subseteq CoveredBy(Opens, t)
    BY <1>17, ScreenFrame, TidyFits
  <1>20. FixWorkList(list) = [st EXCEPT !.list = t]  BY <1>11 DEF l
  <1>. HIDE DEF t
  <1>21. [st EXCEPT !.list = t].list = t /\ [st EXCEPT !.list = t].blanked = st.blanked
    BY <1>13 DEF FixRecords
  <1>. QED  BY <1>18, <1>19, <1>20, <1>21

-----------------------------------------------------------------------------
\* A pan moves what is shown, and the rest of the screen is open in the list it leaves.
LEMMA PanCovers ==
    ASSUME Sideways, TypeOK, resume_data \in Tables(WholeScreen, {}), CoverInv,
           NEW d \in CompletedPans \cup SuspendedPans, Pan(d)
    PROVE  CoverInv'
  <1>1. /\ calc_status = "COMPLETED" \/ (calc_status = "RESUMABLE" /\ d \in SuspendedPans)
        /\ InitPanOrRecalc(d)
    BY DEF Pan
  <1>2. calc_status = "RESUMABLE" => d.y = 0  BY <1>1 DEF Sideways
  <1>3. IsPan(d) /\ axis \in Points  BY PansInRange DEF TypeOK
  <1>4. /\ calc_status = "RESUMABLE" => /\ resume_data \in FitTables(WholeScreen, {}, axis)
                                        /\ Screen \subseteq shown \cup CoveredBy(Opens, resume_data)
        /\ calc_status = "COMPLETED" => Screen \subseteq shown
    BY DEF CoverInv
  <1>5. CASE Recalc
    <2>1. ~(calc_status' = "RESUMABLE") /\ ~(calc_status' = "COMPLETED")  BY <1>5 DEF Recalc
    <2>. QED  BY <2>1 DEF CoverInv
  <1>6. CASE UNCHANGED <<calc_status, resume_data, shown, axis>>
    <2>1. /\ calc_status' = calc_status /\ resume_data' = resume_data /\ shown' = shown
          /\ axis' = axis
      BY <1>6
    <2>. QED  BY <1>4, <2>1 DEF CoverInv
  <1>7. CASE Aligned(d) /\ ~EdgeRefused(d) /\ PanBy(d) /\ axis' = Minus(axis, d)
    <2>. DEFINE l == WithEdges(d, Len(Edges(d)))
                fixed == FixWorkList(l)
                C == Screen \cap CoveredBy(Opens, l)
                ax == Minus(axis, d)
    <2>1. \E p \in Screen : \E k \in 1 .. Len(l) : p \in Area(l[k])
      BY <1>2, <1>3, <1>7, WithEdgesApart
    <2>2. /\ l \in FitTables(Reach(d), {}, ax)
          /\ \A q \in Screen :
                \/ Plus(q, d) \notin Screen
                \/ calc_status = "RESUMABLE" /\ Plus(q, d) \in CoveredBy(Opens, resume_data)
                => q \in CoveredBy(Opens, l)
      BY <1>2, <1>3, <1>4, <1>7, WithEdgesFits
    <2>3. /\ calc_status' = "RESUMABLE" /\ resume_data' = fixed.list
          /\ shown' = {p \in Screen : Plus(p, d) \in shown} \ fixed.blanked
      BY <1>7 DEF PanBy
    <2>4. axis' = ax  BY <1>7
    <2>. HIDE DEF l, ax
    <2>5. PICK p \in Screen : \E k \in 1 .. Len(l) : p \in Area(l[k])  BY <2>1
    <2>6. OneSided(Reach(d))  BY <1>3, ReachOneSided
    <2>7. /\ fixed.list \in FitTables(WholeScreen, {}, ax)
          /\ C \cup fixed.blanked \subseteq CoveredBy(Opens, fixed.list)
      BY <2>2, <2>5, <2>6, FixedCovers
    <2>. HIDE DEF fixed
    <2>8. ASSUME NEW q \in Screen  PROVE q \in shown' \cup CoveredBy(Opens, resume_data')
      <3>1. CASE Plus(q, d) \in shown  BY <2>3, <2>7, <3>1
      <3>2. CASE Plus(q, d) \notin shown
        <4>1. \/ Plus(q, d) \notin Screen
              \/ calc_status = "RESUMABLE" /\ Plus(q, d) \in CoveredBy(Opens, resume_data)
          BY <1>1, <1>4, <3>2
        <4>2. q \in C  BY <2>2, <4>1
        <4>. QED  BY <2>3, <2>7, <4>2
      <3>. QED  BY <3>1, <3>2
    <2>9. ~(calc_status' = "COMPLETED")  BY <2>3
    <2>10. resume_data' \in FitTables(WholeScreen, {}, axis')  BY <2>3, <2>4, <2>7
    <2>11. Screen \subseteq shown' \cup CoveredBy(Opens, resume_data')  BY <2>8
    <2>. QED  BY <2>9, <2>10, <2>11 DEF CoverInv
  <1>. QED  BY <1>1, <1>5, <1>6, <1>7 DEF InitPanOrRecalc

-----------------------------------------------------------------------------
\* The list is a table, and every pixel of the image shows its colour or is open in it.
LeftInv == IInv /\ CoverInv

LEMMA LeftInit == Init => LeftInv
  <1>1. Init => CoverInv
    <2>. SUFFICES ASSUME Init  PROVE CoverInv
      OBVIOUS
    <2>1. calc_status = "PARAMS_CHANGED"  BY DEF Init
    <2>. QED  BY <2>1 DEF CoverInv
  <1>. QED  BY <1>1, PanInit DEF LeftInv

\* What the invariant says of the list.
LEMMA LeftList ==
    ASSUME LeftInv
    PROVE  /\ TypeOK /\ resume_data \in Tables(WholeScreen, {}) /\ axis \in Points
           /\ calc_status = "RESUMABLE" => resume_data # <<>>
           /\ shown \subseteq Screen /\ CoverInv
  <1>1. TypeOK /\ EntriesOnScreen /\ EntriesApart /\ (calc_status = "RESUMABLE" => resume_data # <<>>)
    BY DEF LeftInv, IInv, PanInv
  <1>2. /\ resume_data \in Seq(Entries) /\ Len(resume_data) <= MaxCalcWork
        /\ axis \in Points /\ shown \subseteq Screen
    BY <1>1 DEF TypeOK
  <1>3. resume_data \in Tables(WholeScreen, {})
    BY <1>1, <1>2, ScreenTable DEF EntriesOnScreen, EntriesApart
  <1>. QED  BY <1>1, <1>2, <1>3 DEF LeftInv

LEMMA LeftNext == ASSUME Sideways, Sym # "ORIGIN"  PROVE LeftInv /\ [Next]_vars => LeftInv'
  <1>. SUFFICES ASSUME LeftInv, [Next]_vars  PROVE LeftInv'
    OBVIOUS
  <1>1. IInv'  BY PanNext DEF LeftInv
  <1>2. /\ TypeOK /\ resume_data \in Tables(WholeScreen, {}) /\ axis \in Points
        /\ calc_status = "RESUMABLE" => resume_data # <<>>
        /\ CoverInv
    BY LeftList
  <1>3. CASE Calculate
    <2>1. axis' = axis  BY <1>3 DEF Calculate
    <2>2. /\ calc_status' = "RESUMABLE" =>
                /\ resume_data' \in FitTables(WholeScreen, {}, axis)
                /\ Screen \subseteq shown' \cup CoveredBy(Opens, resume_data')
          /\ calc_status' = "COMPLETED" => Screen \subseteq shown'
      BY <1>2, <1>3, CalculateCovers
    <2>3. CoverInv'  BY <2>1, <2>2 DEF CoverInv
    <2>. QED  BY <1>1, <2>3 DEF LeftInv
  <1>4. ASSUME NEW d \in CompletedPans \cup SuspendedPans, Pan(d)  PROVE LeftInv'
    <2>1. CoverInv'  BY <1>2, <1>4, PanCovers
    <2>. QED  BY <1>1, <2>1 DEF LeftInv
  <1>5. CASE UNCHANGED vars
    <2>1. /\ calc_status' = calc_status /\ resume_data' = resume_data /\ axis' = axis
          /\ shown' = shown
      BY <1>5 DEF vars
    <2>2. CoverInv'  BY <1>2, <2>1 DEF CoverInv
    <2>. QED  BY <1>1, <2>2 DEF LeftInv
  <1>. QED  BY <1>3, <1>4, <1>5 DEF Next, WaitForKey

\* What is open in an entry of the list is due to it, or to what its window is cut into.
LEMMA OpenPending ==
    ASSUME Sym # "ORIGIN", axis \in Points, NEW l \in FitTables(WholeScreen, {}, axis)
    PROVE  /\ CoveredBy(Opens, l) \subseteq Pending(l)
           /\ l # <<>> => Open(Head(l)) \subseteq Pending(l)
  <1>1. /\ l \in Seq(Entries) /\ Len(l) \in Nat
        /\ \A k \in 1 .. Len(l) : l[k] \in Framed(WholeScreen) /\ Fits(axis, l[k])
    <2>1. l \in Tables(WholeScreen, {}) /\ \A k \in 1 .. Len(l) : Fits(axis, l[k])
      BY DEF FitTables
    <2>2. l \in Seq(Entries) /\ \A k \in 1 .. Len(l) : l[k] \in Clear(WholeScreen, {})
      BY <2>1, InTable
    <2>. QED  BY <2>1, <2>2 DEF Clear
  <1>2. ASSUME NEW k \in 1 .. Len(l)  PROVE Open(l[k]) \subseteq Pending(l)
    <2>1. Open(l[k]) \subseteq PendingOf(l[k])  BY <1>1, PendingOpen
    <2>. QED  BY <2>1 DEF Pending
  <1>3. CoveredBy(Opens, l) \subseteq Pending(l)  BY <1>1, <1>2, CoveredOpen
  <1>4. l # <<>> => Head(l) = l[1] /\ 1 \in 1 .. Len(l)  BY <1>1
  <1>. QED  BY <1>2, <1>3, <1>4

\* However an image of one or two passes is stopped, panned and resumed, no pixel is
\* left out: each shows its colour or is due to an entry of the saved list, whatever
\* the clipping, splitting, copying and restarting of fix_work_list have made of it,
\* and an image that is completed shows them all.
THEOREM PanNothingLeftOut ==
    ASSUME Sideways, Sym # "ORIGIN"
    PROVE  Spec => []NothingLeftOut
  <1>1. Init => LeftInv  BY LeftInit
  <1>2. LeftInv /\ [Next]_vars => LeftInv'  BY LeftNext
  <1>3. LeftInv => NothingLeftOut
    <2>. SUFFICES ASSUME LeftInv  PROVE NothingLeftOut
      OBVIOUS
    <2>1. axis \in Points /\ shown \subseteq Screen /\ CoverInv  BY LeftList
    <2>2. calc_status = "RESUMABLE" => Screen \subseteq shown \cup Pending(resume_data)
      BY <2>1, OpenPending DEF CoverInv
    <2>. QED  BY <2>1, <2>2 DEF CoverInv, NothingLeftOut
  <1>. QED  BY <1>1, <1>2, <1>3, PTL DEF Spec

\* Resuming the image, panned or not, never spoils a pixel that shows its colour and
\* that no entry covers: the guesses of the first pass and the mirror images of the
\* window that is worked off stay where the list says that there is work.
THEOREM PanFinishedStays ==
    ASSUME Sideways, Sym # "ORIGIN"
    PROVE  Spec => FinishedStays
  <1>1. Init => LeftInv  BY LeftInit
  <1>2. LeftInv /\ [Next]_vars => LeftInv'  BY LeftNext
  <1>3. LeftInv /\ [Next]_vars =>
            [Calculate /\ calc_status = "RESUMABLE" => shown \ Pending(resume_data) \subseteq shown']_vars
    <2>. SUFFICES ASSUME LeftInv, Calculate, calc_status = "RESUMABLE"
                  PROVE  shown \ Pending(resume_data) \subseteq shown'
      OBVIOUS
    <2>1. axis \in Points /\ CoverInv /\ resume_data # <<>>  BY LeftList
    <2>2. List = resume_data /\ Old = shown  BY DEF List, Old
    <2>3. Old \ Open(Head(List)) \subseteq shown'  BY <2>1, CalculateCovers
    <2>4. resume_data \in FitTables(WholeScreen, {}, axis)  BY <2>1 DEF CoverInv
    <2>5. Open(Head(resume_data)) \subseteq Pending(resume_data)  BY <2>1, <2>4, OpenPending
    <2>. QED  BY <2>2, <2>3, <2>5
  <1>. QED  BY <1>1, <1>2, <1>3, PTL DEF Spec, FinishedStays

=================================================================================
