------------------------- MODULE StandardEngine_proofs -------------------------
(***************************************************************************)
(* Proofs about the standard engine, for every screen, symmetry, list      *)
(* capacity, calculation mode and number of keys.  First the types, and    *)
(* that the work list always has a place for the item being calculated     *)
(* (IInv).  Then, for an engine that calculates a pixel in one piece, that *)
(* nothing is lost (WInv): the entries are disjoint windows of the screen, *)
(* and what they and the current item still write, with what is final, is  *)
(* the whole screen.  The lemmas follow an entry through its life: it is   *)
(* merged with another one, cut along an axis, mirrored, calculated, put   *)
(* back, and given a second pass.                                          *)
(***************************************************************************)
EXTENDS StandardEngine, SetSymmetry_proofs, TLAPS

\* The cursors of a pass.
Cursors == [row : Int, col : Int, resume_row : Int, resume_col : Int]

\* Where control is tells whether an item is active, whether the list can be
\* empty, and whether an interruption has been seen.
Control == /\ pc \in {"calc", "run_tail"} => work_item_active
           /\ work_item_active => work_list_started
           /\ work_list_started /\ ~work_item_active /\ pc \in {"turn", "ui_poll"}
                 => work_list # <<>>
           /\ orbit_plot_pending => pc \in {"run_tail", "turn"} /\ work_item_active
           /\ pc = "turn" /\ calc_interrupted => orbit_plot_pending

IInv == TypeOK /\ RoomForItem /\ Control

\* The types of the variables the proofs of the steps talk about.
LEMMA Types ==
    ASSUME IInv
    PROVE  /\ win \in Windows /\ work_list \in Lists /\ resume_data \in Lists
           /\ cursor \in Cursors
           /\ Here \in Points /\ ResumePoint \in Points
           /\ keys_left \in 0 .. MaxKeys /\ slices \in 0 .. MaxSlices
           /\ key \in Keys /\ calc_interrupted \in BOOLEAN /\ show_orbit \in BOOLEAN
           /\ final \subseteq Points /\ blank \subseteq Screen
           /\ MaxSlices \in Nat /\ MaxKeys \in Nat /\ MaxCalcWork \in Nat \ {0}
  BY EngineAssumption, MaxCalcWorkAssumption
  DEF IInv, TypeOK, Cursors, Windows, Lists, Here, ResumePoint, Pt, Points

LEMMA NoEntries == <<>> \in Lists
  BY MaxCalcWorkAssumption DEF Lists

LEMMA WholeScreenType == WholeScreen \in Entries /\ Screen \subseteq Points
  BY SymmetryAssumption
  DEF WholeScreen, Entry, Entries, Pt, Points, Undecided, Decision, Screen

\* Looking at the keyboard never takes an interruption back.
LEMMA PollType ==
    ASSUME IInv, PollKeyboard
    PROVE  /\ key' \in Keys /\ show_orbit' \in BOOLEAN
           /\ calc_interrupted' \in BOOLEAN /\ calc_interrupted' = Interrupted
           /\ calc_interrupted => calc_interrupted'
  BY Types DEF PollKeyboard, Keys, Interrupted

LEMMA InitIInv == Init => IInv
  <1>. SUFFICES ASSUME Init  PROVE IInv
    OBVIOUS
  <1>1. Window(WholeScreen) \in Windows  BY WholeScreenType, WindowType
  <1>2. cursor \in Cursors  BY DEF Init, NewCursor, Pt, Cursors
  <1>3. MaxKeys \in 0 .. MaxKeys /\ 0 \in 0 .. MaxSlices  BY EngineAssumption
  <1>4. resume_data \in Lists /\ work_list \in Lists  BY NoEntries DEF Init
  <1>5. win \in Windows  BY <1>1 DEF Init
  <1>6. TypeOK
    BY <1>2, <1>3, <1>4, <1>5
    DEF Init, TypeOK, Statuses, Keys, Windows, Cursors, Lists
  <1>7. RoomForItem /\ Control  BY DEF Init, RoomForItem, Control
  <1>. QED  BY <1>6, <1>7 DEF IInv

-----------------------------------------------------------------------------
\* The user and the menu loop.

LEMMA PressKeyStep == ASSUME IInv, PressKey  PROVE IInv'
  <1>1. keys_left' \in 0 .. MaxKeys  BY Types DEF PressKey
  <1>. QED
    BY <1>1 DEF PressKey, IInv, TypeOK, Cursors, RoomForItem, Control,
                image_vars, list_vars, pass_vars, screen_vars

LEMMA MenuKeyStep == ASSUME IInv, MenuKey  PROVE IInv'
  <1>1. /\ pc = "menu" /\ pc' \in {"menu", "start"} /\ calc_status' \in Statuses
        /\ quick_calc' \in BOOLEAN /\ final' \subseteq Points /\ key' \in Keys
    BY DEF MenuKey, NoCommand, Redraw, Zoom, MoreIterations, StillQuick, IInv, TypeOK, Cursors,
           Statuses, Keys
  <1>2. UNCHANGED <<resuming, resume_data, list_vars, pass_vars, calc_interrupted,
                    show_orbit, keys_left, blank>>
    BY DEF MenuKey
  <1>. QED
    BY <1>1, <1>2 DEF IInv, TypeOK, Cursors, RoomForItem, Control, list_vars, pass_vars

LEMMA CalcFractStep == ASSUME IInv, CalcFract  PROVE IInv'
  <1>1. TypeOK'
    <2>1. 0 \in 0 .. MaxSlices  BY Types
    <2>2. resume_data' \in Lists  BY Types, NoEntries DEF CalcFract
    <2>3. final' \subseteq Points /\ blank' \subseteq Screen  BY Types DEF CalcFract
    <2>4. resuming' \in BOOLEAN /\ show_orbit' \in BOOLEAN  BY Types DEF CalcFract
    <2>. QED  BY <2>1, <2>2, <2>3, <2>4 DEF CalcFract, IInv, TypeOK, Cursors, Lists
  <1>2. RoomForItem' /\ Control'  BY DEF CalcFract, RoomForItem, Control
  <1>. QED  BY <1>1, <1>2 DEF IInv

-----------------------------------------------------------------------------
\* The items.

\* The list the engine starts with holds an entry.
LEMMA StartedList ==
    ASSUME IInv, pc = "turn", ~work_item_active
    PROVE  StartedWorkList \in Lists /\ StartedWorkList # <<>>
  <1>1. <<WholeScreen>> \in Lists  BY WholeScreenType, MaxCalcWorkAssumption DEF Lists
  <1>2. work_list_started => work_list # <<>>  BY DEF IInv, Control
  <1>. QED  BY <1>1, <1>2, Types DEF StartedWorkList

LEMMA StartItemStep == ASSUME IInv, StartItem  PROVE IInv'
  <1>. DEFINE list == StartedWorkList
              cut == SetSymmetry(Window(Head(list)), PopWorkListFront(list))
  <1>1. list \in Lists /\ list # <<>>  BY StartedList DEF StartItem
  <1>2. Head(list) \in Entries /\ Tail(list) \in Lists /\ Len(Tail(list)) < MaxCalcWork
    <2>. HIDE DEF list
    <2>. QED  BY <1>1, MaxCalcWorkAssumption DEF Lists
  <1>3. Window(Head(list)) \in Windows /\ PopWorkListFront(list) \in Lists
    BY <1>2, WindowType DEF PopWorkListFront
  <1>4. cut.win \in Windows /\ cut.list \in Lists /\ LeavesRoom(Tail(list), cut.list)
    BY <1>3, SetSymmetryType DEF PopWorkListFront
  <1>5. /\ win' = cut.win /\ work_list' = cut.list /\ cursor' = NewCursor(cut.win.begin)
        /\ work_list_started' = TRUE /\ work_item_active' = TRUE /\ resume_data' = <<>>
        /\ calc_status' = "IN_PROGRESS" /\ pc' = "calc" /\ pc = "turn" /\ ~work_item_active
        /\ UNCHANGED <<resuming, quick_calc, slices, orbit_plot_pending, input_vars, keys_left,
                       screen_vars>>
    BY DEF StartItem
  <1>. HIDE DEF list, cut
  <1>6. cursor' \in Cursors
    BY <1>4, <1>5 DEF Cursors, NewCursor, Windows, Points
  <1>7. Len(work_list') < MaxCalcWork  BY <1>2, <1>4, <1>5 DEF LeavesRoom
  <1>8. resume_data' \in Lists /\ work_list' \in Lists /\ win' \in Windows
    BY <1>4, <1>5, NoEntries
  <1>9. TypeOK'
    BY <1>5, <1>6, <1>8
    DEF IInv, TypeOK, Windows, Lists, Cursors, Statuses, input_vars, screen_vars
  <1>. QED  BY <1>5, <1>7, <1>9 DEF IInv, RoomForItem, Control, input_vars

LEMMA ContinueItemStep == ASSUME IInv, ContinueItem  PROVE IInv'
  BY DEF ContinueItem, IInv, TypeOK, Cursors, RoomForItem, Control,
         image_vars, list_vars, pass_vars, input_vars, screen_vars

-----------------------------------------------------------------------------
\* The pixels.

\* What every step at a pixel preserves: the item keeps its window and its place.
AtPixelStays == UNCHANGED <<calc_status, resume_data, quick_calc, list_vars, keys_left>>

LEMMA PixelStep ==
    ASSUME IInv, pc = "calc", AtPixelStays, pc' \in {"calc", "run_tail"},
           cursor' \in Cursors,
           slices' \in 0 .. MaxSlices, orbit_plot_pending' \in BOOLEAN,
           orbit_plot_pending' => pc' = "run_tail",
           PollKeyboard \/ UNCHANGED input_vars, resuming' \in BOOLEAN,
           final' \subseteq Points, blank' \subseteq Screen
    PROVE  IInv'
  <1>1. key' \in Keys /\ show_orbit' \in BOOLEAN /\ calc_interrupted' \in BOOLEAN
    BY Types, PollType DEF input_vars
  <1>2. TypeOK'  BY <1>1 DEF IInv, TypeOK, Cursors, AtPixelStays, list_vars
  <1>3. RoomForItem' /\ Control'
    BY DEF IInv, RoomForItem, Control, AtPixelStays, list_vars
  <1>. QED  BY <1>2, <1>3 DEF IInv

LEMMA CursorMoves ==
    ASSUME IInv
    PROVE  /\ StopAtPixel => cursor' \in Cursors
           /\ MovePast(Here) => cursor' \in Cursors
  <1>1. StopAtPixel => cursor' \in Cursors  BY Types DEF StopAtPixel, Cursors
  <1>2. \A c \in Int : [cursor EXCEPT !.col = c] \in Cursors  BY Types DEF Cursors
  <1>3. cursor.col + 2 \in Int /\ cursor.col + 1 \in Int  BY Types DEF Cursors
  <1>4. MovePast(Here) => \E c \in Int : cursor' = [cursor EXCEPT !.col = c]
    BY <1>3 DEF MovePast
  <1>. QED  BY <1>1, <1>2, <1>4

LEMMA PlottedType ==
    ASSUME IInv  PROVE Plotted(final, Here) \subseteq Points
  BY Types, TargetsType DEF Plotted

LEMMA CalcPixelStep == ASSUME IInv, CalcPixel  PROVE IInv'
  <1>1. pc = "calc"
    BY DEF CalcPixel, SkipPixel, PixelSlice, PixelOrbit, MandelbrotInterrupted,
           PixelInterrupted, PixelDone, AtPixel
  <1>2. resuming \in BOOLEAN /\ orbit_plot_pending = FALSE
    BY <1>1 DEF IInv, TypeOK, Cursors, Control
  <1>3. CASE SkipPixel
    <2>1. cursor' \in Cursors
      BY <1>3, Types DEF SkipPixel, Cursors
    <2>. QED
      BY <1>1, <1>2, <1>3, <2>1, Types, PixelStep
      DEF SkipPixel, AtPixelStays, image_vars, screen_vars
  <1>4. CASE PixelSlice
    <2>1. slices' \in 0 .. MaxSlices  BY <1>4, Types DEF PixelSlice
    <2>2. StopAtPixel  BY <1>4 DEF PixelSlice
    <2>. QED
      BY <1>1, <1>2, <1>4, <2>1, <2>2, Types, CursorMoves, PixelStep
      DEF PixelSlice, StopAtPixel, AtPixelStays, image_vars, screen_vars
  <1>5. CASE PixelOrbit
    <2>1. slices' \in 0 .. MaxSlices  BY <1>5, Types DEF PixelOrbit
    <2>2. StopAtPixel  BY <1>5 DEF PixelOrbit
    <2>. QED
      BY <1>1, <1>2, <1>5, <2>1, <2>2, Types, CursorMoves, PixelStep
      DEF PixelOrbit, StopAtPixel, AtPixelStays, image_vars, screen_vars
  <1>6. CASE MandelbrotInterrupted
    <2>1. StopAtPixel  BY <1>6 DEF MandelbrotInterrupted
    <2>. QED
      BY <1>1, <1>2, <1>6, <2>1, Types, CursorMoves, PixelStep
      DEF MandelbrotInterrupted, StopAtPixel, AtPixelStays, image_vars, screen_vars
  <1>7. CASE PixelInterrupted
    <2>1. StopAtPixel  BY <1>7 DEF PixelInterrupted
    <2>2. final' \subseteq Points /\ blank' \subseteq Screen /\ slices' \in 0 .. MaxSlices
      BY <1>7, Types, PlottedType DEF PixelInterrupted
    <2>. QED
      BY <1>1, <1>2, <1>7, <2>1, <2>2, CursorMoves, PixelStep
      DEF PixelInterrupted, StopAtPixel, AtPixelStays, image_vars
  <1>8. ASSUME NEW polled \in BOOLEAN, PixelDone(polled)  PROVE IInv'
    <2>1. MovePast(Here) /\ (PollKeyboard \/ UNCHANGED input_vars)
      BY <1>8 DEF PixelDone
    <2>2. final' \subseteq Points /\ blank' \subseteq Screen /\ slices' \in 0 .. MaxSlices
      BY <1>8, Types, PlottedType DEF PixelDone
    <2>3. cursor' \in Cursors
      BY <1>8, CursorMoves DEF PixelDone
    <2>4. /\ pc' \in {"calc", "run_tail"} /\ AtPixelStays /\ resuming' \in BOOLEAN
          /\ orbit_plot_pending' = FALSE
      BY <1>2, <1>8 DEF PixelDone, AtPixelStays
    <2>. QED  BY <1>1, <2>1, <2>2, <2>3, <2>4, PixelStep
  <1>. QED  BY <1>3, <1>4, <1>5, <1>6, <1>7, <1>8 DEF CalcPixel

LEMMA NextRowStep == ASSUME IInv, NextRow  PROVE IInv'
  <1>1. cursor' \in Cursors
    <2>1. \A c, r \in Int : [cursor EXCEPT !.col = c, !.row = r] \in Cursors
      BY Types DEF Cursors
    <2>2. win.start.x \in Int /\ cursor.row + 2 \in Int /\ cursor.row + 1 \in Int
      BY Types DEF Windows, Points, Cursors
    <2>3. \E r \in Int : cursor' = [cursor EXCEPT !.col = win.start.x, !.row = r]
      <3>. DEFINE next == IF FirstPass /\ Even(cursor.row) THEN cursor.row + 2 ELSE cursor.row + 1
      <3>1. next \in Int  BY <2>2
      <3>2. cursor' = [cursor EXCEPT !.col = win.start.x, !.row = next]  BY DEF NextRow
      <3>. HIDE DEF next
      <3>. QED  BY <3>1, <3>2
    <2>. QED  BY <2>1, <2>2, <2>3
  <1>2. resuming \in BOOLEAN /\ orbit_plot_pending = FALSE
    BY DEF NextRow, IInv, TypeOK, Cursors, Control
  <1>. QED
    BY <1>1, <1>2, Types, PixelStep DEF NextRow, AtPixelStays, image_vars, screen_vars

-----------------------------------------------------------------------------
\* The ends of the passes.

\* What goes back to the list is an entry.
LEMMA InterruptedEntryType == ASSUME IInv  PROVE InterruptedEntry \in Entries
  <1>1. StopRowForResume \in Int
    BY Types DEF Cursors, StopRowForResume, Windows, Points
  <1>. QED
    BY <1>1, Types DEF Cursors, InterruptedEntry, Entry, Entries, Windows, Points, Pt

LEMMA RunTailStep == ASSUME IInv, RunTail  PROVE IInv'
  <1>1. work_list' \in Lists
    BY Types, InterruptedEntryType, AddWorkListType DEF RunTail, Lists
  <1>2. Interrupted \/ work_list' = work_list  BY DEF RunTail
  <1>3. TypeOK'
    BY <1>1, PollType DEF RunTail, IInv, TypeOK, Cursors, Lists, image_vars, pass_vars, screen_vars
  <1>4. work_list' # <<>> \/ work_item_active'  BY DEF RunTail, IInv, Control
  <1>5. RoomForItem' /\ Control'
    BY <1>2, <1>4, PollType DEF RunTail, IInv, RoomForItem, Control, pass_vars
  <1>. QED  BY <1>3, <1>5 DEF IInv

LEMMA FinishedItem ==
    ASSUME IInv, NEW l \in Lists, FinishItem(l),
           UNCHANGED <<resuming, resume_data, quick_calc, work_list_started, win, pass_vars,
                       input_vars, keys_left, screen_vars>>,
           pc = "calc"
    PROVE  IInv'
  <1>1. TypeOK'
    BY DEF FinishItem, IInv, TypeOK, Cursors, Lists, Statuses, pass_vars, input_vars, screen_vars
  <1>2. RoomForItem' /\ Control'
    BY DEF FinishItem, IInv, RoomForItem, Control, pass_vars
  <1>. QED  BY <1>1, <1>2 DEF IInv

LEMMA FirstPassDoneStep == ASSUME IInv, FirstPassDone  PROVE IInv'
  <1>. DEFINE next == Entry(win.start, win.stop, win.start, 1, win.symmetry)
  <1>1. CASE work_list = <<>>
    <2>1. win' \in Windows
      <3>1. win' = [win EXCEPT !.pass = 1, !.begin = win.start]
        BY <1>1 DEF FirstPassDone
      <3>2. win.start \in Points  BY Types DEF Windows
      <3>3. \A w \in Windows, s \in Points : [w EXCEPT !.begin = s] \in Windows
        BY DEF Windows
      <3>4. [win EXCEPT !.pass = 1] \in Windows  BY Types DEF Windows
      <3>. QED  BY <3>1, <3>2, <3>3, <3>4
    <2>2. cursor' \in Cursors
      BY <1>1, Types DEF FirstPassDone, Cursors, Windows, Points
    <2>3. TypeOK'
      BY <1>1, <2>1, <2>2
      DEF FirstPassDone, IInv, TypeOK, Cursors, Windows, input_vars, screen_vars
    <2>. QED
      BY <1>1, <2>3 DEF FirstPassDone, IInv, RoomForItem, Control, input_vars
  <1>2. CASE work_list # <<>>
    <2>1. next \in Entries  BY Types DEF Entry, Entries, Windows
    <2>2. AddWorkList(work_list, next) \in Lists
      BY <2>1, Types, AddWorkListType DEF Lists
    <2>3. FinishItem(AddWorkList(work_list, next)) /\ pc = "calc"
      BY <1>2 DEF FirstPassDone, PassDone
    <2>4. UNCHANGED <<resuming, resume_data, quick_calc, work_list_started, win, pass_vars,
                      input_vars, keys_left, screen_vars>>
      BY <1>2 DEF FirstPassDone, pass_vars
    <2>. QED  BY <2>2, <2>3, <2>4, FinishedItem
  <1>. QED  BY <1>1, <1>2

LEMMA LastPassDoneStep == ASSUME IInv, LastPassDone  PROVE IInv'
  BY Types, FinishedItem DEF LastPassDone, PassDone

-----------------------------------------------------------------------------
\* The loop.

LEMMA DriveOrbitPlotStep == ASSUME IInv, DriveOrbitPlot  PROVE IInv'
  <1>1. key' \in Keys /\ show_orbit' \in BOOLEAN /\ calc_interrupted' \in BOOLEAN
        /\ (calc_interrupted => calc_interrupted')
    BY Types, PollType DEF DriveOrbitPlot, input_vars
  <1>2. TypeOK'
    BY <1>1 DEF DriveOrbitPlot, IInv, TypeOK, Cursors, image_vars, list_vars, screen_vars
  <1>3. RoomForItem' /\ Control'
    BY <1>1 DEF DriveOrbitPlot, IInv, RoomForItem, Control, list_vars
  <1>. QED  BY <1>2, <1>3 DEF IInv

LEMMA UiPollStep == ASSUME IInv, UiPoll  PROVE IInv'
  <1>1. TypeOK'
    BY PollType DEF UiPoll, Suspend, IInv, TypeOK, Cursors, Statuses, pass_vars, screen_vars
  <1>2. RoomForItem' /\ Control'
    BY PollType DEF UiPoll, Suspend, IInv, RoomForItem, Control, pass_vars
  <1>. QED  BY <1>1, <1>2 DEF IInv

-----------------------------------------------------------------------------
LEMMA NextIInv == IInv /\ [Next]_vars => IInv'
  <1>. SUFFICES ASSUME IInv, [Next]_vars  PROVE IInv'
    OBVIOUS
  <1>1. CASE UNCHANGED vars
    BY <1>1 DEF vars, image_vars, list_vars, pass_vars, input_vars, screen_vars,
                IInv, TypeOK, Cursors, RoomForItem, Control
  <1>2. CASE PressKey  BY <1>2, PressKeyStep
  <1>3. CASE WaitForKey  BY <1>1, <1>3 DEF WaitForKey
  <1>4. CASE Engine
    BY <1>4, MenuKeyStep, CalcFractStep, StartItemStep, ContinueItemStep, CalcPixelStep,
       NextRowStep, RunTailStep, FirstPassDoneStep, LastPassDoneStep, DriveOrbitPlotStep,
       UiPollStep
    DEF Engine
  <1>. QED  BY <1>1, <1>2, <1>3, <1>4 DEF Next

THEOREM EngineIInv == Spec => []IInv
  <1>. QED  BY InitIInv, NextIInv, PTL DEF Spec

\* Every variable of the engine has its type, whatever is cut, merged,
\* interrupted and resumed: in particular g_work_list never overflows its
\* table and every entry is well formed (StandardFractal, work_list.cpp).
THEOREM EngineTypeOK == Spec => []TypeOK
  <1>1. IInv => TypeOK  BY DEF IInv
  <1>. QED  BY <1>1, EngineIInv, PTL

\* As long as the current item may have to go back to the work list there is a
\* free place for it: add_work_list, whose result OnePass::run and TwoPass::run
\* ignore, never refuses an entry (one_or_two_pass.cpp:32, 54, 61, 74).
THEOREM EngineRoomForItem == Spec => []RoomForItem
  <1>1. IInv => RoomForItem  BY DEF IInv
  <1>. QED  BY <1>1, EngineIInv, PTL

-----------------------------------------------------------------------------
\* What is left of an image, as sets of pixels.

\* The axes the symmetry has, and the sum of a column, or row, and its mirror image.
Axes == CASE Sym = "NONE" -> {}
          [] Sym = "X_AXIS" -> {"y"}
          [] Sym = "Y_AXIS" -> {"x"}
          [] OTHER -> {"x", "y"}
Centre(d) == 2 * Axis[d] + (IF Between[d] THEN 1 ELSE 0)

\* In what follows e is an entry or a window.
Rect(e) == [x : e.start.x .. e.stop.x, y : e.start.y .. e.stop.y]
Decided(e) == \A d \in Axes : e.symmetry[d] # "new"
Mirrors(e, d) == d \in Axes /\ e.symmetry[d] = "yes"

\* The half of it that is calculated, and the pixel of it whose plot also writes q.
HalfStop(e, d) == IF Mirrors(e, d) /\ ~(Sym = "ORIGIN" /\ d = "x")
                  THEN (e.start[d] + e.stop[d]) \div 2
                  ELSE e.stop[d]
Half(e) == [x : e.start.x .. HalfStop(e, "x"), y : e.start.y .. HalfStop(e, "y")]
Fold(e, d, c) == IF c <= HalfStop(e, d) THEN c ELSE e.start[d] + e.stop[d] - c
Source(e, q) == IF Sym = "ORIGIN"
                THEN IF q.y <= HalfStop(e, "y") THEN q
                     ELSE Pt(e.start.x + e.stop.x - q.x, e.start.y + e.stop.y - q.y)
                ELSE Pt(Fold(e, "x", q.x), Fold(e, "y", q.y))

\* The points of the half that are still calculated; two: there are two passes.
Odd(p) == ~(Even(p.x) /\ Even(p.y))
Ahead(two, e, at, p) == CASE ~two -> AtOrAfter(p, at)
                          [] two /\ e.pass = 0 -> AtOrAfter(p, at) \/ Odd(p)
                          [] two /\ e.pass # 0 -> AtOrAfter(p, at) /\ Odd(p)

\* The pixels they write.
OpenFrom(two, e, at) == {q \in Rect(e) : Ahead(two, e, at, Source(e, q))}
Open(two, e) == OpenFrom(two, e, e.begin)

\* What the first pass of two calculates itself, and does not guess.
Direct(e, p) == (Even(p.y) \/ p.y = e.start.y) /\ (Even(p.x) \/ p.x = e.start.x)

\* An entry that set_symmetry has not seen is whole; one it has seen fits the symmetry.
Proper(two, e) ==
    /\ e.start \in Screen /\ e.stop \in Screen /\ e.begin \in Rect(e)
    /\ \A d \in Axes : e.symmetry[d] = "yes" => e.start[d] + e.stop[d] = Centre(d)
    /\ Sym = "ORIGIN" => e.symmetry.x = e.symmetry.y
    /\ ~Decided(e) => /\ \A d \in Axes : e.symmetry[d] = "new"
                      /\ e.begin = e.start
                      /\ two => e.pass = 0
    /\ two => e.pass \in {0, 1} /\ (e.pass = 0 => Direct(e, e.begin))

\* Where the first pass has guessed no pixel is final.
Guessed(two, e, done) ==
    two /\ e.pass = 0 => \A q \in Rect(e) \cap done : Decided(e) /\ Direct(e, Source(e, q))

\* A quick calculation passes over a pixel with all its mirror images.
Closed(quick, e, done) ==
    quick => \A q \in Rect(e) : IF Decided(e) THEN Source(e, q) \in done => q \in done
                                ELSE q \in done => q \in Kept

\* The entries share no pixel, and of the first passes that wait the one begun is first.
InOrder(two, e, f) == two /\ e.pass = 0 /\ f.pass = 0 /\ Decided(e) => ~Decided(f) /\ Before(e, f)
Beside(two, e, f) == Rect(e) \cap Rect(f) = {} /\ InOrder(two, e, f) /\ InOrder(two, f, e)

Fine(two, quick, done, e) == Proper(two, e) /\ Guessed(two, e, done) /\ Closed(quick, e, done)

FineList(two, quick, done, l) ==
    /\ \A k \in 1 .. Len(l) : Fine(two, quick, done, l[k])
    /\ \A i, j \in 1 .. Len(l) : i # j => Beside(two, l[i], l[j])
    /\ \A i, j \in 1 .. Len(l) : i < j => ~Before(l[j], l[i])

OpenList(two, l) == UNION {Open(two, l[k]) : k \in 1 .. Len(l)}

\* The plot function the decisions ask for.
PlotFor(w) == CASE Sym = "NONE" -> "put_color"
                [] Sym = "X_AXIS" -> IF Mirrors(w, "y") THEN "sym_plot2" ELSE "put_color"
                [] Sym = "Y_AXIS" -> IF Mirrors(w, "x") THEN "sym_plot2y" ELSE "put_color"
                [] Sym = "XY_AXIS" -> XYPlot(w)
                [] Sym = "ORIGIN" -> IF Mirrors(w, "y") THEN "sym_plot2j" ELSE "put_color"

\* The window of an item that is calculated.
Ready(w) == Decided(w) /\ w.i_stop = Pt(HalfStop(w, "x"), HalfStop(w, "y")) /\ w.plot = PlotFor(w)
FineWindow(two, quick, done, w) == Fine(two, quick, done, w) /\ Ready(w)

-----------------------------------------------------------------------------
\* The engine.

\* Nothing is both zoomed and calculated further: a quick calculation of a screen just
\* cleared passes over all of it.
NoQuickZoom == ~({"zoom", "more_iterations"} \subseteq Commands)
Quick == quick_calc /\ NoQuickZoom

\* The item is not on the list.
ItemOut == pc \in {"calc", "run_tail"}

\* The list that is worked off, or that will be when the image is resumed.
Listed == pc \in {"turn", "calc", "run_tail", "ui_poll"} \/ calc_status = "RESUMABLE"
TodoList == IF pc = "turn" THEN StartedWorkList
            ELSE IF pc \in {"calc", "run_tail", "ui_poll"} THEN work_list
            ELSE IF resume_data = <<>> THEN <<WholeScreen>> ELSE resume_data

Flow == /\ ~orbit_plot_pending
        /\ pc = "turn" => ~work_item_active
        /\ pc = "ui_poll" /\ work_item_active => calc_interrupted
        /\ pc = "run_tail" => calc_interrupted /\ ResumePoint = Here /\ cursor.row <= win.i_stop.y
                              /\ cursor.col <= win.i_stop.x
        /\ pc = "menu" => calc_status \in {"RESUMABLE", "COMPLETED"}
        /\ pc = "start" => calc_status \in {"PARAMS_CHANGED", "RESUMABLE"}
        /\ pc = "turn" /\ calc_status = "PARAMS_CHANGED" => ~resuming /\ final = {}
        /\ pc \in {"calc", "run_tail", "ui_poll"}
              => calc_status = "IN_PROGRESS" /\ work_list_started
        /\ pc = "turn" => calc_status # "COMPLETED"
        /\ pc \in {"calc", "run_tail", "ui_poll"} \/ calc_status = "COMPLETED"
              \/ (pc = "turn" /\ (work_list_started \/ ~resuming)) => resume_data = <<>>

CursorInv == /\ win.start.x <= cursor.col /\ win.start.y <= cursor.row
             /\ FirstPass => /\ Even(cursor.row) \/ cursor.row = win.start.y
                             /\ \/ Even(cursor.col) \/ cursor.col = win.start.x
                                \/ cursor.col > win.i_stop.x

QuickInv == /\ quick_calc => "more_iterations" \in Commands
            /\ Quick /\ calc_status # "COMPLETED"
                  => blank = {} /\ Kept \subseteq final /\ calc_status # "PARAMS_CHANGED"
            /\ final \cap blank = {}

ItemInv == /\ FineWindow(TwoPasses, Quick, final, win) /\ CursorInv
           /\ \A k \in 1 .. Len(work_list) : Beside(TwoPasses, win, work_list[k])

Covered == Screen \subseteq final \cup OpenList(TwoPasses, TodoList)
                       \cup (IF ItemOut THEN OpenFrom(TwoPasses, win, Here) ELSE {})

WInv == /\ Flow /\ QuickInv /\ final \subseteq Screen
        /\ calc_status = "COMPLETED" /\ NoQuickZoom => final = Screen
        /\ Listed => FineList(TwoPasses, Quick, final, TodoList)
        /\ ItemOut => ItemInv
        /\ Listed /\ NoQuickZoom => Covered

-----------------------------------------------------------------------------
\* Windows and the pixels they write.

\* What an entry and a window have in common.
Shape(e) == /\ e.start \in Points /\ e.stop \in Points /\ e.begin \in Points
            /\ e.pass \in Int /\ e.symmetry \in [x : Decision, y : Decision]

LEMMA EntryShape == ASSUME NEW e \in Entries  PROVE Shape(e)
  BY DEF Shape, Entries

LEMMA WindowShape == ASSUME NEW w \in Windows  PROVE Shape(w)
  BY DEF Shape, Windows

LEMMA CentreType == ASSUME NEW d \in {"x", "y"}  PROVE Centre(d) \in Int
  BY SymmetryAssumption DEF Centre

\* A proper entry is on the screen.
LEMMA Corners ==
    ASSUME NEW e, Shape(e), NEW two, Proper(two, e)
    PROVE  /\ e.start.x \in Int /\ e.start.y \in Int /\ e.stop.x \in Int /\ e.stop.y \in Int
           /\ e.begin.x \in Int /\ e.begin.y \in Int
           /\ 0 <= e.start.x /\ e.start.x <= e.begin.x /\ e.begin.x <= e.stop.x /\ e.stop.x < XDots
           /\ 0 <= e.start.y /\ e.start.y <= e.begin.y /\ e.begin.y <= e.stop.y /\ e.stop.y < YDots
           /\ XDots \in Int /\ YDots \in Int
  BY SymmetryAssumption DEF Shape, Points, Proper, Screen, Rect

\* The pixels of a rectangle by their coordinates.
LEMMA RectPoints ==
    ASSUME NEW e, Shape(e), NEW q
    PROVE  q \in Rect(e) <=> /\ q \in Points
                             /\ e.start.x <= q.x /\ q.x <= e.stop.x /\ e.start.y <= q.y /\ q.y <= e.stop.y
  BY DEF Shape, Points, Rect

LEMMA PointParts ==
    ASSUME NEW q \in Points
    PROVE  q.x \in Int /\ q.y \in Int /\ q = Pt(q.x, q.y)
  BY DEF Points, Pt

\* The calculated half reaches the middle, or the end where nothing is mirrored.
LEMMA HalfStops ==
    ASSUME NEW e, Shape(e), NEW two, Proper(two, e), NEW d \in {"x", "y"}
    PROVE  /\ HalfStop(e, d) \in Int /\ e.start[d] \in Int /\ e.stop[d] \in Int
           /\ e.start[d] <= HalfStop(e, d) /\ HalfStop(e, d) <= e.stop[d]
           /\ \/ HalfStop(e, d) = e.stop[d] /\ (~Mirrors(e, d) \/ (Sym = "ORIGIN" /\ d = "x"))
              \/ /\ Mirrors(e, d) /\ ~(Sym = "ORIGIN" /\ d = "x")
                 /\ e.start[d] + e.stop[d] = Centre(d)
                 /\ 2 * HalfStop(e, d) <= Centre(d) /\ Centre(d) <= 2 * HalfStop(e, d) + 1
  <1>1. e.start[d] \in Int /\ e.stop[d] \in Int /\ e.start[d] <= e.stop[d]
    BY Corners
  <1>2. CASE Mirrors(e, d) /\ ~(Sym = "ORIGIN" /\ d = "x")
    <2>1. HalfStop(e, d) = (e.start[d] + e.stop[d]) \div 2  BY <1>2 DEF HalfStop
    <2>2. e.start[d] + e.stop[d] = Centre(d)  BY <1>2 DEF Mirrors, Proper
    <2>3. Centre(d) \in Int  BY CentreType
    <2>. HIDE DEF HalfStop
    <2>. QED  BY <1>1, <1>2, <2>1, <2>2, <2>3
  <1>3. CASE ~(Mirrors(e, d) /\ ~(Sym = "ORIGIN" /\ d = "x"))
    <2>1. HalfStop(e, d) = e.stop[d]  BY <1>3 DEF HalfStop
    <2>. QED  BY <1>1, <1>3, <2>1
  <1>. QED  BY <1>2, <1>3

\* The half by its coordinates.
LEMMA HalfPoints ==
    ASSUME NEW e, Shape(e), NEW two, Proper(two, e), NEW p
    PROVE  /\ p \in Half(e) <=> /\ p \in Points /\ e.start.x <= p.x /\ p.x <= HalfStop(e, "x")
                                /\ e.start.y <= p.y /\ p.y <= HalfStop(e, "y")
           /\ p \in Half(e) => p \in Rect(e) /\ Source(e, p) = p
  <1>1. HalfStop(e, "x") \in Int /\ HalfStop(e, "y") \in Int
        /\ HalfStop(e, "x") <= e.stop.x /\ HalfStop(e, "y") <= e.stop.y
    BY HalfStops
  <1>2. p \in Half(e) <=> /\ p \in Points /\ e.start.x <= p.x /\ p.x <= HalfStop(e, "x")
                          /\ e.start.y <= p.y /\ p.y <= HalfStop(e, "y")
    BY <1>1 DEF Half, Points, Shape
  <1>3. ASSUME p \in Half(e)  PROVE p \in Rect(e) /\ Source(e, p) = p
    <2>1. p \in Rect(e)  BY <1>1, <1>2, <1>3, Corners, RectPoints, PointParts
    <2>2. Source(e, p) = p  BY <1>2, <1>3, PointParts DEF Source, Fold
    <2>. QED  BY <2>1, <2>2
  <1>. QED  BY <1>2, <1>3

\* Every pixel is written by one of the half.
LEMMA SourceInHalf ==
    ASSUME NEW e, Shape(e), NEW two, Proper(two, e), NEW q \in Rect(e)
    PROVE  Source(e, q) \in Half(e)
  <1>1. q \in Points /\ q.x \in Int /\ q.y \in Int
        /\ e.start.x <= q.x /\ q.x <= e.stop.x /\ e.start.y <= q.y /\ q.y <= e.stop.y
    BY RectPoints, PointParts
  <1>2. /\ HalfStop(e, "x") \in Int /\ e.start.x \in Int /\ e.stop.x \in Int
        /\ e.start.x <= HalfStop(e, "x") /\ HalfStop(e, "x") <= e.stop.x
        /\ HalfStop(e, "x") = e.stop.x \/ e.start.x + e.stop.x <= 2 * HalfStop(e, "x") + 1
    BY HalfStops
  <1>3. /\ HalfStop(e, "y") \in Int /\ e.start.y \in Int /\ e.stop.y \in Int
        /\ e.start.y <= HalfStop(e, "y") /\ HalfStop(e, "y") <= e.stop.y
        /\ HalfStop(e, "y") = e.stop.y \/ e.start.y + e.stop.y <= 2 * HalfStop(e, "y") + 1
    BY HalfStops
  <1>. DEFINE h == HalfStop(e, "x")
              k == HalfStop(e, "y")
  <1>4. CASE Sym = "ORIGIN"
    <2>0. h = e.stop.x  BY <1>4 DEF HalfStop
    <2>1. CASE q.y <= k
      <3>1. Source(e, q) = q  BY <1>4, <2>1 DEF Source
      <3>. QED  BY <1>1, <2>0, <2>1, <3>1, HalfPoints
    <2>2. CASE ~(q.y <= k)
      <3>1. Source(e, q) = Pt(e.start.x + e.stop.x - q.x, e.start.y + e.stop.y - q.y)
        BY <1>4, <2>2 DEF Source
      <3>. DEFINE a == e.start.x + e.stop.x - q.x
                  b == e.start.y + e.stop.y - q.y
      <3>2. a \in Int /\ b \in Int /\ e.start.x <= a /\ a <= h /\ e.start.y <= b /\ b <= k
        BY <1>1, <1>2, <1>3, <2>0, <2>2
      <3>3. Pt(a, b) \in Points /\ Pt(a, b).x = a /\ Pt(a, b).y = b  BY <3>2 DEF Pt, Points
      <3>. QED  BY <3>1, <3>2, <3>3, HalfPoints
    <2>. QED  BY <2>1, <2>2
  <1>5. CASE Sym # "ORIGIN"
    <2>. DEFINE a == Fold(e, "x", q.x)
                b == Fold(e, "y", q.y)
    <2>1. Source(e, q) = Pt(a, b)  BY <1>5 DEF Source
    <2>2. a \in Int /\ e.start.x <= a /\ a <= h  BY <1>1, <1>2 DEF Fold
    <2>3. b \in Int /\ e.start.y <= b /\ b <= k  BY <1>1, <1>3 DEF Fold
    <2>. HIDE DEF a, b
    <2>4. Pt(a, b) \in Points /\ Pt(a, b).x = a /\ Pt(a, b).y = b  BY <2>2, <2>3 DEF Pt, Points
    <2>. QED  BY <2>1, <2>2, <2>3, <2>4, HalfPoints
  <1>. QED  BY <1>4, <1>5

-----------------------------------------------------------------------------
\* Entries that are merged.

\* m is a with b, which follows it directly below or on the right.
Joins(a, b, m) ==
    /\ m.start = a.start /\ m.begin = a.begin /\ m.stop = b.stop
    /\ a.pass = m.pass /\ b.pass = m.pass /\ a.symmetry = m.symmetry /\ b.symmetry = m.symmetry
    /\ a.begin.y = a.start.y
    /\ \/ a.stop.y + 1 = b.start.y /\ a.start.x = b.start.x /\ a.stop.x = b.stop.x
       \/ a.stop.x + 1 = b.start.x /\ a.start.y = b.start.y /\ a.stop.y = b.stop.y

LEMMA MergeJoins ==
    ASSUME NEW two, NEW e \in Entries, NEW f \in Entries, Proper(two, e), Proper(two, f),
           Combinable(e, f)
    PROVE  Joins(e, f, Merged(e, f)) \/ Joins(f, e, Merged(e, f))
  <1>1. Shape(e) /\ Shape(f)  BY EntryShape
  <1>2. /\ e.start.x <= e.stop.x /\ e.start.y <= e.stop.y /\ f.start.x <= f.stop.x /\ f.start.y <= f.stop.y
        /\ e.start \in Points /\ e.stop \in Points /\ f.start \in Points /\ f.stop \in Points
        /\ e.begin \in Points /\ f.begin \in Points
        /\ e.start.x \in Int /\ e.stop.x \in Int /\ f.start.x \in Int /\ f.stop.x \in Int
        /\ e.start.y \in Int /\ e.stop.y \in Int /\ f.start.y \in Int /\ f.stop.y \in Int
    <2>1. /\ e.start.x \in Int /\ e.start.y \in Int /\ e.stop.x \in Int /\ e.stop.y \in Int
          /\ e.start.x <= e.stop.x /\ e.start.y <= e.stop.y
      BY <1>1, Corners
    <2>2. /\ f.start.x \in Int /\ f.start.y \in Int /\ f.stop.x \in Int /\ f.stop.y \in Int
          /\ f.start.x <= f.stop.x /\ f.start.y <= f.stop.y
      BY <1>1, Corners
    <2>. QED  BY <1>1, <2>1, <2>2 DEF Shape
  <1>3. FreelyMerge(e, f)  BY DEF Combinable
  <1>4. \A p, q \in Points : p.x = q.x /\ p.y = q.y => p = q  BY DEF Points
  <1>5. CASE Above(e, f)
    <2>1. ~Above(f, e) /\ ~LeftOf(e, f)  BY <1>2, <1>5 DEF Above, LeftOf, Touches
    <2>2. Merged(e, f) = [e EXCEPT !.stop.y = f.stop.y]  BY <1>5, <2>1, MergedCases
    <2>3. e.stop.x = f.stop.x  BY <1>5 DEF Above, Touches
    <2>4. [e.stop EXCEPT !.y = f.stop.y] = f.stop  BY <1>2, <2>3 DEF Points
    <2>5. Merged(e, f) = [e EXCEPT !.stop = f.stop]  BY <2>2, <2>4 DEF Entries
    <2>6. Joins(e, f, [e EXCEPT !.stop = f.stop])
      BY <1>3, <1>5 DEF Above, Touches, FreelyMerge, Joins, Entries
    <2>. QED  BY <2>5, <2>6
  <1>6. CASE Above(f, e)
    <2>1. ~Above(e, f) /\ ~LeftOf(e, f)  BY <1>2, <1>6 DEF Above, LeftOf, Touches
    <2>2. Merged(e, f) = [e EXCEPT !.start.y = f.start.y, !.begin.y = f.begin.y]
      BY <1>6, <2>1, MergedCases
    <2>3. e.start.x = f.start.x /\ e.begin.x = f.begin.x  BY <1>6 DEF Above, Touches
    <2>4. [e.start EXCEPT !.y = f.start.y] = f.start /\ [e.begin EXCEPT !.y = f.begin.y] = f.begin
      BY <1>2, <2>3 DEF Points
    <2>5. Merged(e, f) = [e EXCEPT !.start = f.start, !.begin = f.begin]  BY <2>2, <2>4 DEF Entries
    <2>6. Joins(f, e, [e EXCEPT !.start = f.start, !.begin = f.begin])
      BY <1>3, <1>6 DEF Above, Touches, FreelyMerge, Joins, Entries
    <2>. QED  BY <2>5, <2>6
  <1>7. CASE ~Above(e, f) /\ ~Above(f, e) /\ LeftOf(e, f)
    <2>2. Merged(e, f) = [e EXCEPT !.stop.x = f.stop.x]  BY <1>7, MergedCases
    <2>3. e.stop.y = f.stop.y  BY <1>7 DEF LeftOf, Touches
    <2>4. [e.stop EXCEPT !.x = f.stop.x] = f.stop  BY <1>2, <2>3 DEF Points
    <2>5. Merged(e, f) = [e EXCEPT !.stop = f.stop]  BY <2>2, <2>4 DEF Entries
    <2>6. Joins(e, f, [e EXCEPT !.stop = f.stop])
      BY <1>3, <1>7 DEF LeftOf, Touches, FreelyMerge, Joins, Entries
    <2>. QED  BY <2>5, <2>6
  <1>8. CASE ~Above(e, f) /\ ~Above(f, e) /\ ~LeftOf(e, f)
    <2>1. LeftOf(f, e)  BY <1>8 DEF Combinable
    <2>2. Merged(e, f) = [e EXCEPT !.start.x = f.start.x, !.begin.x = f.begin.x]
      BY <1>8, MergedCases
    <2>3. e.start.y = f.start.y /\ e.begin.y = f.begin.y  BY <2>1 DEF LeftOf, Touches
    <2>4. [e.start EXCEPT !.x = f.start.x] = f.start /\ [e.begin EXCEPT !.x = f.begin.x] = f.begin
      BY <1>2, <2>3 DEF Points
    <2>5. Merged(e, f) = [e EXCEPT !.start = f.start, !.begin = f.begin]  BY <2>2, <2>4 DEF Entries
    <2>6. Joins(f, e, [e EXCEPT !.start = f.start, !.begin = f.begin])
      BY <1>3, <2>1 DEF LeftOf, Touches, FreelyMerge, Joins, Entries
    <2>. QED  BY <2>5, <2>6
  <1>. QED  BY <1>5, <1>6, <1>7, <1>8

\* What a merge leaves of the mirroring: nothing along the merge, all of it across.
LEMMA JoinedHalves ==
    ASSUME NEW two, NEW a, NEW b, NEW m, Shape(a), Shape(b), Shape(m), Proper(two, a), Proper(two, b),
           Joins(a, b, m)
    PROVE  /\ HalfStop(m, "x") \in Int /\ HalfStop(m, "y") \in Int
           /\ \/ HalfStop(a, "x") = HalfStop(m, "x") /\ HalfStop(b, "x") = HalfStop(m, "x")
                 /\ a.start.x = b.start.x /\ a.stop.x = b.stop.x
              \/ HalfStop(m, "x") = m.stop.x /\ ~Mirrors(m, "x")
                 /\ HalfStop(a, "x") = a.stop.x /\ HalfStop(b, "x") = b.stop.x
           /\ \/ HalfStop(a, "y") = HalfStop(m, "y") /\ HalfStop(b, "y") = HalfStop(m, "y")
                 /\ a.start.y = b.start.y /\ a.stop.y = b.stop.y
              \/ HalfStop(m, "y") = m.stop.y /\ ~Mirrors(m, "y")
                 /\ HalfStop(a, "y") = a.stop.y /\ HalfStop(b, "y") = b.stop.y
           /\ Sym = "ORIGIN" => HalfStop(m, "y") = m.stop.y /\ HalfStop(a, "y") = a.stop.y
                                /\ HalfStop(b, "y") = b.stop.y
  <1>1. /\ a.start.x \in Int /\ a.start.y \in Int /\ a.stop.x \in Int /\ a.stop.y \in Int
        /\ a.start.x <= a.stop.x /\ a.start.y <= a.stop.y
    BY Corners
  <1>2. /\ b.start.x \in Int /\ b.start.y \in Int /\ b.stop.x \in Int /\ b.stop.y \in Int
        /\ b.start.x <= b.stop.x /\ b.start.y <= b.stop.y
    BY Corners
  <1>3. Centre("x") \in Int /\ Centre("y") \in Int  BY CentreType
  <1>4. /\ HalfStop(a, "x") \in Int /\ HalfStop(a, "y") \in Int
        /\ HalfStop(b, "x") \in Int /\ HalfStop(b, "y") \in Int
    BY HalfStops
  <1>5. \A d \in {"x", "y"} : /\ Mirrors(a, d) <=> Mirrors(m, d)
                              /\ Mirrors(b, d) <=> Mirrors(m, d)
                              /\ Mirrors(a, d) => a.start[d] + a.stop[d] = Centre(d)
                              /\ Mirrors(b, d) => b.start[d] + b.stop[d] = Centre(d)
                              /\ ~Mirrors(m, d) => /\ HalfStop(m, d) = m.stop[d]
                                                   /\ HalfStop(a, d) = a.stop[d]
                                                   /\ HalfStop(b, d) = b.stop[d]
    BY DEF Mirrors, Joins, Proper, HalfStop
  <1>6. Sym = "ORIGIN" => (Mirrors(m, "x") <=> Mirrors(m, "y"))
    BY DEF Mirrors, Joins, Proper, Axes
  <1>7. CASE a.stop.y + 1 = b.start.y /\ a.start.x = b.start.x /\ a.stop.x = b.stop.x
    <2>1. ~Mirrors(m, "y")  BY <1>1, <1>2, <1>3, <1>5, <1>7
    <2>2. HalfStop(a, "x") = HalfStop(m, "x") /\ HalfStop(b, "x") = HalfStop(m, "x")
      BY <1>5, <1>7 DEF HalfStop, Joins
    <2>3. m.stop.y = b.stop.y  BY DEF Joins
    <2>. QED  BY <1>1, <1>2, <1>4, <1>5, <1>6, <1>7, <2>1, <2>2, <2>3
  <1>8. CASE a.stop.x + 1 = b.start.x /\ a.start.y = b.start.y /\ a.stop.y = b.stop.y
    <2>1. ~Mirrors(m, "x")  BY <1>1, <1>2, <1>3, <1>5, <1>8
    <2>2. HalfStop(a, "y") = HalfStop(m, "y") /\ HalfStop(b, "y") = HalfStop(m, "y")
      BY <1>5, <1>8 DEF HalfStop, Joins
    <2>3. m.stop.x = b.stop.x  BY DEF Joins
    <2>. QED  BY <1>1, <1>2, <1>4, <1>5, <1>6, <1>8, <2>1, <2>2, <2>3
  <1>. QED  BY <1>7, <1>8 DEF Joins

\* The merged rectangle is both, and its pixels are written by the same ones.
LEMMA JoinedRects ==
    ASSUME NEW two, NEW a, NEW b, NEW m, Shape(a), Shape(b), Shape(m), Proper(two, a), Proper(two, b),
           Joins(a, b, m)
    PROVE  /\ Rect(m) = Rect(a) \cup Rect(b)
           /\ \A q \in Rect(a) : Source(m, q) = Source(a, q)
           /\ \A q \in Rect(b) : Source(m, q) = Source(b, q)
           /\ \A p \in Rect(b) : AtOrAfter(p, m.begin)
  <1>1. /\ a.start.x \in Int /\ a.start.y \in Int /\ a.stop.x \in Int /\ a.stop.y \in Int
        /\ a.start.x <= a.stop.x /\ a.start.y <= a.stop.y
        /\ a.begin.x \in Int /\ a.begin.y \in Int /\ a.begin.x <= a.stop.x
    BY Corners
  <1>2. /\ b.start.x \in Int /\ b.start.y \in Int /\ b.stop.x \in Int /\ b.stop.y \in Int
        /\ b.start.x <= b.stop.x /\ b.start.y <= b.stop.y
    BY Corners
  <1>3. /\ m.start = a.start /\ m.begin = a.begin /\ m.stop = b.stop /\ a.begin.y = a.start.y
        /\ \/ a.stop.y + 1 = b.start.y /\ a.start.x = b.start.x /\ a.stop.x = b.stop.x
           \/ a.stop.x + 1 = b.start.x /\ a.start.y = b.start.y /\ a.stop.y = b.stop.y
    BY DEF Joins
  <1>4. Rect(m) = Rect(a) \cup Rect(b)
    <2>1. ASSUME NEW q \in Points  PROVE q \in Rect(m) <=> q \in Rect(a) \/ q \in Rect(b)
      <3>1. q.x \in Int /\ q.y \in Int  BY PointParts
      <3>. QED  BY <1>1, <1>2, <1>3, <3>1, RectPoints
    <2>2. Rect(m) \subseteq Points /\ Rect(a) \subseteq Points /\ Rect(b) \subseteq Points
      BY RectPoints
    <2>. QED  BY <2>1, <2>2
  <1>5. ASSUME NEW q \in Rect(a) \cup Rect(b)
        PROVE  /\ q \in Rect(a) => Source(m, q) = Source(a, q)
               /\ q \in Rect(b) => Source(m, q) = Source(b, q)
    <2>1. /\ q \in Points /\ q.x \in Int /\ q.y \in Int
          /\ q \in Rect(a) => q.x <= a.stop.x /\ q.y <= a.stop.y
          /\ q \in Rect(b) => q.x <= b.stop.x /\ q.y <= b.stop.y
          /\ q.x <= m.stop.x /\ q.y <= m.stop.y
      BY <1>4, RectPoints, PointParts
    <2>2. CASE Sym = "ORIGIN"
      <3>1. HalfStop(m, "y") = m.stop.y /\ HalfStop(a, "y") = a.stop.y /\ HalfStop(b, "y") = b.stop.y
        BY <2>2, JoinedHalves
      <3>. QED  BY <2>1, <2>2, <3>1 DEF Source
    <2>3. CASE Sym # "ORIGIN"
      <3>1. /\ q \in Rect(a) => Fold(m, "x", q.x) = Fold(a, "x", q.x)
            /\ q \in Rect(b) => Fold(m, "x", q.x) = Fold(b, "x", q.x)
        <4>1. \/ HalfStop(a, "x") = HalfStop(m, "x") /\ HalfStop(b, "x") = HalfStop(m, "x")
                 /\ a.start.x = b.start.x /\ a.stop.x = b.stop.x
              \/ HalfStop(m, "x") = m.stop.x
                 /\ HalfStop(a, "x") = a.stop.x /\ HalfStop(b, "x") = b.stop.x
          BY JoinedHalves
        <4>. QED  BY <1>3, <2>1, <4>1 DEF Fold
      <3>2. /\ q \in Rect(a) => Fold(m, "y", q.y) = Fold(a, "y", q.y)
            /\ q \in Rect(b) => Fold(m, "y", q.y) = Fold(b, "y", q.y)
        <4>1. \/ HalfStop(a, "y") = HalfStop(m, "y") /\ HalfStop(b, "y") = HalfStop(m, "y")
                 /\ a.start.y = b.start.y /\ a.stop.y = b.stop.y
              \/ HalfStop(m, "y") = m.stop.y
                 /\ HalfStop(a, "y") = a.stop.y /\ HalfStop(b, "y") = b.stop.y
          BY JoinedHalves
        <4>. QED  BY <1>3, <2>1, <4>1 DEF Fold
      <3>. QED  BY <2>3, <3>1, <3>2 DEF Source
    <2>. QED  BY <2>2, <2>3
  <1>6. ASSUME NEW p \in Rect(b)  PROVE AtOrAfter(p, m.begin)
    <2>1. p \in Points /\ b.start.x <= p.x /\ b.start.y <= p.y /\ p.x \in Int /\ p.y \in Int
      BY RectPoints, PointParts
    <2>. QED  BY <1>1, <1>2, <1>3, <2>1 DEF AtOrAfter
  <1>. QED  BY <1>4, <1>5, <1>6

\* The merge of two fine entries that have nothing in common is a fine entry; it stands
\* for all they stood for, and has nothing in common with what they had nothing with.
LEMMA JoinedFine ==
    ASSUME NEW two \in BOOLEAN, NEW quick \in BOOLEAN, NEW done,
           NEW a, NEW b, NEW m, Shape(a), Shape(b), Shape(m),
           Fine(two, quick, done, a), Fine(two, quick, done, b), Beside(two, a, b), Joins(a, b, m)
    PROVE  /\ Fine(two, quick, done, m)
           /\ Open(two, a) \cup Open(two, b) \subseteq Open(two, m)
           /\ \A g : Beside(two, a, g) /\ Beside(two, b, g) => Beside(two, m, g)
  <1>1. Proper(two, a) /\ Proper(two, b)  BY DEF Fine
  <1>2. /\ m.start = a.start /\ m.begin = a.begin /\ m.stop = b.stop
        /\ a.pass = m.pass /\ b.pass = m.pass /\ a.symmetry = m.symmetry /\ b.symmetry = m.symmetry
    BY DEF Joins
  <1>3. (Decided(a) <=> Decided(m)) /\ (Decided(b) <=> Decided(m))  BY <1>2 DEF Decided
  <1>4. /\ Rect(m) = Rect(a) \cup Rect(b)
        /\ \A q \in Rect(a) : Source(m, q) = Source(a, q)
        /\ \A q \in Rect(b) : Source(m, q) = Source(b, q)
        /\ \A p \in Rect(b) : AtOrAfter(p, m.begin)
    BY <1>1, JoinedRects
  <1>5. two /\ m.pass = 0 => ~Decided(m)
    BY <1>2, <1>3 DEF Beside, InOrder
  <1>6. Proper(two, m)
    <2>1. m.start \in Screen /\ m.stop \in Screen  BY <1>1, <1>2 DEF Proper
    <2>2. m.begin \in Rect(m)  BY <1>1, <1>2, <1>4 DEF Proper
    <2>3. \A d \in Axes : m.symmetry[d] = "yes" => m.start[d] + m.stop[d] = Centre(d)
      <3>1. /\ a.start.x \in Int /\ a.start.y \in Int /\ a.stop.x \in Int /\ a.stop.y \in Int
            /\ a.start.x <= a.stop.x /\ a.start.y <= a.stop.y
        BY <1>1, Corners
      <3>2. /\ b.start.x \in Int /\ b.start.y \in Int /\ b.stop.x \in Int /\ b.stop.y \in Int
            /\ b.start.x <= b.stop.x /\ b.start.y <= b.stop.y
        BY <1>1, Corners
      <3>3. \A d \in Axes : m.symmetry[d] = "yes" => /\ a.start[d] + a.stop[d] = Centre(d)
                                                     /\ b.start[d] + b.stop[d] = Centre(d)
        BY <1>1, <1>2 DEF Proper
      <3>4. Axes \subseteq {"x", "y"} /\ Centre("x") \in Int /\ Centre("y") \in Int
        BY CentreType DEF Axes
      <3>5. \/ a.stop.y + 1 = b.start.y /\ a.start.x = b.start.x /\ a.stop.x = b.stop.x
            \/ a.stop.x + 1 = b.start.x /\ a.start.y = b.start.y /\ a.stop.y = b.stop.y
        BY DEF Joins
      <3>. QED  BY <1>2, <3>1, <3>2, <3>3, <3>4, <3>5
    <2>4. Sym = "ORIGIN" => m.symmetry.x = m.symmetry.y  BY <1>1, <1>2 DEF Proper
    <2>5. ~Decided(m) => /\ \A d \in Axes : m.symmetry[d] = "new"
                         /\ m.begin = m.start /\ (two => m.pass = 0)
      BY <1>1, <1>2, <1>3 DEF Proper
    <2>6. two => m.pass \in {0, 1} /\ (m.pass = 0 => Direct(m, m.begin))
      BY <1>1, <1>2 DEF Proper, Direct
    <2>. QED  BY <2>1, <2>2, <2>3, <2>4, <2>5, <2>6 DEF Proper
  <1>7. Guessed(two, m, done)
    <2>1. Guessed(two, a, done) /\ Guessed(two, b, done)  BY DEF Fine
    <2>. QED  BY <1>2, <1>3, <1>4, <1>5, <2>1 DEF Guessed
  <1>8. Closed(quick, m, done)
    <2>1. Closed(quick, a, done) /\ Closed(quick, b, done)  BY DEF Fine
    <2>. QED  BY <1>3, <1>4, <2>1 DEF Closed
  <1>9. ASSUME NEW q \in Open(two, a) \cup Open(two, b)  PROVE q \in Open(two, m)
    <2>1. CASE q \in Open(two, a)
      <3>1. q \in Rect(a) /\ Ahead(two, a, a.begin, Source(a, q))  BY <2>1 DEF Open, OpenFrom
      <3>2. Ahead(two, m, m.begin, Source(m, q))  BY <1>2, <1>4, <3>1 DEF Ahead
      <3>. QED  BY <1>4, <3>1, <3>2 DEF Open, OpenFrom
    <2>2. CASE q \in Open(two, b)
      <3>1. q \in Rect(b) /\ Ahead(two, b, b.begin, Source(b, q))  BY <2>2 DEF Open, OpenFrom
      <3>2. Source(b, q) \in Rect(b)  BY <1>1, <3>1, SourceInHalf, HalfPoints
      <3>3. Ahead(two, m, m.begin, Source(m, q))  BY <1>2, <1>4, <3>1, <3>2 DEF Ahead
      <3>. QED  BY <1>4, <3>1, <3>3 DEF Open, OpenFrom
    <2>. QED  BY <2>1, <2>2, <1>9
  <1>10. ASSUME NEW g, Beside(two, a, g), Beside(two, b, g)  PROVE Beside(two, m, g)
    <2>1. Rect(m) \cap Rect(g) = {}  BY <1>4, <1>10 DEF Beside
    <2>2. InOrder(two, m, g)  BY <1>5 DEF InOrder
    <2>3. InOrder(two, g, m)
      <3>1. InOrder(two, g, a)  BY <1>10 DEF Beside
      <3>2. Before(g, a) <=> Before(g, m)  BY <1>2 DEF Before
      <3>. QED  BY <1>2, <1>3, <3>1, <3>2 DEF InOrder
    <2>. QED  BY <2>1, <2>2, <2>3 DEF Beside
  <1>. QED  BY <1>6, <1>7, <1>8, <1>9, <1>10 DEF Fine

LEMMA BesideBoth == ASSUME NEW two, NEW e, NEW f, Beside(two, e, f)  PROVE Beside(two, f, e)
  BY DEF Beside

\* The fine entries, those beside one another, and what each stands for.
FineEntries(two, quick, done) == {e \in Entries : Fine(two, quick, done, e)}
BesideWin(two, w) == {e \in Entries : Beside(two, w, e)}
Pairs(two) == {p \in Entries \X Entries : Beside(two, p[1], p[2])}
Opens(two) == [e \in Entries |-> Open(two, e)]

LEMMA FineMerges ==
    ASSUME NEW two \in BOOLEAN, NEW quick \in BOOLEAN, NEW done,
           NEW G, G = FineEntries(two, quick, done)
                  \/ \E w : G = FineEntries(two, quick, done) \cap BesideWin(two, w)
    PROVE  MergesWithin(G, Pairs(two), Opens(two))
  <1>. SUFFICES ASSUME NEW e \in G, NEW f \in G, <<e, f>> \in Pairs(two), Combinable(e, f)
                PROVE  /\ Merged(e, f) \in G
                       /\ Opens(two)[e] \cup Opens(two)[f] \subseteq Opens(two)[Merged(e, f)]
                       /\ \A g \in G :
                            /\ <<e, g>> \in Pairs(two) /\ <<f, g>> \in Pairs(two)
                                  => <<Merged(e, f), g>> \in Pairs(two)
                            /\ <<g, e>> \in Pairs(two) /\ <<g, f>> \in Pairs(two)
                                  => <<g, Merged(e, f)>> \in Pairs(two)
    BY DEF MergesWithin
  <1>. DEFINE m == Merged(e, f)
  <1>1. /\ e \in Entries /\ f \in Entries
        /\ Fine(two, quick, done, e) /\ Fine(two, quick, done, f)
    BY DEF FineEntries
  <1>2. Beside(two, e, f) /\ Beside(two, f, e)  BY BesideBoth DEF Pairs
  <1>3. m \in Entries  BY <1>1, MergedIsEntry
  <1>4. Shape(e) /\ Shape(f) /\ Shape(m)  BY <1>1, <1>3, EntryShape
  <1>5. Joins(e, f, m) \/ Joins(f, e, m)  BY <1>1, MergeJoins DEF Fine
  <1>. HIDE DEF m
  <1>6. /\ Fine(two, quick, done, m)
        /\ Open(two, e) \cup Open(two, f) \subseteq Open(two, m)
        /\ \A g : Beside(two, e, g) /\ Beside(two, f, g) => Beside(two, m, g)
    <2>1. CASE Joins(e, f, m)  BY <1>1, <1>2, <1>4, <2>1, JoinedFine
    <2>2. CASE Joins(f, e, m)
      <3>1. /\ Fine(two, quick, done, m)
            /\ Open(two, f) \cup Open(two, e) \subseteq Open(two, m)
            /\ \A g : Beside(two, f, g) /\ Beside(two, e, g) => Beside(two, m, g)
        BY <1>1, <1>2, <1>4, <2>2, JoinedFine
      <3>. QED  BY <3>1
    <2>. QED  BY <1>5, <2>1, <2>2
  <1>7. m \in G
    <2>1. m \in FineEntries(two, quick, done)  BY <1>3, <1>6 DEF FineEntries
    <2>2. ASSUME NEW w, G = FineEntries(two, quick, done) \cap BesideWin(two, w)
          PROVE  m \in G
      <3>1. Beside(two, w, e) /\ Beside(two, w, f)  BY <2>2 DEF BesideWin
      <3>2. Beside(two, m, w)  BY <1>6, <3>1, BesideBoth
      <3>3. Beside(two, w, m)  BY <3>2, BesideBoth
      <3>. QED  BY <1>3, <2>1, <2>2, <3>3 DEF BesideWin
    <2>. QED  BY <2>1, <2>2
  <1>8. Opens(two)[e] \cup Opens(two)[f] \subseteq Opens(two)[m]  BY <1>1, <1>3, <1>6 DEF Opens
  <1>9. ASSUME NEW g \in G
        PROVE  /\ <<e, g>> \in Pairs(two) /\ <<f, g>> \in Pairs(two) => <<m, g>> \in Pairs(two)
               /\ <<g, e>> \in Pairs(two) /\ <<g, f>> \in Pairs(two) => <<g, m>> \in Pairs(two)
    <2>1. g \in Entries  BY DEF FineEntries
    <2>2. <<e, g>> \in Pairs(two) /\ <<f, g>> \in Pairs(two) => <<m, g>> \in Pairs(two)
      BY <1>3, <1>6, <2>1 DEF Pairs
    <2>3. ASSUME <<g, e>> \in Pairs(two), <<g, f>> \in Pairs(two)  PROVE <<g, m>> \in Pairs(two)
      <3>1. Beside(two, g, e) /\ Beside(two, g, f)  BY <2>3 DEF Pairs
      <3>2. Beside(two, e, g) /\ Beside(two, f, g)  BY <3>1, BesideBoth
      <3>3. Beside(two, g, m)  BY <1>6, <3>2, BesideBoth
      <3>. QED  BY <1>3, <2>1, <3>3 DEF Pairs
    <2>. QED  BY <2>2, <2>3
  <1>. QED  BY <1>7, <1>8, <1>9 DEF m

\* A list is fine when its entries are, are beside one another, and it is sorted.
LEMMA FineLists ==
    ASSUME NEW two, NEW quick, NEW done, NEW l \in Seq(Entries)
    PROVE  /\ FineList(two, quick, done, l) <=>
                 /\ l \in PairedLists(FineEntries(two, quick, done), Pairs(two))
                 /\ \A i, j \in 1 .. Len(l) : i < j => ~Before(l[j], l[i])
           /\ OpenList(two, l) = CoveredBy(Opens(two), l)
  <1>1. \A k \in 1 .. Len(l) : l[k] \in Entries  OBVIOUS
  <1>2. l \in Seq(FineEntries(two, quick, done))
           <=> \A k \in 1 .. Len(l) : Fine(two, quick, done, l[k])
    <2>1. ASSUME \A k \in 1 .. Len(l) : Fine(two, quick, done, l[k])
          PROVE  l \in Seq(FineEntries(two, quick, done))
      <3>1. \A k \in 1 .. Len(l) : l[k] \in FineEntries(two, quick, done)
        BY <1>1, <2>1 DEF FineEntries
      <3>. QED  BY <3>1
    <2>2. ASSUME l \in Seq(FineEntries(two, quick, done)), NEW k \in 1 .. Len(l)
          PROVE  Fine(two, quick, done, l[k])
      <3>1. l[k] \in FineEntries(two, quick, done)  BY <2>2
      <3>. QED  BY <3>1 DEF FineEntries
    <2>. QED  BY <2>1, <2>2
  <1>3. \A i, j \in 1 .. Len(l) : <<l[i], l[j]>> \in Pairs(two) <=> Beside(two, l[i], l[j])
    BY <1>1 DEF Pairs
  <1>4. \A k \in 1 .. Len(l) : Opens(two)[l[k]] = Open(two, l[k])  BY <1>1 DEF Opens
  <1>5. OpenList(two, l) = CoveredBy(Opens(two), l)  BY <1>4 DEF OpenList, CoveredBy
  <1>6. l \in PairedLists(FineEntries(two, quick, done), Pairs(two)) <=>
           /\ l \in Seq(FineEntries(two, quick, done))
           /\ \A i, j \in 1 .. Len(l) : i # j => Beside(two, l[i], l[j])
    BY <1>3 DEF PairedLists
  <1>. QED  BY <1>2, <1>5, <1>6 DEF FineList

\* What add_work_list makes of a fine list and a fine entry beside all of it, when there
\* is a free place: a fine list that stands for both, beside what both are beside.
LEMMA AddFine ==
    ASSUME NEW two \in BOOLEAN, NEW quick \in BOOLEAN, NEW done,
           NEW l \in Seq(Entries), FineList(two, quick, done, l), ~ListFull(l),
           NEW e \in Entries, Fine(two, quick, done, e),
           \A k \in 1 .. Len(l) : Beside(two, e, l[k])
    PROVE  /\ AddWorkList(l, e) \in Seq(Entries)
           /\ FineList(two, quick, done, AddWorkList(l, e))
           /\ OpenList(two, l) \cup Open(two, e) \subseteq OpenList(two, AddWorkList(l, e))
           /\ \A w : /\ \A k \in 1 .. Len(l) : Beside(two, w, l[k])
                     /\ Beside(two, w, e)
                     => \A k \in 1 .. Len(AddWorkList(l, e)) : Beside(two, w, AddWorkList(l, e)[k])
  <1>. DEFINE G == FineEntries(two, quick, done)
              R == Pairs(two)
              C == Opens(two)
              a == AddWorkList(l, e)
  <1>1. G \in SUBSET Entries  BY DEF FineEntries
  <1>2. l \in PairedLists(G, R)  BY FineLists
  <1>3. e \in G  BY DEF FineEntries
  <1>4. \A k \in 1 .. Len(l) : l[k] \in Entries  OBVIOUS
  <1>5. \A k \in 1 .. Len(l) : <<l[k], e>> \in R /\ <<e, l[k]>> \in R
    BY <1>4, BesideBoth DEF Pairs
  <1>6. MergesWithin(G, R, C)  BY FineMerges
  <1>. HIDE DEF G, R, C
  <1>7. /\ a \in PairedLists(G, R)
        /\ CoveredBy(C, l) \cup C[e] \subseteq CoveredBy(C, a)
        /\ \A i, j \in 1 .. Len(a) : i < j => ~Before(a[j], a[i])
    BY <1>1, <1>2, <1>3, <1>5, <1>6, AddPaired
  <1>8. a \in Seq(Entries)
    <2>1. a \in Seq(G)  BY <1>7 DEF PairedLists
    <2>. HIDE DEF a
    <2>. QED  BY <1>1, <2>1
  <1>9. FineList(two, quick, done, a)
    BY <1>7, <1>8, FineLists DEF G, R
  <1>10. OpenList(two, l) \cup Open(two, e) \subseteq OpenList(two, a)
    <2>1. OpenList(two, l) = CoveredBy(C, l) /\ OpenList(two, a) = CoveredBy(C, a)
      BY <1>8, FineLists DEF C
    <2>2. C[e] = Open(two, e)  BY DEF C, Opens
    <2>. QED  BY <1>7, <2>1, <2>2
  <1>11. ASSUME NEW w, \A k \in 1 .. Len(l) : Beside(two, w, l[k]), Beside(two, w, e)
         PROVE  \A k \in 1 .. Len(a) : Beside(two, w, a[k])
    <2>. DEFINE H == FineEntries(two, quick, done) \cap BesideWin(two, w)
    <2>1. MergesWithin(H, R, C)  BY FineMerges DEF R, C
    <2>2. H \in SUBSET Entries  BY DEF FineEntries
    <2>3. e \in H  BY <1>11 DEF FineEntries, BesideWin
    <2>4. \A k \in 1 .. Len(l) : l[k] \in H
      <3>1. \A k \in 1 .. Len(l) : Fine(two, quick, done, l[k])  BY DEF FineList
      <3>. QED  BY <1>4, <1>11, <3>1 DEF FineEntries, BesideWin
    <2>. HIDE DEF H
    <2>5. l \in PairedLists(H, R)
      <3>1. l \in Seq(H)  BY <2>4
      <3>. QED  BY <1>2, <3>1 DEF PairedLists
    <2>6. a \in PairedLists(H, R)  BY <2>1, <2>2, <2>3, <2>5, <1>5, AddPaired
    <2>7. a \in Seq(H)  BY <2>6 DEF PairedLists
    <2>8. \A k \in 1 .. Len(a) : a[k] \in H
      <3>. HIDE DEF a
      <3>. QED  BY <2>7
    <2>. QED  BY <2>8 DEF H, BesideWin
  <1>. QED  BY <1>8, <1>9, <1>10, <1>11

-----------------------------------------------------------------------------
\* The plots.

\* The plot function of a window mirrors exactly the axes that are used.
LEMMA PlotMeans ==
    ASSUME NEW two, NEW w \in Windows, Proper(two, w), Ready(w)
    PROVE  \/ w.plot = "put_color" /\ ~Mirrors(w, "x") /\ ~Mirrors(w, "y")
           \/ w.plot = "sym_plot2" /\ ~Mirrors(w, "x") /\ Mirrors(w, "y") /\ Sym \in {"X_AXIS", "XY_AXIS"}
           \/ w.plot = "sym_plot2y" /\ Mirrors(w, "x") /\ ~Mirrors(w, "y") /\ Sym \in {"Y_AXIS", "XY_AXIS"}
           \/ w.plot = "sym_plot2j" /\ Mirrors(w, "x") /\ Mirrors(w, "y") /\ Sym = "ORIGIN"
           \/ w.plot = "sym_plot4" /\ Mirrors(w, "x") /\ Mirrors(w, "y") /\ Sym = "XY_AXIS"
  <1>1. w.plot = PlotFor(w)  BY DEF Ready
  <1>3. CASE Sym = "XY_AXIS"
    <2>1. w.plot = XYPlot(w)  BY <1>1, <1>3 DEF PlotFor
    <2>2. /\ Mirrors(w, "x") <=> w.symmetry.x = "yes"
          /\ Mirrors(w, "y") <=> w.symmetry.y = "yes"
      BY <1>3 DEF Mirrors, Axes
    <2>3. CASE w.symmetry.x = "yes" /\ w.symmetry.y = "yes"
      <3>1. w.plot = "sym_plot4"  BY <2>1, <2>3 DEF XYPlot
      <3>. QED  BY <1>3, <2>2, <2>3, <3>1
    <2>4. CASE w.symmetry.x # "yes" /\ w.symmetry.y = "yes"
      <3>1. w.plot = "sym_plot2"  BY <2>1, <2>4 DEF XYPlot
      <3>. QED  BY <1>3, <2>2, <2>4, <3>1
    <2>5. CASE w.symmetry.x = "yes" /\ w.symmetry.y # "yes"
      <3>1. w.plot = "sym_plot2y"  BY <2>1, <2>5 DEF XYPlot
      <3>. QED  BY <1>3, <2>2, <2>5, <3>1
    <2>6. CASE w.symmetry.x # "yes" /\ w.symmetry.y # "yes"
      <3>1. w.plot = "put_color"  BY <2>1, <2>6 DEF XYPlot
      <3>. QED  BY <1>3, <2>2, <2>6, <3>1
    <2>. QED  BY <2>3, <2>4, <2>5, <2>6
  <1>4. CASE Sym = "ORIGIN"
    <2>1. w.symmetry.x = w.symmetry.y  BY <1>4 DEF Proper
    <2>. QED  BY <1>1, <1>4, <2>1 DEF PlotFor, Mirrors, Axes
  <1>5. CASE Sym \in {"NONE", "X_AXIS", "Y_AXIS"}
    BY <1>1, <1>5 DEF PlotFor, Mirrors, Axes
  <1>. QED  BY <1>3, <1>4, <1>5, SymmetryAssumption DEF SymmetryKinds

LEMMA AcrossIs ==
    ASSUME NEW d \in {"x", "y"}, NEW c \in Int
    PROVE  Across(d, c) = Centre(d) - c
  <1>1. Axis[d] \in Int  BY SymmetryAssumption
  <1>. QED  BY <1>1 DEF Across, Centre

\* A pixel and its reflection within a window, along one axis.
LEMMA Reflected ==
    ASSUME NEW w, Shape(w), NEW two, Proper(two, w), NEW d \in {"x", "y"},
           NEW c \in w.start[d] .. HalfStop(w, d)
    PROVE  /\ w.start[d] \in Int /\ w.stop[d] \in Int /\ HalfStop(w, d) \in Int /\ c \in Int
           /\ w.stop[d] - (c - w.start[d]) \in w.start[d] .. w.stop[d]
           /\ Mirrors(w, d) => Across(d, c) = w.stop[d] - (c - w.start[d])
           /\ Mirrors(w, d) /\ ~(Sym = "ORIGIN" /\ d = "x") => w.stop[d] - (c - w.start[d]) >= HalfStop(w, d)
           /\ \A b \in w.start[d] .. w.stop[d] :
                 Fold(w, d, b) = c <=> b = c \/ (b > HalfStop(w, d) /\ b = w.stop[d] - (c - w.start[d]))
  <1>1. /\ w.start[d] \in Int /\ w.stop[d] \in Int /\ HalfStop(w, d) \in Int /\ c \in Int
        /\ w.start[d] <= HalfStop(w, d) /\ HalfStop(w, d) <= w.stop[d]
    BY HalfStops
  <1>2. w.stop[d] - (c - w.start[d]) \in w.start[d] .. w.stop[d]  BY <1>1
  <1>3. ASSUME Mirrors(w, d)  PROVE Across(d, c) = w.stop[d] - (c - w.start[d])
    <2>1. w.start[d] + w.stop[d] = Centre(d)  BY <1>3 DEF Mirrors, Proper
    <2>2. Across(d, c) = Centre(d) - c  BY <1>1, AcrossIs
    <2>. QED  BY <1>1, <2>1, <2>2
  <1>4. ASSUME Mirrors(w, d), ~(Sym = "ORIGIN" /\ d = "x")
        PROVE  w.stop[d] - (c - w.start[d]) >= HalfStop(w, d)
    <2>1. w.start[d] + w.stop[d] = Centre(d) /\ 2 * HalfStop(w, d) <= Centre(d) /\ Centre(d) \in Int
      BY <1>4, HalfStops, CentreType
    <2>. HIDE DEF HalfStop
    <2>. QED  BY <1>1, <2>1
  <1>5. ASSUME NEW b \in w.start[d] .. w.stop[d]
        PROVE  Fold(w, d, b) = c <=> b = c \/ (b > HalfStop(w, d) /\ b = w.stop[d] - (c - w.start[d]))
    BY <1>1 DEF Fold
  <1>. QED  BY <1>1, <1>2, <1>3, <1>4, <1>5

\* g_plot(p) writes the pixels whose source p is, and they have the colour of p.
LEMMA TargetsAre ==
    ASSUME NEW two, NEW w \in Windows, Proper(two, w), Ready(w),
           NEW p \in Half(w)
    PROVE  /\ Targets(w, p) = {q \in Rect(w) : Source(w, q) = p}
           /\ Targets(w, p) \subseteq SameColour(p)
  <1>. DEFINE i == w.stop.y - (p.y - w.start.y)
              j == w.stop.x - (p.x - w.start.x)
              h == HalfStop(w, "x")
              k == HalfStop(w, "y")
  <1>1. Proper(two, w) /\ Shape(w) /\ w.i_stop = Pt(h, k)
    BY WindowShape DEF Ready
  <1>2. p \in Points /\ p.x \in w.start.x .. h /\ p.y \in w.start.y .. k /\ p \in Rect(w)
        /\ p.x \in Int /\ p.y \in Int /\ p = Pt(p.x, p.y)
    BY <1>1, HalfPoints, PointParts, HalfStops DEF Shape, Points
  <1>3. /\ w.start.x \in Int /\ w.stop.x \in Int /\ h \in Int /\ j \in w.start.x .. w.stop.x
        /\ Mirrors(w, "x") => Across("x", p.x) = j
        /\ Mirrors(w, "x") /\ Sym # "ORIGIN" => j >= h
        /\ \A b \in w.start.x .. w.stop.x : Fold(w, "x", b) = p.x <=> b = p.x \/ (b > h /\ b = j)
    BY <1>1, <1>2, Reflected
  <1>4. /\ w.start.y \in Int /\ w.stop.y \in Int /\ k \in Int /\ i \in w.start.y .. w.stop.y
        /\ Mirrors(w, "y") => Across("y", p.y) = i
        /\ Mirrors(w, "y") => i >= k
        /\ \A b \in w.start.y .. w.stop.y : Fold(w, "y", b) = p.y <=> b = p.y \/ (b > k /\ b = i)
    BY <1>1, <1>2, Reflected
  <1>5. w.stop.x < XDots /\ w.stop.y < YDots /\ XDots \in Int /\ YDots \in Int  BY <1>1, Corners
  <1>6. /\ ~Mirrors(w, "x") => h = w.stop.x
        /\ ~Mirrors(w, "y") => k = w.stop.y
        /\ Sym = "ORIGIN" => h = w.stop.x
    BY DEF HalfStop
  <1>7. w.i_stop.x = h /\ w.i_stop.y = k  BY <1>1 DEF Pt
  <1>. DEFINE below == i > k
              over  == IF below THEN {i} ELSE {}
  <1>8. Targets(w, p) = CASE w.plot = "put_color"  -> {p}
                          [] w.plot = "sym_plot2"  -> {p} \cup {Pt(p.x, y) : y \in over}
                          [] w.plot = "sym_plot2y" -> {p, Pt(j, p.y)}
                          [] w.plot = "sym_plot2j" -> {p} \cup (IF below THEN {Pt(j, i)} ELSE {})
                          [] w.plot = "sym_plot4"  -> {Pt(x, y) : x \in {p.x, j}, y \in {p.y} \cup over}
    <2>1. j < XDots /\ i < YDots  BY <1>3, <1>4, <1>5
    <2>. HIDE DEF i, j, h, k
    <2>2. (i > w.i_stop.y /\ i < YDots) <=> below  BY <1>7, <2>1
    <2>3. {Pt(x, p.y) : x \in {j}} = {Pt(j, p.y)}  OBVIOUS
    <2>. QED  BY <2>1, <2>2, <2>3 DEF Targets, i, j
  <1>9. ASSUME NEW q \in Rect(w)
        PROVE  /\ q \in Points /\ q.x \in w.start.x .. w.stop.x /\ q.y \in w.start.y .. w.stop.y
               /\ q.x \in Int /\ q.y \in Int /\ q = Pt(q.x, q.y)
    BY <1>1, <1>3, <1>4, RectPoints, PointParts DEF Shape
  <1>10. \A a, b, c, d : Pt(a, b) = Pt(c, d) <=> a = c /\ b = d  BY DEF Pt
  <1>11. \A a \in w.start.x .. w.stop.x, b \in w.start.y .. w.stop.y :
            Pt(a, b) \in Rect(w) /\ Pt(a, b).x = a /\ Pt(a, b).y = b
    BY DEF Rect, Pt
  <1>12. p.x \in w.start.x .. w.stop.x /\ p.y \in w.start.y .. w.stop.y  BY <1>2, <1>9
  <1>13. Targets(w, p) \subseteq Rect(w)
    <2>. HIDE DEF i, j, h, k
    <2>1. Pt(p.x, i) \in Rect(w) /\ Pt(j, p.y) \in Rect(w) /\ Pt(j, i) \in Rect(w) /\ p \in Rect(w)
      BY <1>2, <1>3, <1>4, <1>11, <1>12
    <2>2. {Pt(x, y) : x \in {p.x, j}, y \in {p.y} \cup over} \subseteq Rect(w)
      BY <1>3, <1>4, <1>11, <1>12
    <2>. QED  BY <1>8, <2>1, <2>2, PlotMeans
  <1>14. ASSUME NEW q \in Rect(w)  PROVE q \in Targets(w, p) <=> Source(w, q) = p
    <2>1. Sym # "ORIGIN" => (Source(w, q) = p <=> /\ q.x = p.x \/ (q.x > h /\ q.x = j)
                                                  /\ q.y = p.y \/ (q.y > k /\ q.y = i))
      <3>1. Sym # "ORIGIN" => Source(w, q) = Pt(Fold(w, "x", q.x), Fold(w, "y", q.y))  BY DEF Source
      <3>2. Fold(w, "x", q.x) = p.x <=> q.x = p.x \/ (q.x > h /\ q.x = j)  BY <1>3, <1>9
      <3>3. Fold(w, "y", q.y) = p.y <=> q.y = p.y \/ (q.y > k /\ q.y = i)  BY <1>4, <1>9
      <3>. HIDE DEF i, j, h, k
      <3>. QED  BY <1>2, <1>10, <3>1, <3>2, <3>3
    <2>2. Sym = "ORIGIN" => (Source(w, q) = p <=> q = p \/ (q.y > k /\ q = Pt(j, i)))
      <3>1. Sym = "ORIGIN" => Source(w, q) = IF q.y <= k THEN q
                              ELSE Pt(w.start.x + w.stop.x - q.x, w.start.y + w.stop.y - q.y)
        BY DEF Source
      <3>2. w.start.x + w.stop.x - q.x = p.x <=> q.x = j  BY <1>2, <1>3, <1>9
      <3>3. w.start.y + w.stop.y - q.y = p.y <=> q.y = i  BY <1>2, <1>4, <1>9
      <3>4. ~(q.y <= k) <=> q.y > k  BY <1>4, <1>9
      <3>5. p.y <= k  BY <1>2, <1>4
      <3>. HIDE DEF i, j, h, k
      <3>. QED  BY <1>2, <1>9, <1>10, <3>1, <3>2, <3>3, <3>4, <3>5
    <2>3. q = p <=> q.x = p.x /\ q.y = p.y  BY <1>2, <1>9, <1>10
    <2>4. /\ q = Pt(p.x, i) <=> q.x = p.x /\ q.y = i
          /\ q = Pt(j, p.y) <=> q.x = j /\ q.y = p.y
          /\ q = Pt(j, i) <=> q.x = j /\ q.y = i
      <3>. HIDE DEF i, j
      <3>. QED  BY <1>9, <1>10
    <2>5. \A x, y : q = Pt(x, y) <=> q.x = x /\ q.y = y
      BY <1>9, <1>10
    <2>6. ~Mirrors(w, "x") => ~(q.x > h)  BY <1>3, <1>6, <1>9
    <2>7. ~Mirrors(w, "y") => ~(q.y > k)  BY <1>4, <1>6, <1>9
    <2>8. Mirrors(w, "x") /\ Sym # "ORIGIN" => (q.x = j <=> (q.x = p.x /\ j = p.x) \/ (q.x > h /\ q.x = j))
      <3>1. ASSUME Mirrors(w, "x"), Sym # "ORIGIN", q.x = j, ~(q.x > h)  PROVE j = p.x
        <4>1. j = h  BY <1>3, <1>9, <3>1
        <4>2. h >= p.x /\ h \in Int /\ w.start.x + w.stop.x = Centre("x") /\ Centre("x") <= 2 * h + 1
              /\ 2 * h <= Centre("x") /\ Centre("x") \in Int
          BY <1>1, <1>2, <1>3, <3>1, HalfStops, CentreType
        <4>. HIDE DEF h
        <4>. QED  BY <1>2, <1>3, <4>1, <4>2
      <3>. QED  BY <3>1
    <2>9. CASE w.plot = "put_color"
      <3>1. Targets(w, p) = {p} /\ ~Mirrors(w, "x") /\ ~Mirrors(w, "y")  BY <1>8, <2>9, PlotMeans
      <3>. HIDE DEF i, j, h, k
      <3>. QED  BY <2>1, <2>2, <2>3, <2>6, <2>7, <3>1
    <2>10. CASE w.plot = "sym_plot2"
      <3>1. Targets(w, p) = {p} \cup {Pt(p.x, y) : y \in over} /\ ~Mirrors(w, "x") /\ Sym # "ORIGIN"
        BY <1>8, <2>10, PlotMeans
      <3>. HIDE DEF i, j, h, k
      <3>2. q \in Targets(w, p) <=> q = p \/ (below /\ q = Pt(p.x, i))  BY <3>1
      <3>. QED  BY <2>1, <2>3, <2>4, <2>6, <3>1, <3>2
    <2>11. CASE w.plot = "sym_plot2y"
      <3>1. Targets(w, p) = {p, Pt(j, p.y)} /\ Mirrors(w, "x") /\ ~Mirrors(w, "y") /\ Sym # "ORIGIN"
        BY <1>8, <2>11, PlotMeans
      <3>. HIDE DEF i, j, h, k
      <3>. QED  BY <2>1, <2>3, <2>4, <2>7, <2>8, <3>1
    <2>12. CASE w.plot = "sym_plot2j"
      <3>1. Targets(w, p) = {p} \cup (IF below THEN {Pt(j, i)} ELSE {}) /\ Sym = "ORIGIN"
        BY <1>8, <2>12, PlotMeans
      <3>. HIDE DEF i, j, h, k
      <3>2. q \in Targets(w, p) <=> q = p \/ (below /\ q = Pt(j, i))  BY <3>1
      <3>. QED  BY <2>2, <2>4, <3>1, <3>2
    <2>13. CASE w.plot = "sym_plot4"
      <3>1. /\ Targets(w, p) = {Pt(x, y) : x \in {p.x, j}, y \in {p.y} \cup over}
            /\ Mirrors(w, "x") /\ Sym # "ORIGIN"
        BY <1>8, <2>13, PlotMeans
      <3>. HIDE DEF i, j, h, k
      <3>2. q \in Targets(w, p) <=> (q.x = p.x \/ q.x = j) /\ (q.y = p.y \/ (below /\ q.y = i))
        BY <2>5, <3>1
      <3>3. q.x = p.x \/ q.x = j <=> q.x = p.x \/ (q.x > h /\ q.x = j)  BY <2>8, <3>1
      <3>4. q.y = p.y \/ (below /\ q.y = i) <=> q.y = p.y \/ (q.y > k /\ q.y = i)  OBVIOUS
      <3>. QED  BY <2>1, <3>1, <3>2, <3>3, <3>4
    <2>. QED  BY <2>9, <2>10, <2>11, <2>12, <2>13, PlotMeans
  <1>15. Targets(w, p) \subseteq SameColour(p)
    <2>1. p \in SameColour(p)  BY DEF SameColour
    <2>. HIDE DEF i, j, h, k
    <2>2. CASE w.plot = "put_color"  BY <1>8, <2>1, <2>2
    <2>3. CASE w.plot = "sym_plot2"
      BY <1>4, <1>8, <2>1, <2>3, PlotMeans DEF SameColour
    <2>4. CASE w.plot = "sym_plot2y"
      BY <1>3, <1>8, <2>1, <2>4, PlotMeans DEF SameColour
    <2>5. CASE w.plot = "sym_plot2j"
      BY <1>3, <1>4, <1>8, <2>1, <2>5, PlotMeans DEF SameColour
    <2>6. CASE w.plot = "sym_plot4"
      <3>1. SameColour(p) = {p, Pt(p.x, i), Pt(j, p.y), Pt(j, i)}
        BY <1>3, <1>4, <2>6, PlotMeans DEF SameColour
      <3>2. Targets(w, p) \subseteq {Pt(p.x, p.y), Pt(p.x, i), Pt(j, p.y), Pt(j, i)}  BY <1>8, <2>6
      <3>. QED  BY <1>2, <3>1, <3>2
    <2>. QED  BY <2>2, <2>3, <2>4, <2>5, <2>6, PlotMeans
  <1>. QED  BY <1>13, <1>14, <1>15

\* What the passes of a window still give their colour, in the terms of the model.
LEMMA RemainingIs ==
    ASSUME NEW w \in Windows, Proper(TwoPasses, w), Ready(w), NEW at
    PROVE  Remaining(w, at) = OpenFrom(TwoPasses, w, at)
  <1>1. Shape(w) /\ w.i_stop.x = HalfStop(w, "x") /\ w.i_stop.y = HalfStop(w, "y")
    BY WindowShape DEF Ready, Pt
  <1>2. Due(w, at) = {p \in Half(w) : Ahead(TwoPasses, w, at, p)}
    <2>1. [x : w.start.x .. w.i_stop.x, y : w.start.y .. w.i_stop.y] = Half(w)  BY <1>1 DEF Half
    <2>2. CASE ~TwoPasses  BY <2>1, <2>2 DEF Due, Ahead
    <2>3. CASE TwoPasses /\ w.pass = 0  BY <2>1, <2>3 DEF Due, Ahead, Odd
    <2>4. CASE TwoPasses /\ w.pass # 0  BY <2>1, <2>4 DEF Due, Ahead, Odd
    <2>. QED  BY <2>2, <2>3, <2>4
  <1>3. \A p \in Due(w, at) : Targets(w, p) \cap SameColour(p) = {q \in Rect(w) : Source(w, q) = p}
    <2>. TAKE p \in Due(w, at)
    <2>1. p \in Half(w)  BY <1>2
    <2>. QED  BY <2>1, TargetsAre
  <1>4. \A q \in Rect(w) : Source(w, q) \in Half(w)  BY <1>1, SourceInHalf
  <1>5. Remaining(w, at) = UNION {{q \in Rect(w) : Source(w, q) = p} : p \in Due(w, at)}
    BY <1>3 DEF Remaining
  <1>. QED  BY <1>2, <1>4, <1>5 DEF OpenFrom

-----------------------------------------------------------------------------
\* The splits.

\* The list behind a window taken off it: its entries share no pixel with it, and the
\* first passes among them have not begun and come after its own.
Foremost(two, w, f) == /\ Rect(w) \cap Rect(f) = {}
                       /\ two /\ w.pass = 0 /\ f.pass = 0 => ~Decided(f) /\ Before(w, f)

LEMMA ForemostBeside ==
    ASSUME NEW two, NEW w, NEW f
    PROVE  /\ Foremost(two, w, f) => Beside(two, w, f)
           /\ Beside(two, w, f) /\ Decided(w) => Foremost(two, w, f)
  BY DEF Foremost, Beside, InOrder

\* It does not depend on what is decided of the window.
LEMMA ForemostDecided ==
    ASSUME NEW two, NEW w \in Windows, NEW f
    PROVE  Foremost(two, w, f) <=> Beside(two, [w EXCEPT !.symmetry = DecidedNo], f)
  <1>. DEFINE v == [w EXCEPT !.symmetry = DecidedNo]
  <1>1. v.start = w.start /\ v.stop = w.stop /\ v.pass = w.pass /\ v.symmetry = DecidedNo
    BY DEF Windows
  <1>2. Decided(v)
    <2>1. \A d \in {"x", "y"} : DecidedNo[d] # "new"  BY DEF DecidedNo
    <2>2. Axes \subseteq {"x", "y"}  BY DEF Axes
    <2>. HIDE DEF v
    <2>. QED  BY <1>1, <2>1, <2>2 DEF Decided
  <1>. HIDE DEF v
  <1>3. Rect(v) = Rect(w) /\ (Before(v, f) <=> Before(w, f))  BY <1>1 DEF Rect, Before
  <1>4. Foremost(two, v, f) <=> Foremost(two, w, f)  BY <1>1, <1>3 DEF Foremost
  <1>5. Beside(two, v, f) <=> Foremost(two, v, f)  BY <1>2, ForemostBeside
  <1>. QED  BY <1>4, <1>5 DEF v

\* Of a window that begins at its corner, and is in its first pass, all is open.
LEMMA AllOpen ==
    ASSUME NEW w, Shape(w), NEW two \in BOOLEAN, Proper(two, w), w.begin = w.start, two => w.pass = 0
    PROVE  OpenFrom(two, w, w.begin) = Rect(w)
  <1>1. ASSUME NEW q \in Rect(w)  PROVE Ahead(two, w, w.begin, Source(w, q))
    <2>. DEFINE p == Source(w, q)
    <2>1. p \in Rect(w)  BY SourceInHalf, HalfPoints
    <2>. HIDE DEF p
    <2>2. w.start.x <= p.x /\ w.start.y <= p.y /\ p.x \in Int /\ p.y \in Int
          /\ w.start.x \in Int /\ w.start.y \in Int
      BY <2>1, RectPoints, PointParts, Corners
    <2>3. AtOrAfter(p, w.begin)  BY <2>2 DEF AtOrAfter
    <2>. QED  BY <2>3 DEF Ahead, p
  <1>. QED  BY <1>1 DEF OpenFrom

\* An entry taken off the list, and the splits that are made of it and of the rest.
SplitOK(two, quick, done, e, rest, st) ==
    /\ st \in SplitStates
    /\ st.win.start = e.start /\ st.win.begin = e.begin /\ st.win.pass = e.pass
    /\ st.win.stop.x \in e.start.x .. e.stop.x /\ st.win.stop.y \in e.start.y .. e.stop.y
    /\ Decided(e) => st.win.stop = e.stop /\ st.list = rest
    /\ FineList(two, quick, done, st.list)
    /\ \A k \in 1 .. Len(st.list) : Foremost(two, st.win, st.list[k])
    /\ Rect(e) \cup OpenList(two, rest) \subseteq Rect(st.win) \cup OpenList(two, st.list)

\* The piece behind place cut, with w the part before it.
LEMMA CutFine ==
    ASSUME NEW two \in BOOLEAN, NEW quick \in BOOLEAN, NEW done,
           NEW e \in Entries, Fine(two, quick, done, e), ~Decided(e), NEW rest,
           NEW st, SplitOK(two, quick, done, e, rest, st), RoomToSplit(st.list),
           NEW d \in {"x", "y"}, d \in Axes,
           NEW cut \in Int, e.start[d] <= cut, cut < st.win.stop[d],
           NEW w \in Windows, w.start = e.start, w.pass = e.pass, w.stop[d] = cut,
           \A o \in {"x", "y"} \ {d} : w.stop[o] = st.win.stop[o],
           NEW l, l = AddWorkList(st.list, CutOff(st.win, d, cut + 1))
    PROVE  /\ FineList(two, quick, done, l)
           /\ \A k \in 1 .. Len(l) : Foremost(two, w, l[k])
           /\ Rect(e) \cup OpenList(two, rest) \subseteq Rect(w) \cup OpenList(two, l)
  <1>. DEFINE v == st.win
              corner == [v.start EXCEPT ![d] = cut + 1]
              piece == CutOff(v, d, cut + 1)
  <1>1. /\ st \in SplitStates /\ v \in Windows /\ st.list \in Lists
        /\ v.start = e.start /\ v.begin = e.begin /\ v.pass = e.pass
        /\ FineList(two, quick, done, st.list)
        /\ \A k \in 1 .. Len(st.list) : Foremost(two, v, st.list[k])
        /\ Rect(e) \cup OpenList(two, rest) \subseteq Rect(v) \cup OpenList(two, st.list)
        /\ v.stop.x \in e.start.x .. e.stop.x /\ v.stop.y \in e.start.y .. e.stop.y
    BY DEF SplitOK, SplitStates
  <1>2. Proper(two, e) /\ Shape(e) /\ Shape(w) /\ Shape(v)  BY <1>1, EntryShape, WindowShape DEF Fine
  <1>3. /\ e.start.x \in Int /\ e.start.y \in Int /\ e.stop.x \in Int /\ e.stop.y \in Int
        /\ 0 <= e.start.x /\ e.start.x <= e.stop.x /\ e.stop.x < XDots
        /\ 0 <= e.start.y /\ e.start.y <= e.stop.y /\ e.stop.y < YDots
        /\ XDots \in Int /\ YDots \in Int
    BY <1>2, Corners
  <1>4. v.stop.x \in Int /\ v.stop.y \in Int /\ v.stop \in Points /\ v.start \in Points
    BY <1>2 DEF Shape, Points
  <1>5. piece \in Entries /\ Shape(piece)  BY <1>1, CutOffType, EntryShape
  <1>6. /\ piece.start = corner /\ piece.begin = corner /\ piece.stop = v.stop /\ piece.pass = e.pass
        /\ piece.symmetry = Undecided
    BY <1>1 DEF CutOff, Entry
  <1>7. /\ corner \in Points /\ corner[d] = cut + 1
        /\ \A o \in {"x", "y"} \ {d} : corner[o] = e.start[o]
    BY <1>1, <1>4 DEF Points
  <1>. HIDE DEF piece, corner
  <1>8. Rect(piece) \subseteq Rect(v) /\ Rect(w) \subseteq Rect(v) /\ Rect(v) \subseteq Rect(e)
        /\ Rect(piece) \cap Rect(w) = {} /\ Rect(v) \subseteq Rect(w) \cup Rect(piece)
    <2>1. ASSUME NEW q \in Points
          PROVE  /\ q \in Rect(piece) => q \in Rect(v)
                 /\ q \in Rect(w) => q \in Rect(v)
                 /\ q \in Rect(v) => q \in Rect(e)
                 /\ ~(q \in Rect(piece) /\ q \in Rect(w))
                 /\ q \in Rect(v) => q \in Rect(w) \/ q \in Rect(piece)
      <3>0. q.x \in Int /\ q.y \in Int  BY PointParts
      <3>1. /\ q \in Rect(piece) <=> corner.x <= q.x /\ q.x <= v.stop.x /\ corner.y <= q.y /\ q.y <= v.stop.y
            /\ q \in Rect(v) <=> e.start.x <= q.x /\ q.x <= v.stop.x /\ e.start.y <= q.y /\ q.y <= v.stop.y
            /\ q \in Rect(w) <=> e.start.x <= q.x /\ q.x <= w.stop.x /\ e.start.y <= q.y /\ q.y <= w.stop.y
            /\ q \in Rect(e) <=> e.start.x <= q.x /\ q.x <= e.stop.x /\ e.start.y <= q.y /\ q.y <= e.stop.y
        BY <1>1, <1>2, <1>5, <1>6, RectPoints
      <3>2. CASE d = "x"
        <4>1. /\ corner.x = cut + 1 /\ corner.y = e.start.y /\ w.stop.x = cut /\ w.stop.y = v.stop.y
              /\ e.start.x <= cut /\ cut < v.stop.x
          BY <1>7, <3>2
        <4>. QED  BY <1>1, <1>3, <1>4, <3>0, <3>1, <4>1
      <3>3. CASE d = "y"
        <4>1. /\ corner.y = cut + 1 /\ corner.x = e.start.x /\ w.stop.y = cut /\ w.stop.x = v.stop.x
              /\ e.start.y <= cut /\ cut < v.stop.y
          BY <1>7, <3>3
        <4>. QED  BY <1>1, <1>3, <1>4, <3>0, <3>1, <4>1
      <3>. QED  BY <3>2, <3>3
    <2>2. /\ Rect(piece) \subseteq Points /\ Rect(v) \subseteq Points /\ Rect(w) \subseteq Points
      BY <1>2, <1>5, RectPoints
    <2>. QED  BY <2>1, <2>2
  <1>9. ~Decided(piece) /\ (\A o \in Axes : piece.symmetry[o] = "new")
    <2>1. Undecided.x = "new" /\ Undecided.y = "new" /\ Axes \subseteq {"x", "y"}
      BY DEF Undecided, Axes
    <2>2. \A o \in Axes : piece.symmetry[o] = "new"  BY <1>6, <2>1
    <2>. QED  BY <2>2 DEF Decided
  <1>10. e.begin = e.start /\ (two => e.pass = 0)  BY <1>2 DEF Proper
  <1>11. /\ corner.x \in Int /\ corner.y \in Int /\ e.start.x <= corner.x /\ e.start.y <= corner.y
         /\ corner.x <= v.stop.x /\ corner.y <= v.stop.y
    <2>1. CASE d = "x"
      <3>1. /\ corner.x = cut + 1 /\ corner.y = e.start.y /\ e.start.x <= cut /\ cut < v.stop.x
        BY <1>7, <2>1
      <3>. QED  BY <1>1, <1>3, <1>4, <3>1
    <2>2. CASE d = "y"
      <3>1. /\ corner.y = cut + 1 /\ corner.x = e.start.x /\ e.start.y <= cut /\ cut < v.stop.y
        BY <1>7, <2>2
      <3>. QED  BY <1>1, <1>3, <1>4, <3>1
    <2>. QED  BY <2>1, <2>2
  <1>12. Proper(two, piece)
    <2>1. corner \in Screen /\ v.stop \in Screen
      <3>1. \A p \in Points : p \in Screen <=> 0 <= p.x /\ p.x < XDots /\ 0 <= p.y /\ p.y < YDots
        BY <1>3 DEF Screen, Points
      <3>2. /\ 0 <= v.stop.x /\ v.stop.x < XDots /\ 0 <= v.stop.y /\ v.stop.y < YDots
        BY <1>1, <1>3, <1>4
      <3>3. /\ 0 <= corner.x /\ corner.x < XDots /\ 0 <= corner.y /\ corner.y < YDots
        BY <1>3, <1>4, <1>11, <3>2
      <3>4. corner \in Points /\ v.stop \in Points  BY <1>4, <1>7
      <3>5. v.stop \in Screen  BY <3>1, <3>2, <3>4
      <3>6. corner \in Screen  BY <3>1, <3>3, <3>4
      <3>. QED  BY <3>5, <3>6
    <2>2. corner \in Rect(piece)
      BY <1>4, <1>5, <1>6, <1>7, <1>11, RectPoints
    <2>3. Sym = "ORIGIN" => piece.symmetry.x = piece.symmetry.y  BY <1>6 DEF Undecided
    <2>4. two => piece.pass \in {0, 1} /\ (piece.pass = 0 => Direct(piece, piece.begin))
      BY <1>6, <1>10 DEF Direct
    <2>. QED  BY <1>6, <1>9, <1>10, <2>1, <2>2, <2>3, <2>4 DEF Proper
  <1>13. Fine(two, quick, done, piece)
    <2>1. Guessed(two, e, done) /\ Closed(quick, e, done)  BY DEF Fine
    <2>2. Guessed(two, piece, done)
      BY <1>6, <1>8, <2>1 DEF Guessed
    <2>3. Closed(quick, piece, done)
      BY <1>8, <1>9, <2>1 DEF Closed
    <2>. QED  BY <1>12, <2>2, <2>3 DEF Fine
  <1>14. \A k \in 1 .. Len(st.list) : Beside(two, piece, st.list[k])
    <2>. TAKE k \in 1 .. Len(st.list)
    <2>1. Foremost(two, v, st.list[k])  BY <1>1
    <2>2. Rect(piece) \cap Rect(st.list[k]) = {}  BY <1>8, <2>1 DEF Foremost
    <2>3. InOrder(two, piece, st.list[k])  BY <1>9 DEF InOrder
    <2>4. InOrder(two, st.list[k], piece)
      BY <1>1, <1>6, <2>1 DEF InOrder, Foremost
    <2>. QED  BY <2>2, <2>3, <2>4 DEF Beside
  <1>15. Foremost(two, w, piece)
    <2>1. Before(w, piece)
      <3>1. CASE d = "x"
        <4>1. /\ corner.x = cut + 1 /\ corner.y = e.start.y /\ e.start.x <= cut
          BY <1>7, <3>1
        <4>. QED  BY <1>3, <1>6, <4>1 DEF Before
      <3>2. CASE d = "y"
        <4>1. /\ corner.y = cut + 1 /\ e.start.y <= cut
          BY <1>7, <3>2
        <4>. QED  BY <1>3, <1>6, <4>1 DEF Before
      <3>. QED  BY <3>1, <3>2
    <2>. QED  BY <1>8, <1>9, <2>1 DEF Foremost
  <1>16. \A k \in 1 .. Len(st.list) : Foremost(two, w, st.list[k])
    <2>. TAKE k \in 1 .. Len(st.list)
    <2>1. Foremost(two, v, st.list[k])  BY <1>1
    <2>2. Before(v, st.list[k]) <=> Before(w, st.list[k])  BY <1>1 DEF Before
    <2>. QED  BY <1>1, <1>8, <2>1, <2>2 DEF Foremost
  <1>17. ~ListFull(st.list)
    <2>1. Len(st.list) \in Nat /\ MaxCalcWork \in Nat  BY <1>1, MaxCalcWorkAssumption DEF Lists
    <2>. QED  BY <2>1 DEF ListFull, RoomToSplit
  <1>18. l = AddWorkList(st.list, piece) /\ st.list \in Seq(Entries)  BY <1>1 DEF piece, Lists
  <1>19. /\ FineList(two, quick, done, l)
         /\ OpenList(two, st.list) \cup Open(two, piece) \subseteq OpenList(two, l)
    BY <1>1, <1>5, <1>13, <1>14, <1>17, <1>18, AddFine
  <1>20. \A k \in 1 .. Len(l) : Foremost(two, w, l[k])
    <2>. DEFINE u == [w EXCEPT !.symmetry = DecidedNo]
    <2>1. (\A k \in 1 .. Len(st.list) : Beside(two, u, st.list[k])) /\ Beside(two, u, piece)
      BY <1>15, <1>16, ForemostDecided
    <2>. HIDE DEF u
    <2>2. \A k \in 1 .. Len(l) : Beside(two, u, l[k])
      BY <1>1, <1>5, <1>13, <1>14, <1>17, <1>18, <2>1, AddFine
    <2>. QED  BY <2>2, ForemostDecided DEF u
  <1>21. Rect(piece) = Open(two, piece)
    BY <1>5, <1>6, <1>10, <1>12, AllOpen DEF Open
  <1>. QED  BY <1>1, <1>8, <1>19, <1>20, <1>21

\* The state of axis d of a window, before its split and after it.
AxisNew(e, w, d) == w.symmetry[d] = e.symmetry[d] /\ w.stop[d] = e.stop[d] /\ w.i_stop[d] = e.stop[d]
AxisDone(e, w, d) == /\ w.symmetry[d] \in {"no", "yes"}
                     /\ Decided(e) => w.symmetry[d] = e.symmetry[d]
                     /\ w.symmetry[d] = "yes" => /\ w.start[d] + w.stop[d] = Centre(d)
                                                 /\ w.i_stop[d] = (w.start[d] + w.stop[d]) \div 2
                     /\ w.symmetry[d] = "no" => w.i_stop[d] = w.stop[d]

\* What the split leaves of another axis.
AxisKept(v, w, d) == w.symmetry[d] = v.symmetry[d] /\ w.stop[d] = v.stop[d] /\ w.i_stop[d] = v.i_stop[d]

\* One axis is split.
SplitsAxis(two, quick, done, e, rest, d, st) ==
    /\ SplitOK(two, quick, done, e, rest, AxisSplit(d, st))
    /\ AxisDone(e, AxisSplit(d, st).win, d)
    /\ AxisSplit(d, st).go <=> AxisSplit(d, st).win.symmetry[d] = "yes"
    /\ AxisSplit(d, st).win.plot = st.win.plot
    /\ \A o \in {"x", "y"} \ {d} : AxisKept(st.win, AxisSplit(d, st).win, o)

LEMMA AxisSplitFine ==
    ASSUME NEW two \in BOOLEAN, NEW quick \in BOOLEAN, NEW done,
           NEW e \in Entries, Fine(two, quick, done, e), NEW rest,
           NEW st, SplitOK(two, quick, done, e, rest, st),
           NEW d \in {"x", "y"}, d \in Axes, AxisNew(e, st.win, d)
    PROVE  SplitsAxis(two, quick, done, e, rest, d, st)
  <1>. DEFINE c == AxisSplit(d, st)
              v == st.win
              w == c.win
              a == e.start[d]
              b == e.stop[d]
              z == Centre(d)
  <1>1. /\ st \in SplitStates /\ v \in Windows
        /\ v.start = e.start /\ v.begin = e.begin /\ v.pass = e.pass
        /\ v.symmetry[d] = e.symmetry[d] /\ v.stop[d] = b /\ v.i_stop[d] = b
    BY DEF SplitOK, AxisNew, SplitStates
  <1>2. Proper(two, e) /\ Shape(e)  BY EntryShape DEF Fine
  <1>3. a \in Int /\ b \in Int /\ z \in Int /\ a <= b  BY <1>2, Corners, CentreType
  <1>4. c \in SplitStates /\ w \in Windows /\ c.list \in Lists  BY <1>1, AxisSplitType DEF SplitStates
  <1>5. Far(d, v) = z - a /\ Last(d, v) = z - b - 1
    BY <1>1, <1>3, AcrossIs DEF Far, Last
  <1>6. Inside(d, v) => 2 * a < z /\ z < 2 * b /\ Axis[d] = z \div 2
    <2>1. Axis[d] \in Int  BY SymmetryAssumption
    <2>2. z = 2 * Axis[d] \/ z = 2 * Axis[d] + 1  BY <2>1 DEF Centre
    <2>3. z \div 2 = Axis[d]  BY <1>3, <2>1, <2>2
    <2>. HIDE DEF z
    <2>. QED  BY <1>1, <1>3, <2>1, <2>2, <2>3 DEF Inside
  <1>7. \A s, x, y : AxisResult(st, c, d, s, x, y) =>
           /\ w.start = e.start /\ w.begin = e.begin /\ w.pass = e.pass /\ w.plot = v.plot
           /\ w.symmetry[d] = s /\ w.stop[d] = x /\ w.i_stop[d] = y /\ (c.go <=> s = "yes")
           /\ \A o \in {"x", "y"} \ {d} : AxisKept(v, w, o)
    BY <1>1 DEF AxisResult, AxisKept
  <1>8. /\ \A k \in 1 .. Len(st.list) : Foremost(two, v, st.list[k])
        /\ FineList(two, quick, done, st.list)
        /\ Rect(e) \cup OpenList(two, rest) \subseteq Rect(v) \cup OpenList(two, st.list)
        /\ v.stop.x \in e.start.x .. e.stop.x /\ v.stop.y \in e.start.y .. e.stop.y
        /\ Decided(e) => v.stop = e.stop /\ st.list = rest
    BY DEF SplitOK
  <1>9. v.symmetry[d] = "new" => ~Decided(e)  BY <1>1 DEF Decided
  <1>10. ~Decided(e) => v.symmetry[d] = "new"  BY <1>1, <1>2 DEF Proper
  <1>. HIDE DEF c, w
  <1>11. ASSUME c.list = st.list, NEW s, NEW y, AxisResult(st, c, d, s, b, y)
         PROVE  SplitOK(two, quick, done, e, rest, c)
    <2>1. w.stop = v.stop
      <3>1. w.stop[d] = v.stop[d] /\ \A o \in {"x", "y"} \ {d} : w.stop[o] = v.stop[o]
        BY <1>1, <1>7, <1>11 DEF AxisKept
      <3>2. w.stop \in Points /\ v.stop \in Points  BY <1>1, <1>4 DEF Windows
      <3>3. w.stop.x = v.stop.x /\ w.stop.y = v.stop.y  BY <3>1
      <3>. QED  BY <3>2, <3>3 DEF Points
    <2>2. w.start = v.start /\ w.pass = v.pass /\ w.begin = v.begin  BY <1>1, <1>7, <1>11
    <2>3. Rect(w) = Rect(v)  BY <2>1, <2>2 DEF Rect
    <2>4. \A f : Foremost(two, v, f) => Foremost(two, w, f)
      BY <2>2, <2>3 DEF Foremost, Before
    <2>. QED  BY <1>1, <1>4, <1>8, <1>11, <2>1, <2>2, <2>3, <2>4 DEF SplitOK, w
  <1>12. ASSUME v.symmetry[d] = "new", NEW cut \in Int, a <= cut, cut < b, RoomToSplit(st.list),
                c.list = AddWorkList(st.list, CutOff(v, d, cut + 1)),
                NEW s, NEW y, AxisResult(st, c, d, s, cut, y)
         PROVE  SplitOK(two, quick, done, e, rest, c)
    <2>1. /\ w.start = e.start /\ w.begin = e.begin /\ w.pass = e.pass /\ w.stop[d] = cut
          /\ \A o \in {"x", "y"} \ {d} : w.stop[o] = v.stop[o]
      BY <1>7, <1>12 DEF AxisKept
    <2>2. ~Decided(e)  BY <1>9, <1>12
    <2>3. /\ FineList(two, quick, done, c.list)
          /\ \A k \in 1 .. Len(c.list) : Foremost(two, w, c.list[k])
          /\ Rect(e) \cup OpenList(two, rest) \subseteq Rect(w) \cup OpenList(two, c.list)
      BY <1>1, <1>4, <1>12, <2>1, <2>2, CutFine
    <2>4. w.stop.x \in e.start.x .. e.stop.x /\ w.stop.y \in e.start.y .. e.stop.y
      <3>1. CASE d = "x"
        <4>1. w.stop.x = cut /\ w.stop.y = v.stop.y /\ cut \in e.start.x .. e.stop.x
          BY <1>3, <1>12, <2>1, <3>1
        <4>. QED  BY <1>8, <4>1
      <3>2. CASE d = "y"
        <4>1. w.stop.y = cut /\ w.stop.x = v.stop.x /\ cut \in e.start.y .. e.stop.y
          BY <1>3, <1>12, <2>1, <3>2
        <4>. QED  BY <1>8, <4>1
      <3>. QED  BY <3>1, <3>2
    <2>. QED  BY <1>4, <2>1, <2>2, <2>3, <2>4 DEF SplitOK, w
  <1>13. SplitOK(two, quick, done, e, rest, c) /\ AxisDone(e, w, d)
         /\ \E s, x, y : AxisResult(st, c, d, s, x, y)
    <2>1. CASE /\ v.symmetry[d] = "yes" /\ c.list = st.list
               /\ AxisResult(st, c, d, "yes", v.stop[d], (v.start[d] + v.stop[d]) \div 2)
      <3>1. a + b = z  BY <1>1, <1>2, <2>1 DEF Proper
      <3>2. w.symmetry[d] = "yes" /\ w.start[d] = a /\ w.stop[d] = b /\ w.i_stop[d] = (a + b) \div 2
        BY <1>1, <1>7, <2>1
      <3>3. SplitOK(two, quick, done, e, rest, c)  BY <1>1, <1>11, <2>1
      <3>. QED  BY <1>1, <2>1, <3>1, <3>2, <3>3 DEF AxisDone
    <2>2. CASE /\ v.symmetry[d] # "yes" /\ c.list = st.list
               /\ AxisResult(st, c, d, "no", v.stop[d], v.i_stop[d])
      <3>1. v.symmetry[d] \in Decision  BY <1>1 DEF Windows
      <3>2. w.symmetry[d] = "no" /\ w.stop[d] = b /\ w.i_stop[d] = b
        BY <1>1, <1>7, <2>2
      <3>3. SplitOK(two, quick, done, e, rest, c)  BY <1>1, <1>11, <2>2
      <3>4. Decided(e) => e.symmetry[d] = "no"  BY <1>1, <2>2, <3>1 DEF Decided, Decision
      <3>. QED  BY <1>1, <2>2, <3>2, <3>3, <3>4 DEF AxisDone
    <2>3. CASE /\ v.symmetry[d] = "new" /\ Inside(d, v) /\ Far(d, v) = v.stop[d] /\ c.list = st.list
               /\ AxisResult(st, c, d, "yes", v.stop[d], Axis[d])
      <3>1. a + b = z  BY <1>1, <1>3, <1>5, <2>3
      <3>2. w.symmetry[d] = "yes" /\ w.start[d] = a /\ w.stop[d] = b /\ w.i_stop[d] = (a + b) \div 2
        BY <1>1, <1>6, <1>7, <2>3, <3>1
      <3>3. SplitOK(two, quick, done, e, rest, c)  BY <1>1, <1>11, <2>3
      <3>. QED  BY <1>1, <1>9, <2>3, <3>1, <3>2, <3>3 DEF AxisDone
    <2>4. CASE /\ v.symmetry[d] = "new" /\ Inside(d, v) /\ Far(d, v) > v.stop[d] /\ RoomToSplit(st.list)
               /\ c.list = AddWorkList(st.list, CutOff(v, d, Last(d, v) + 1))
               /\ AxisResult(st, c, d, "no", Last(d, v), Last(d, v))
      <3>1. Last(d, v) \in Int /\ a <= Last(d, v) /\ Last(d, v) < b
        <4>. HIDE DEF z
        <4>. QED  BY <1>1, <1>3, <1>5, <1>6, <2>4
      <3>2. w.symmetry[d] = "no" /\ w.stop[d] = w.i_stop[d]  BY <1>7, <2>4
      <3>3. SplitOK(two, quick, done, e, rest, c)  BY <1>12, <2>4, <3>1
      <3>. QED  BY <1>9, <2>4, <3>2, <3>3 DEF AxisDone
    <2>5. CASE /\ v.symmetry[d] = "new" /\ Inside(d, v) /\ Far(d, v) < v.stop[d] /\ RoomToSplit(st.list)
               /\ c.list = AddWorkList(st.list, CutOff(v, d, Far(d, v) + 1))
               /\ AxisResult(st, c, d, "yes", Far(d, v), Axis[d])
      <3>1. Far(d, v) \in Int /\ a <= Far(d, v) /\ Far(d, v) < b /\ a + Far(d, v) = z
        <4>. HIDE DEF z
        <4>. QED  BY <1>1, <1>3, <1>5, <1>6, <2>5
      <3>2. w.symmetry[d] = "yes" /\ w.start[d] = a /\ w.stop[d] = Far(d, v) /\ w.i_stop[d] = z \div 2
        BY <1>6, <1>7, <2>5
      <3>3. SplitOK(two, quick, done, e, rest, c)  BY <1>12, <2>5, <3>1
      <3>. QED  BY <1>9, <2>5, <3>1, <3>2, <3>3 DEF AxisDone
    <2>. QED  BY <1>1, <2>1, <2>2, <2>3, <2>4, <2>5, AxisSplitCases DEF c
  <1>14. /\ c.go <=> w.symmetry[d] = "yes"
         /\ w.plot = v.plot /\ \A o \in {"x", "y"} \ {d} : AxisKept(v, w, o)
    BY <1>7, <1>13
  <1>. QED  BY <1>13, <1>14 DEF c, w, SplitsAxis

\* The window that is left when all axes are split.
LEMMA SplitReady ==
    ASSUME NEW two \in BOOLEAN, NEW quick \in BOOLEAN, NEW done, quick => Kept \subseteq done,
           NEW e \in Entries, Fine(two, quick, done, e), NEW rest,
           NEW st, SplitOK(two, quick, done, e, rest, st),
           \A d \in Axes : /\ st.win.symmetry[d] \in {"no", "yes"}
                           /\ Decided(e) => st.win.symmetry[d] = e.symmetry[d]
                           /\ st.win.symmetry[d] = "yes" => st.win.start[d] + st.win.stop[d] = Centre(d),
           Sym = "ORIGIN" => st.win.symmetry.x = st.win.symmetry.y,
           st.win.i_stop = Pt(HalfStop(st.win, "x"), HalfStop(st.win, "y")),
           st.win.plot = PlotFor(st.win)
    PROVE  /\ FineWindow(two, quick, done, st.win)
           /\ Open(two, e) \cup OpenList(two, rest)
                 \subseteq OpenFrom(two, st.win, st.win.begin) \cup OpenList(two, st.list)
  <1>. DEFINE w == st.win
  <1>1. /\ w \in Windows /\ w.start = e.start /\ w.begin = e.begin /\ w.pass = e.pass
        /\ w.stop.x \in e.start.x .. e.stop.x /\ w.stop.y \in e.start.y .. e.stop.y
        /\ Decided(e) => w.stop = e.stop
        /\ Rect(e) \cup OpenList(two, rest) \subseteq Rect(w) \cup OpenList(two, st.list)
    BY DEF SplitOK, SplitStates
  <1>2. Proper(two, e) /\ Shape(e) /\ Shape(w)  BY <1>1, EntryShape, WindowShape DEF Fine
  <1>3. /\ e.start.x \in Int /\ e.start.y \in Int /\ e.stop.x \in Int /\ e.stop.y \in Int
        /\ 0 <= e.start.x /\ e.start.x <= e.stop.x /\ e.stop.x < XDots
        /\ 0 <= e.start.y /\ e.start.y <= e.stop.y /\ e.stop.y < YDots
        /\ XDots \in Int /\ YDots \in Int
    BY <1>2, Corners
  <1>4. Decided(w)  BY DEF Decided
  <1>5. Ready(w)  BY <1>4 DEF Ready
  <1>6. Rect(w) \subseteq Rect(e)
    <2>1. ASSUME NEW q \in Rect(w)  PROVE q \in Rect(e)
      <3>1. q \in Points /\ w.start.x <= q.x /\ q.x <= w.stop.x /\ w.start.y <= q.y /\ q.y <= w.stop.y
            /\ q.x \in Int /\ q.y \in Int
        BY <1>2, RectPoints, PointParts
      <3>2. e.start.x <= q.x /\ q.x <= e.stop.x /\ e.start.y <= q.y /\ q.y <= e.stop.y
        BY <1>1, <1>3, <3>1
      <3>. QED  BY <1>2, <3>1, <3>2, RectPoints
    <2>. QED  BY <2>1
  <1>7. ~Decided(e) => e.begin = e.start /\ (two => e.pass = 0)  BY <1>2 DEF Proper
  <1>8. Decided(e) => /\ Rect(w) = Rect(e)
                      /\ \A q : Source(w, q) = Source(e, q)
    <2>1. ASSUME Decided(e)
          PROVE  Rect(w) = Rect(e) /\ \A q : Source(w, q) = Source(e, q)
      <3>1. w.start = e.start /\ w.stop = e.stop  BY <1>1, <2>1
      <3>2. \A d \in {"x", "y"} : Mirrors(w, d) <=> Mirrors(e, d)  BY <2>1 DEF Mirrors
      <3>3. \A d \in {"x", "y"} : HalfStop(w, d) = HalfStop(e, d)  BY <3>1, <3>2 DEF HalfStop
      <3>4. \A c : Fold(w, "x", c) = Fold(e, "x", c) /\ Fold(w, "y", c) = Fold(e, "y", c)
        BY <3>1, <3>3 DEF Fold
      <3>. QED  BY <3>1, <3>3, <3>4 DEF Rect, Source
    <2>. QED  BY <2>1
  <1>9. w.start \in Points /\ w.stop \in Points /\ w.begin \in Points  BY <1>2 DEF Shape
  <1>10. w.begin \in Rect(w)
    <2>1. CASE Decided(e)  BY <1>1, <1>2, <1>8, <2>1 DEF Proper
    <2>2. CASE ~Decided(e)
      <3>1. w.begin = w.start  BY <1>1, <1>7, <2>2
      <3>2. w.start.x <= w.stop.x /\ w.start.y <= w.stop.y
            /\ w.start.x <= w.start.x /\ w.start.y <= w.start.y
        BY <1>1, <1>3
      <3>. QED  BY <1>2, <1>9, <3>1, <3>2, RectPoints
    <2>. QED  BY <2>1, <2>2
  <1>11. Proper(two, w)
    <2>1. w.start \in Screen  BY <1>1, <1>2 DEF Proper
    <2>2. w.stop \in Screen
      <3>1. \A p \in Points : p \in Screen <=> 0 <= p.x /\ p.x < XDots /\ 0 <= p.y /\ p.y < YDots
        BY <1>3 DEF Screen, Points
      <3>2. 0 <= w.stop.x /\ w.stop.x < XDots /\ 0 <= w.stop.y /\ w.stop.y < YDots
        BY <1>1, <1>3
      <3>. QED  BY <1>9, <3>1, <3>2
    <2>3. two => w.pass \in {0, 1} /\ (w.pass = 0 => Direct(w, w.begin))
      BY <1>1, <1>2 DEF Proper, Direct
    <2>. QED  BY <1>4, <1>10, <2>1, <2>2, <2>3 DEF Proper
  <1>12. Guessed(two, w, done)
    <2>1. Guessed(two, e, done)  BY DEF Fine
    <2>2. CASE Decided(e)
      BY <1>1, <1>4, <1>8, <2>1, <2>2 DEF Guessed, Direct
    <2>3. CASE ~Decided(e)
      BY <1>1, <1>6, <2>1, <2>3 DEF Guessed
    <2>. QED  BY <2>2, <2>3
  <1>13. Closed(quick, w, done)
    <2>1. Closed(quick, e, done)  BY DEF Fine
    <2>2. CASE Decided(e)
      BY <1>4, <1>8, <2>1, <2>2 DEF Closed
    <2>3. CASE ~Decided(e)
      <3>1. ASSUME quick, NEW q \in Rect(w), Source(w, q) \in done  PROVE q \in done
        <4>. DEFINE p == Source(w, q)
        <4>1. p \in Half(w)  BY <1>2, <1>11, SourceInHalf
        <4>2. p \in Rect(w)  BY <1>2, <1>11, <4>1, HalfPoints
        <4>3. p \in Kept  BY <1>6, <2>1, <2>3, <3>1, <4>2 DEF Closed
        <4>4. q \in Targets(w, p) /\ Targets(w, p) \subseteq SameColour(p)
          BY <1>1, <1>5, <1>11, <4>1, TargetsAre
        <4>5. q \in Screen
          <5>1. q \in Points /\ q.x \in Int /\ q.y \in Int
                /\ w.start.x <= q.x /\ q.x <= w.stop.x /\ w.start.y <= q.y /\ q.y <= w.stop.y
            BY <1>2, RectPoints, PointParts
          <5>2. 0 <= q.x /\ q.x < XDots /\ 0 <= q.y /\ q.y < YDots  BY <1>1, <1>3, <5>1
          <5>. QED  BY <1>3, <5>1, <5>2 DEF Screen, Points
        <4>6. q \in Kept  BY <4>3, <4>4, <4>5, EngineAssumption
        <4>. QED  BY <3>1, <4>6
      <3>. QED  BY <1>4, <3>1 DEF Closed
    <2>. QED  BY <2>2, <2>3
  <1>14. Open(two, e) \cup OpenList(two, rest) \subseteq OpenFrom(two, w, w.begin) \cup OpenList(two, st.list)
    <2>1. CASE Decided(e)
      <3>1. OpenFrom(two, w, w.begin) = Open(two, e)
        <4>1. \A p : Ahead(two, w, w.begin, p) <=> Ahead(two, e, e.begin, p)  BY <1>1 DEF Ahead
        <4>. QED  BY <1>8, <2>1, <4>1 DEF OpenFrom, Open
      <3>2. st.list = rest  BY <2>1 DEF SplitOK
      <3>. QED  BY <3>1, <3>2
    <2>2. CASE ~Decided(e)
      <3>1. OpenFrom(two, w, w.begin) = Rect(w)  BY <1>1, <1>2, <1>7, <1>11, <2>2, AllOpen
      <3>2. Open(two, e) \subseteq Rect(e)  BY DEF Open, OpenFrom
      <3>. QED  BY <1>1, <3>1, <3>2
    <2>. QED  BY <2>1, <2>2
  <1>. QED  BY <1>5, <1>11, <1>12, <1>13, <1>14 DEF FineWindow, Fine

\* set_symmetry, for an entry taken off the list and the rest of it.
StartState(e, rest) == [win |-> Window(e), list |-> rest, go |-> FALSE]

LEMMA StartSplit ==
    ASSUME NEW two \in BOOLEAN, NEW quick \in BOOLEAN, NEW done,
           NEW e \in Entries, Fine(two, quick, done, e),
           NEW rest \in Lists, FineList(two, quick, done, rest),
           \A k \in 1 .. Len(rest) : Foremost(two, e, rest[k])
    PROVE  /\ SplitOK(two, quick, done, e, rest, StartState(e, rest))
           /\ \A d \in {"x", "y"} : AxisNew(e, Window(e), d)
           /\ Window(e).plot = "put_color"
  <1>1. Window(e) \in Windows  BY WindowType
  <1>2. /\ Window(e).start = e.start /\ Window(e).stop = e.stop /\ Window(e).begin = e.begin
        /\ Window(e).pass = e.pass /\ Window(e).symmetry = e.symmetry
        /\ Window(e).i_stop = e.stop /\ Window(e).plot = "put_color"
    BY DEF Window
  <1>3. /\ StartState(e, rest) \in SplitStates /\ StartState(e, rest).win = Window(e)
        /\ StartState(e, rest).list = rest
    BY <1>1 DEF SplitStates, StartState
  <1>4. Shape(e) /\ Proper(two, e)  BY EntryShape DEF Fine
  <1>5. e.stop.x \in e.start.x .. e.stop.x /\ e.stop.y \in e.start.y .. e.stop.y
    <2>1. /\ e.start.x \in Int /\ e.start.y \in Int /\ e.stop.x \in Int /\ e.stop.y \in Int
          /\ e.start.x <= e.stop.x /\ e.start.y <= e.stop.y
      BY <1>4, Corners
    <2>. QED  BY <2>1
  <1>6. Rect(Window(e)) = Rect(e)  BY <1>2 DEF Rect
  <1>7. \A k \in 1 .. Len(rest) : Foremost(two, Window(e), rest[k])
    BY <1>2, <1>6 DEF Foremost, Before
  <1>8. SplitOK(two, quick, done, e, rest, StartState(e, rest))
    BY <1>2, <1>3, <1>5, <1>6, <1>7 DEF SplitOK
  <1>. QED  BY <1>2, <1>8 DEF AxisNew

\* Other plots, and an axis given up, change no rectangle.
LEMMA SplitOther ==
    ASSUME NEW two, NEW quick, NEW done, NEW e, NEW rest,
           NEW st, SplitOK(two, quick, done, e, rest, st), NEW c \in SplitStates,
           c.list = st.list, c.win.start = st.win.start, c.win.stop = st.win.stop,
           c.win.begin = st.win.begin, c.win.pass = st.win.pass
    PROVE  SplitOK(two, quick, done, e, rest, c)
  <1>1. Rect(c.win) = Rect(st.win)  BY DEF Rect
  <1>2. \A f : Foremost(two, st.win, f) => Foremost(two, c.win, f)
    BY <1>1 DEF Foremost, Before
  <1>. QED  BY <1>1, <1>2 DEF SplitOK

\* What set_symmetry returns for it.
IsSplit(two, quick, done, e, rest, c) ==
    /\ c.win \in Windows /\ c.list \in Lists
    /\ FineWindow(two, quick, done, c.win) /\ c.win.begin = e.begin
    /\ FineList(two, quick, done, c.list)
    /\ \A k \in 1 .. Len(c.list) : Beside(two, c.win, c.list[k])
    /\ Open(two, e) \cup OpenList(two, rest)
          \subseteq OpenFrom(two, c.win, c.win.begin) \cup OpenList(two, c.list)

LEMMA SplitIs ==
    ASSUME NEW two \in BOOLEAN, NEW quick \in BOOLEAN, NEW done, quick => Kept \subseteq done,
           NEW e \in Entries, Fine(two, quick, done, e), NEW rest,
           NEW st, SplitOK(two, quick, done, e, rest, st),
           \A d \in Axes : /\ st.win.symmetry[d] \in {"no", "yes"}
                           /\ Decided(e) => st.win.symmetry[d] = e.symmetry[d]
                           /\ st.win.symmetry[d] = "yes" => st.win.start[d] + st.win.stop[d] = Centre(d),
           Sym = "ORIGIN" => st.win.symmetry.x = st.win.symmetry.y,
           st.win.i_stop.x = HalfStop(st.win, "x"), st.win.i_stop.y = HalfStop(st.win, "y"),
           st.win.plot = PlotFor(st.win)
    PROVE  IsSplit(two, quick, done, e, rest, st)
  <1>1. st.win \in Windows /\ st.list \in Lists  BY DEF SplitOK, SplitStates
  <1>2. st.win.i_stop = Pt(HalfStop(st.win, "x"), HalfStop(st.win, "y"))
    <2>1. st.win.i_stop \in Points  BY <1>1 DEF Windows
    <2>2. st.win.i_stop = Pt(st.win.i_stop.x, st.win.i_stop.y)  BY <2>1, PointParts
    <2>. QED  BY <2>2
  <1>3. /\ FineWindow(two, quick, done, st.win)
        /\ Open(two, e) \cup OpenList(two, rest)
              \subseteq OpenFrom(two, st.win, st.win.begin) \cup OpenList(two, st.list)
    BY <1>2, SplitReady
  <1>4. \A k \in 1 .. Len(st.list) : Beside(two, st.win, st.list[k])
    BY ForemostBeside DEF SplitOK
  <1>. QED  BY <1>1, <1>3, <1>4 DEF IsSplit, SplitOK

\* An axis that is done, and one that was left alone.
LEMMA HalfOfDone ==
    ASSUME NEW e, NEW w, NEW d, d \in Axes, ~(Sym = "ORIGIN" /\ d = "x"), AxisDone(e, w, d)
    PROVE  w.i_stop[d] = HalfStop(w, d)
  BY DEF AxisDone, HalfStop, Mirrors

LEMMA SymmetryFine ==
    ASSUME NEW two \in BOOLEAN, NEW quick \in BOOLEAN, NEW done, quick => Kept \subseteq done,
           NEW e \in Entries, Fine(two, quick, done, e),
           NEW rest \in Lists, FineList(two, quick, done, rest),
           \A k \in 1 .. Len(rest) : Foremost(two, e, rest[k])
    PROVE  IsSplit(two, quick, done, e, rest, SetSymmetry(Window(e), rest))
  <1>. DEFINE st == StartState(e, rest)
              OK(s) == SplitOK(two, quick, done, e, rest, s)
              r == SetSymmetry(Window(e), rest)
  <1>. SUFFICES IsSplit(two, quick, done, e, rest, r)
    OBVIOUS
  <1>1. OK(st) /\ st.win = Window(e) /\ (\A d \in {"x", "y"} : AxisNew(e, st.win, d))
        /\ st.win.plot = "put_color" /\ st.list = rest /\ st.go = FALSE
    <2>1. st.win = Window(e) /\ st.list = rest /\ st.go = FALSE  BY DEF StartState
    <2>. QED  BY <2>1, StartSplit
  <1>2. Proper(two, e)  BY DEF Fine
  <1>3. \/ Sym = "NONE" /\ r = st
        \/ Sym = "X_AXIS" /\ r = OneAxisSplit("y", "sym_plot2", st)
        \/ Sym = "Y_AXIS" /\ r = OneAxisSplit("x", "sym_plot2y", st)
        \/ Sym = "XY_AXIS" /\ r = WithPlot(BothAxesSplit(st), XYPlot(BothAxesSplit(st).win))
        \/ Sym = "ORIGIN" /\ r = OriginSplit(st)
    BY SymmetryAssumption DEF SetSymmetry, SymmetryKinds, StartState
  <1>. HIDE DEF st, r
  <1>4. CASE Sym = "NONE" /\ r = st
    <2>1. Axes = {} /\ PlotFor(st.win) = "put_color"  BY <1>4 DEF Axes, PlotFor
    <2>2. HalfStop(st.win, "x") = st.win.stop.x /\ HalfStop(st.win, "y") = st.win.stop.y
      BY <2>1 DEF HalfStop, Mirrors
    <2>3. st.win.i_stop.x = st.win.stop.x /\ st.win.i_stop.y = st.win.stop.y  BY <1>1 DEF AxisNew
    <2>. QED  BY <1>1, <1>4, <2>1, <2>2, <2>3, SplitIs
  <1>5. ASSUME NEW s, OK(s), s.win.plot = "put_color", NEW d \in {"x", "y"}, d \in Axes, AxisNew(e, s.win, d)
        PROVE  /\ OK(AxisSplit(d, s)) /\ AxisDone(e, AxisSplit(d, s).win, d)
               /\ AxisSplit(d, s).go <=> AxisSplit(d, s).win.symmetry[d] = "yes"
               /\ AxisSplit(d, s).win.plot = "put_color"
               /\ \A o \in {"x", "y"} \ {d} : AxisKept(s.win, AxisSplit(d, s).win, o)
    <2>1. SplitsAxis(two, quick, done, e, rest, d, s)  BY <1>5, AxisSplitFine
    <2>. QED  BY <1>5, <2>1 DEF SplitsAxis
  <1>6. ASSUME NEW s, OK(s), NEW plot \in Plots
        PROVE  /\ OK(WithPlot(s, plot)) /\ WithPlot(s, plot).win.plot = plot
               /\ \A d \in {"x", "y"} : AxisKept(s.win, WithPlot(s, plot).win, d)
               /\ WithPlot(s, plot).win.start = s.win.start
               /\ WithPlot(s, plot).win.symmetry = s.win.symmetry
    <2>1. s \in SplitStates  BY <1>6 DEF SplitOK
    <2>2. /\ WithPlot(s, plot) \in SplitStates
          /\ WithPlot(s, plot).list = s.list
          /\ WithPlot(s, plot).win = [s.win EXCEPT !.plot = plot]
      BY <2>1 DEF WithPlot, SplitStates, Windows
    <2>3. /\ WithPlot(s, plot).win.plot = plot /\ WithPlot(s, plot).win.start = s.win.start
          /\ WithPlot(s, plot).win.stop = s.win.stop /\ WithPlot(s, plot).win.begin = s.win.begin
          /\ WithPlot(s, plot).win.pass = s.win.pass /\ WithPlot(s, plot).win.symmetry = s.win.symmetry
          /\ WithPlot(s, plot).win.i_stop = s.win.i_stop
      BY <2>1, <2>2 DEF SplitStates, Windows
    <2>4. OK(WithPlot(s, plot))  BY <1>6, <2>2, <2>3, SplitOther
    <2>. QED  BY <2>3, <2>4 DEF AxisKept
  <1>7. ASSUME NEW d \in {"x", "y"}, Axes = {d}, NEW plot \in Plots, Sym # "ORIGIN",
               r = OneAxisSplit(d, plot, st),
               \A w : PlotFor(w) = IF Mirrors(w, d) THEN plot ELSE "put_color"
        PROVE  IsSplit(two, quick, done, e, rest, r)
    <2>. DEFINE c == AxisSplit(d, st)
    <2>1. /\ OK(c) /\ AxisDone(e, c.win, d) /\ (c.go <=> c.win.symmetry[d] = "yes")
          /\ c.win.plot = "put_color"
          /\ \A o \in {"x", "y"} \ {d} : AxisKept(st.win, c.win, o)
      BY <1>1, <1>5, <1>7
    <2>2. r = IF c.go THEN WithPlot(c, plot) ELSE c  BY <1>7 DEF OneAxisSplit
    <2>. HIDE DEF c
    <2>3. /\ OK(r) /\ (\A o \in {"x", "y"} : AxisKept(c.win, r.win, o)) /\ r.win.start = c.win.start
          /\ r.win.plot = IF c.go THEN plot ELSE "put_color"
      <3>1. CASE c.go
        <4>1. r = WithPlot(c, plot)  BY <2>2, <3>1
        <4>. QED  BY <1>6, <1>7, <2>1, <3>1, <4>1
      <3>2. CASE ~c.go
        <4>1. r = c  BY <2>2, <3>2
        <4>. QED  BY <2>1, <3>2, <4>1 DEF AxisKept
      <3>. QED  BY <3>1, <3>2
    <2>4. AxisDone(e, r.win, d)  BY <2>1, <2>3 DEF AxisDone, AxisKept
    <2>5. r.win.plot = PlotFor(r.win)
      <3>1. Mirrors(r.win, d) <=> r.win.symmetry[d] = "yes"  BY <1>7 DEF Mirrors
      <3>2. r.win.symmetry[d] = c.win.symmetry[d]  BY <2>3 DEF AxisKept
      <3>. QED  BY <1>7, <2>1, <2>3, <3>1, <3>2
    <2>6. \A o \in {"x", "y"} : r.win.i_stop[o] = HalfStop(r.win, o)
      <3>1. r.win.i_stop[d] = HalfStop(r.win, d)  BY <1>7, <2>4, HalfOfDone
      <3>2. ASSUME NEW o \in {"x", "y"} \ {d}  PROVE r.win.i_stop[o] = HalfStop(r.win, o)
        <4>1. AxisKept(st.win, r.win, o)  BY <2>1, <2>3 DEF AxisKept
        <4>2. r.win.i_stop[o] = r.win.stop[o]  BY <1>1, <4>1 DEF AxisKept, AxisNew
        <4>3. o \notin Axes  BY <1>7
        <4>. QED  BY <4>2, <4>3 DEF HalfStop, Mirrors
      <3>. QED  BY <3>1, <3>2
    <2>. QED  BY <1>7, <2>3, <2>4, <2>5, <2>6, SplitIs DEF AxisDone
  <1>8. CASE Sym = "X_AXIS" /\ r = OneAxisSplit("y", "sym_plot2", st)
    <2>1. Axes = {"y"} /\ \A w : PlotFor(w) = IF Mirrors(w, "y") THEN "sym_plot2" ELSE "put_color"
      BY <1>8 DEF Axes, PlotFor
    <2>. QED  BY <1>7, <1>8, <2>1 DEF Plots
  <1>9. CASE Sym = "Y_AXIS" /\ r = OneAxisSplit("x", "sym_plot2y", st)
    <2>1. Axes = {"x"} /\ \A w : PlotFor(w) = IF Mirrors(w, "x") THEN "sym_plot2y" ELSE "put_color"
      BY <1>9 DEF Axes, PlotFor
    <2>. QED  BY <1>7, <1>9, <2>1 DEF Plots
  <1>. DEFINE rows == AxisSplit("y", st)
              both == BothAxesSplit(st)
  <1>10. ASSUME Axes = {"x", "y"}
         PROVE  /\ OK(rows) /\ AxisDone(e, rows.win, "y") /\ AxisNew(e, rows.win, "x")
                /\ rows.go <=> rows.win.symmetry.y = "yes"
                /\ OK(both) /\ AxisDone(e, both.win, "y") /\ AxisDone(e, both.win, "x")
                /\ both.go <=> both.win.symmetry.x = "yes"
                /\ both.win.symmetry.y = rows.win.symmetry.y
                /\ both.win.plot = "put_color" /\ rows.win.plot = "put_color"
    <2>1. /\ OK(rows) /\ AxisDone(e, rows.win, "y") /\ (rows.go <=> rows.win.symmetry.y = "yes")
          /\ rows.win.plot = "put_color" /\ AxisKept(st.win, rows.win, "x")
      BY <1>1, <1>5, <1>10
    <2>2. AxisNew(e, rows.win, "x")  BY <1>1, <2>1 DEF AxisNew, AxisKept
    <2>3. both = AxisSplit("x", rows)  BY DEF BothAxesSplit
    <2>. HIDE DEF both, rows
    <2>4. /\ OK(both) /\ AxisDone(e, both.win, "x") /\ (both.go <=> both.win.symmetry.x = "yes")
          /\ both.win.plot = "put_color" /\ AxisKept(rows.win, both.win, "y")
      BY <1>5, <1>10, <2>1, <2>2, <2>3
    <2>5. both.win.start = rows.win.start  BY <2>1, <2>4 DEF SplitOK
    <2>6. AxisDone(e, both.win, "y")  BY <2>1, <2>4, <2>5 DEF AxisDone, AxisKept
    <2>7. both.win.symmetry.y = rows.win.symmetry.y  BY <2>4 DEF AxisKept
    <2>. QED  BY <2>1, <2>2, <2>4, <2>6, <2>7
  <1>. HIDE DEF rows, both
  <1>11. CASE Sym = "XY_AXIS" /\ r = WithPlot(BothAxesSplit(st), XYPlot(BothAxesSplit(st).win))
    <2>1. Axes = {"x", "y"}  BY <1>11 DEF Axes
    <2>2. r = WithPlot(both, XYPlot(both.win))  BY <1>11 DEF both
    <2>3. XYPlot(both.win) \in Plots  BY DEF XYPlot, Plots
    <2>4. /\ OK(r) /\ r.win.plot = XYPlot(both.win) /\ r.win.start = both.win.start
          /\ r.win.symmetry = both.win.symmetry
          /\ \A d \in {"x", "y"} : AxisKept(both.win, r.win, d)
      BY <1>6, <1>10, <2>1, <2>2, <2>3
    <2>5. AxisDone(e, r.win, "x") /\ AxisDone(e, r.win, "y")
      BY <1>10, <2>1, <2>4 DEF AxisDone, AxisKept
    <2>6. r.win.plot = PlotFor(r.win)
      <3>1. XYPlot(r.win) = XYPlot(both.win)  BY <2>4 DEF XYPlot
      <3>. QED  BY <1>11, <2>4, <3>1 DEF PlotFor
    <2>7. r.win.i_stop.x = HalfStop(r.win, "x") /\ r.win.i_stop.y = HalfStop(r.win, "y")
      BY <1>11, <2>1, <2>5, HalfOfDone
    <2>. QED  BY <1>11, <2>1, <2>4, <2>5, <2>6, <2>7, SplitIs DEF AxisDone
  <1>12. CASE Sym = "ORIGIN" /\ r = OriginSplit(st)
    <2>. DEFINE tried == IF rows.go THEN both ELSE rows
                moved == [both EXCEPT !.win.i_stop.x = both.win.stop.x]
                reset == [tried EXCEPT !.win.i_stop.y = tried.win.stop.y]
                undone == [reset EXCEPT !.win.symmetry = DecidedNo]
    <2>1. Axes = {"x", "y"}  BY <1>12 DEF Axes
    <2>2. r = IF rows.go /\ both.go THEN WithPlot(moved, "sym_plot2j") ELSE undone
      BY <1>12 DEF OriginSplit, rows, both
    <2>3. Decided(e) => e.symmetry.x = e.symmetry.y  BY <1>2, <1>12 DEF Proper
    <2>4. CASE rows.go /\ both.go
      <3>1. OK(moved) /\ moved.win.plot = "put_color" /\ moved.win.i_stop.x = both.win.stop.x
            /\ moved.win.i_stop.y = both.win.i_stop.y /\ moved.win.symmetry = both.win.symmetry
            /\ moved.win.start = both.win.start /\ moved.win.stop = both.win.stop
        <4>0. both \in SplitStates /\ both.win.stop.x \in Int
          BY <1>10, <2>1 DEF SplitOK, SplitStates, Windows, Points
        <4>1. \A x \in Int : [both EXCEPT !.win.i_stop.x = x] \in SplitStates
          BY <4>0 DEF SplitStates, Windows, Points
        <4>2. \A x : LET m == [both EXCEPT !.win.i_stop.x = x]
                     IN  /\ m.win.start = both.win.start /\ m.win.stop = both.win.stop
                         /\ m.win.begin = both.win.begin /\ m.win.pass = both.win.pass
                         /\ m.list = both.list /\ m.win.symmetry = both.win.symmetry
                         /\ m.win.plot = both.win.plot /\ m.win.i_stop.x = x
                         /\ m.win.i_stop.y = both.win.i_stop.y
          BY <4>0 DEF SplitStates, Windows, Points
        <4>3. /\ moved \in SplitStates /\ moved.list = both.list
              /\ moved.win.start = both.win.start /\ moved.win.stop = both.win.stop
              /\ moved.win.begin = both.win.begin /\ moved.win.pass = both.win.pass
              /\ moved.win.plot = both.win.plot /\ moved.win.symmetry = both.win.symmetry
              /\ moved.win.i_stop.x = both.win.stop.x /\ moved.win.i_stop.y = both.win.i_stop.y
          BY <4>0, <4>1, <4>2
        <4>. HIDE DEF moved
        <4>4. OK(moved)  BY <1>10, <2>1, <4>3, SplitOther
        <4>. QED  BY <1>10, <2>1, <4>3, <4>4
      <3>2. r = WithPlot(moved, "sym_plot2j")  BY <2>2, <2>4
      <3>. HIDE DEF moved
      <3>3. /\ OK(r) /\ r.win.plot = "sym_plot2j" /\ r.win.start = moved.win.start
            /\ r.win.symmetry = moved.win.symmetry
            /\ \A d \in {"x", "y"} : AxisKept(moved.win, r.win, d)
        BY <1>6, <3>1, <3>2 DEF Plots
      <3>4. r.win.symmetry.x = "yes" /\ r.win.symmetry.y = "yes"
        BY <1>10, <2>1, <2>4, <3>1, <3>3
      <3>5. /\ r.win.start = both.win.start
            /\ r.win.stop.x = both.win.stop.x /\ r.win.stop.y = both.win.stop.y
            /\ r.win.i_stop.x = r.win.stop.x /\ r.win.i_stop.y = both.win.i_stop.y
        BY <3>1, <3>3 DEF AxisKept
      <3>6. /\ r.win.start.x + r.win.stop.x = Centre("x") /\ r.win.start.y + r.win.stop.y = Centre("y")
            /\ r.win.i_stop.y = (r.win.start.y + r.win.stop.y) \div 2
            /\ Decided(e) => e.symmetry.x = "yes" /\ e.symmetry.y = "yes"
        BY <1>10, <2>1, <3>1, <3>3, <3>4, <3>5 DEF AxisDone
      <3>7. r.win.i_stop.x = HalfStop(r.win, "x") /\ r.win.i_stop.y = HalfStop(r.win, "y")
        BY <1>12, <2>1, <3>4, <3>5, <3>6 DEF HalfStop, Mirrors
      <3>8. r.win.plot = PlotFor(r.win)
        BY <1>12, <2>1, <3>3, <3>4 DEF PlotFor, Mirrors
      <3>. QED  BY <2>1, <3>3, <3>4, <3>6, <3>7, <3>8, SplitIs
    <2>5. CASE ~(rows.go /\ both.go)
      <3>1. OK(tried) /\ tried.win.plot = "put_color" /\ tried.win.i_stop.x = tried.win.stop.x
            /\ (Decided(e) => e.symmetry.x = "no")
        <4>1. CASE rows.go
          <5>1. tried = both  BY <4>1
          <5>2. both.win.symmetry.x # "yes"  BY <1>10, <2>1, <2>5, <4>1
          <5>3. both.win.symmetry.x = "no"  BY <1>10, <2>1, <5>2 DEF AxisDone
          <5>. QED  BY <1>10, <2>1, <5>1, <5>3 DEF AxisDone
        <4>2. CASE ~rows.go
          <5>1. tried = rows  BY <4>2
          <5>2. rows.win.symmetry.y = "no"  BY <1>10, <2>1, <4>2 DEF AxisDone
          <5>3. Decided(e) => e.symmetry.y = "no"  BY <1>10, <2>1, <5>2 DEF AxisDone
          <5>. QED  BY <1>10, <2>1, <2>3, <5>1, <5>3 DEF AxisNew
        <4>. QED  BY <4>1, <4>2
      <3>. HIDE DEF tried
      <3>2. /\ OK(reset) /\ reset.win.plot = "put_color"
            /\ reset.win.i_stop.x = reset.win.stop.x /\ reset.win.i_stop.y = reset.win.stop.y
        <4>0. tried \in SplitStates /\ tried.win.stop.y \in Int
          BY <3>1 DEF SplitOK, SplitStates, Windows, Points
        <4>1. \A x \in Int : [tried EXCEPT !.win.i_stop.y = x] \in SplitStates
          BY <4>0 DEF SplitStates, Windows, Points
        <4>2. \A x : LET m == [tried EXCEPT !.win.i_stop.y = x]
                     IN  /\ m.win.start = tried.win.start /\ m.win.stop = tried.win.stop
                         /\ m.win.begin = tried.win.begin /\ m.win.pass = tried.win.pass
                         /\ m.list = tried.list /\ m.win.plot = tried.win.plot
                         /\ m.win.i_stop.y = x /\ m.win.i_stop.x = tried.win.i_stop.x
          BY <4>0 DEF SplitStates, Windows, Points
        <4>3. /\ reset \in SplitStates /\ reset.list = tried.list
              /\ reset.win.start = tried.win.start /\ reset.win.stop = tried.win.stop
              /\ reset.win.begin = tried.win.begin /\ reset.win.pass = tried.win.pass
              /\ reset.win.plot = tried.win.plot
              /\ reset.win.i_stop.y = tried.win.stop.y /\ reset.win.i_stop.x = tried.win.i_stop.x
          BY <4>0, <4>1, <4>2
        <4>. HIDE DEF reset
        <4>4. OK(reset)  BY <3>1, <4>3, SplitOther
        <4>. QED  BY <3>1, <4>3, <4>4
      <3>. HIDE DEF reset
      <3>3. /\ OK(undone) /\ undone.win.plot = "put_color"
            /\ undone.win.i_stop.x = undone.win.stop.x /\ undone.win.i_stop.y = undone.win.stop.y
            /\ undone.win.symmetry = DecidedNo
        <4>0. reset \in SplitStates  BY <3>2 DEF SplitOK
        <4>1. undone \in SplitStates
          BY <4>0 DEF SplitStates, Windows, DecidedNo, Decision
        <4>2. /\ undone.win.start = reset.win.start /\ undone.win.stop = reset.win.stop
              /\ undone.win.begin = reset.win.begin /\ undone.win.pass = reset.win.pass
              /\ undone.list = reset.list /\ undone.win.plot = reset.win.plot
              /\ undone.win.i_stop = reset.win.i_stop /\ undone.win.symmetry = DecidedNo
          BY <4>0 DEF SplitStates, Windows
        <4>. HIDE DEF undone
        <4>3. OK(undone)  BY <3>2, <4>1, <4>2, SplitOther
        <4>. QED  BY <3>2, <4>2, <4>3
      <3>4. r = undone  BY <2>2, <2>5
      <3>. HIDE DEF undone
      <3>5. r.win.symmetry.x = "no" /\ r.win.symmetry.y = "no"  BY <3>3, <3>4 DEF DecidedNo
      <3>6. r.win.i_stop.x = HalfStop(r.win, "x") /\ r.win.i_stop.y = HalfStop(r.win, "y")
        BY <3>3, <3>4, <3>5 DEF HalfStop, Mirrors
      <3>7. r.win.plot = PlotFor(r.win)
        BY <1>12, <3>3, <3>4, <3>5 DEF PlotFor, Mirrors
      <3>. QED  BY <2>1, <2>3, <3>1, <3>3, <3>4, <3>5, <3>6, <3>7, SplitIs
    <2>. QED  BY <2>4, <2>5
  <1>. QED  BY <1>3, <1>4, <1>8, <1>9, <1>11, <1>12

-----------------------------------------------------------------------------
\* The items that go back to the list.

\* An item that stands at point at goes back with the rows from r on, and with their mirror
\* images: nothing of it is lost.
LEMMA Restarted ==
    ASSUME NEW two \in BOOLEAN, NEW quick \in BOOLEAN, NEW done,
           NEW w \in Windows, FineWindow(two, quick, done, w), NEW at \in Half(w),
           NEW r \in Int, w.start.y <= r, r <= at.y,
           two /\ w.pass = 0 => r = w.start.y /\ Direct(w, at),
           NEW s, s = IF Mirrors(w, "y") THEN w.start.y + w.stop.y - r ELSE w.stop.y,
           NEW m \in Entries, m.start = Pt(w.start.x, r), m.stop = Pt(w.stop.x, s),
           m.begin = at, m.pass = w.pass, m.symmetry = w.symmetry
    PROVE  /\ Fine(two, quick, done, m)
           /\ OpenFrom(two, w, at) \subseteq Open(two, m)
           /\ \A g : Beside(two, w, g) => Beside(two, m, g)
  <1>. DEFINE h == HalfStop(w, "y")
  <1>1. Proper(two, w) /\ Ready(w) /\ Decided(w) /\ Shape(w) /\ Shape(m)
    BY WindowShape, EntryShape DEF FineWindow, Fine, Ready
  <1>2. /\ w.start.x \in Int /\ w.start.y \in Int /\ w.stop.x \in Int /\ w.stop.y \in Int
        /\ 0 <= w.start.x /\ w.start.x <= w.stop.x /\ w.stop.x < XDots
        /\ 0 <= w.start.y /\ w.start.y <= w.stop.y /\ w.stop.y < YDots
        /\ XDots \in Int /\ YDots \in Int
    BY <1>1, Corners
  <1>3. /\ h \in Int /\ w.start.y <= h /\ h <= w.stop.y
        /\ \/ ~Mirrors(w, "y") /\ h = w.stop.y
           \/ Mirrors(w, "y") /\ w.start.y + w.stop.y = Centre("y")
              /\ 2 * h <= Centre("y") /\ Centre("y") <= 2 * h + 1
        /\ Centre("y") \in Int
    BY <1>1, HalfStops, CentreType
  <1>4. at \in Points /\ at \in Rect(w) /\ at.x \in Int /\ at.y \in Int /\ at.y <= h
        /\ w.start.x <= at.x /\ at.x <= w.stop.x
    BY <1>1, HalfPoints, RectPoints, PointParts
  <1>5. m.start.x = w.start.x /\ m.start.y = r /\ m.stop.x = w.stop.x /\ m.stop.y = s  BY DEF Pt
  <1>. HIDE DEF h
  <1>6. s \in Int /\ at.y <= s /\ s <= w.stop.y /\ (r = w.start.y => s = w.stop.y)
        /\ (Mirrors(w, "y") => r + s = w.start.y + w.stop.y)
        /\ (~Mirrors(w, "y") => s = w.stop.y)
    <2>1. CASE Mirrors(w, "y")
      <3>1. s = w.start.y + w.stop.y - r  BY <2>1
      <3>. QED  BY <1>2, <1>3, <1>4, <2>1, <3>1
    <2>2. CASE ~Mirrors(w, "y")
      <3>1. s = w.stop.y  BY <2>2
      <3>. QED  BY <1>2, <1>3, <1>4, <2>2, <3>1
    <2>. QED  BY <2>1, <2>2
  <1>7. Decided(m) /\ \A d : Mirrors(m, d) <=> Mirrors(w, d)  BY <1>1 DEF Decided, Mirrors
  <1>8. HalfStop(m, "x") = HalfStop(w, "x") /\ HalfStop(m, "y") = h
    <2>1. CASE Mirrors(w, "y")
      <3>1. m.start.y + m.stop.y = w.start.y + w.stop.y  BY <1>5, <1>6, <2>1
      <3>. QED  BY <1>5, <1>7, <3>1 DEF HalfStop, h
    <2>2. CASE ~Mirrors(w, "y")
      <3>1. m.stop.y = w.stop.y  BY <1>5, <1>6, <2>2
      <3>. QED  BY <1>5, <1>7, <2>2, <3>1 DEF HalfStop, h
    <2>. QED  BY <2>1, <2>2
  <1>9. ASSUME NEW q \in Points
        PROVE  /\ q \in Rect(w) <=> /\ w.start.x <= q.x /\ q.x <= w.stop.x
                                    /\ w.start.y <= q.y /\ q.y <= w.stop.y
               /\ q \in Rect(m) <=> w.start.x <= q.x /\ q.x <= w.stop.x /\ r <= q.y /\ q.y <= s
               /\ q.x \in Int /\ q.y \in Int
    BY <1>1, <1>5, RectPoints, PointParts
  <1>10. Rect(m) \subseteq Rect(w) /\ Rect(w) \subseteq Points /\ Rect(m) \subseteq Points
    <2>1. Rect(w) \subseteq Points /\ Rect(m) \subseteq Points  BY <1>1, RectPoints
    <2>2. ASSUME NEW q \in Rect(m)  PROVE q \in Rect(w)
      BY <1>2, <1>4, <1>6, <1>9, <2>1
    <2>. QED  BY <2>1, <2>2
  <1>11. ASSUME NEW q \in Rect(w)
         PROVE  q.y <= h \/ Mirrors(w, "y")
    BY <1>3, <1>9, <1>10
  <1>12. ASSUME NEW q \in Rect(w)  PROVE Source(m, q) = Source(w, q)
    <2>1. q.x \in Int /\ q.y \in Int  BY <1>9, <1>10
    <2>2. Fold(m, "x", q.x) = Fold(w, "x", q.x)  BY <1>5, <1>8 DEF Fold
    <2>3. q.y > h => m.start.y + m.stop.y = w.start.y + w.stop.y
      BY <1>3, <1>5, <1>6, <1>11, <2>1
    <2>4. HalfStop(w, "y") = h  BY DEF h
    <2>5. CASE q.y <= h
      <3>1. Fold(m, "y", q.y) = q.y /\ Fold(w, "y", q.y) = q.y  BY <1>8, <2>4, <2>5 DEF Fold
      <3>2. CASE Sym = "ORIGIN"
        <4>1. Source(m, q) = q /\ Source(w, q) = q  BY <1>8, <2>4, <2>5, <3>2 DEF Source
        <4>. QED  BY <4>1
      <3>3. CASE Sym # "ORIGIN"  BY <2>2, <3>1, <3>3 DEF Source
      <3>. QED  BY <3>2, <3>3
    <2>6. CASE ~(q.y <= h)
      <3>1. m.start.y + m.stop.y = w.start.y + w.stop.y  BY <1>3, <2>1, <2>3, <2>6
      <3>2. m.start.x + m.stop.x = w.start.x + w.stop.x  BY <1>5
      <3>3. Fold(m, "y", q.y) = m.start.y + m.stop.y - q.y /\ Fold(w, "y", q.y) = w.start.y + w.stop.y - q.y
        BY <1>8, <2>4, <2>6 DEF Fold
      <3>7. /\ m.start.x + m.stop.x - q.x = w.start.x + w.stop.x - q.x
            /\ m.start.y + m.stop.y - q.y = w.start.y + w.stop.y - q.y
        <4>1. m.start.y \in Int /\ m.stop.y \in Int  BY <1>4, <1>5, <1>6
        <4>. QED  BY <1>2, <1>5, <2>1, <3>1, <4>1
      <3>4. CASE Sym = "ORIGIN"
        <4>1. /\ Source(m, q) = Pt(m.start.x + m.stop.x - q.x, m.start.y + m.stop.y - q.y)
              /\ Source(w, q) = Pt(w.start.x + w.stop.x - q.x, w.start.y + w.stop.y - q.y)
          BY <1>8, <2>4, <2>6, <3>4 DEF Source
        <4>. QED  BY <3>7, <4>1
      <3>5. CASE Sym # "ORIGIN"
        <4>1. Fold(m, "y", q.y) = Fold(w, "y", q.y)  BY <3>3, <3>7
        <4>. QED  BY <2>2, <3>5, <4>1 DEF Source
      <3>. QED  BY <3>4, <3>5
    <2>. QED  BY <2>5, <2>6
  <1>13. ASSUME NEW q \in Rect(w), Source(w, q).y >= r  PROVE q \in Rect(m)
    <2>. DEFINE p == Source(w, q)
    <2>1. p.y = q.y \/ (p.y = w.start.y + w.stop.y - q.y /\ q.y > h)
      <3>1. Sym = "ORIGIN" => p.y = q.y \/ (p.y = w.start.y + w.stop.y - q.y /\ ~(q.y <= h))
        BY DEF Source, Pt, h
      <3>2. Sym # "ORIGIN" => p.y = Fold(w, "y", q.y)  BY DEF Source, Pt
      <3>3. q.y \in Int  BY <1>9, <1>10
      <3>. HIDE DEF p
      <3>. QED  BY <1>3, <3>1, <3>2, <3>3 DEF Fold, h
    <2>2. p \in Half(w)  BY <1>1, SourceInHalf
    <2>3. p.y \in Int /\ w.start.y <= p.y /\ p.y <= h  BY <1>1, <2>2, HalfPoints, PointParts DEF h
    <2>4. q \in Points /\ q.y \in Int /\ w.start.x <= q.x /\ q.x <= w.stop.x /\ q.y <= w.stop.y
      BY <1>9, <1>10
    <2>. HIDE DEF p
    <2>5. r <= q.y /\ q.y <= s
      <3>1. p.y >= r  BY <1>13 DEF p
      <3>2. CASE p.y = q.y
        BY <1>2, <1>3, <1>4, <1>6, <2>3, <2>4, <3>1, <3>2
      <3>3. CASE p.y = w.start.y + w.stop.y - q.y /\ q.y > h
        <4>1. Mirrors(w, "y")  BY <1>3, <1>11, <2>4, <3>3
        <4>. QED  BY <1>2, <1>3, <1>4, <1>6, <2>3, <2>4, <3>1, <3>3, <4>1
      <3>. QED  BY <2>1, <3>2, <3>3
    <2>. QED  BY <1>9, <2>4, <2>5
  <1>14. Proper(two, m)
    <2>1. m.start \in Screen /\ m.stop \in Screen
      <3>1. \A x, y \in Int : 0 <= x /\ x < XDots /\ 0 <= y /\ y < YDots => Pt(x, y) \in Screen
        BY <1>2 DEF Screen, Pt
      <3>2. 0 <= r /\ r < YDots /\ 0 <= s /\ s < YDots /\ 0 <= w.stop.x /\ w.start.x < XDots
        BY <1>2, <1>3, <1>4, <1>6
      <3>. QED  BY <1>2, <1>6, <3>1, <3>2
    <2>2. m.begin \in Rect(m)  BY <1>4, <1>6, <1>9
    <2>3. \A d \in Axes : m.symmetry[d] = "yes" => m.start[d] + m.stop[d] = Centre(d)
      <3>1. \A d \in Axes : m.symmetry[d] = "yes" => w.start[d] + w.stop[d] = Centre(d)
        BY <1>1 DEF Proper
      <3>2. "x" \in Axes /\ m.symmetry.x = "yes" => m.start.x + m.stop.x = Centre("x")
        BY <1>5, <3>1
      <3>3. "y" \in Axes /\ m.symmetry.y = "yes" => m.start.y + m.stop.y = Centre("y")
        <4>1. "y" \in Axes /\ m.symmetry.y = "yes" => Mirrors(w, "y")  BY DEF Mirrors
        <4>. QED  BY <1>5, <1>6, <3>1, <4>1
      <3>4. Axes \subseteq {"x", "y"}  BY DEF Axes
      <3>. QED  BY <3>2, <3>3, <3>4
    <2>4. Sym = "ORIGIN" => m.symmetry.x = m.symmetry.y  BY <1>1 DEF Proper
    <2>5. two => m.pass \in {0, 1} /\ (m.pass = 0 => Direct(m, m.begin))
      <3>1. two => w.pass \in {0, 1}  BY <1>1 DEF Proper
      <3>2. two /\ m.pass = 0 => Direct(m, m.begin)
        BY <1>5 DEF Direct
      <3>. QED  BY <3>1, <3>2
    <2>. QED  BY <1>7, <2>1, <2>2, <2>3, <2>4, <2>5 DEF Proper
  <1>15. two /\ m.pass = 0 => m.start = w.start /\ m.stop = w.stop
    <2>1. Pt(w.start.x, w.start.y) = w.start /\ Pt(w.stop.x, w.stop.y) = w.stop
      BY <1>1, PointParts DEF Shape
    <2>. QED  BY <1>6, <2>1
  <1>16. Fine(two, quick, done, m)
    <2>1. Guessed(two, w, done) /\ Closed(quick, w, done)  BY DEF FineWindow, Fine
    <2>2. Guessed(two, m, done)
      <3>1. ASSUME two, m.pass = 0, NEW q \in Rect(m) \cap done  PROVE Direct(m, Source(m, q))
        <4>1. Direct(w, Source(w, q))  BY <1>10, <2>1, <3>1 DEF Guessed
        <4>. QED  BY <1>10, <1>12, <1>15, <3>1, <4>1 DEF Direct
      <3>. QED  BY <1>7, <3>1 DEF Guessed
    <2>3. Closed(quick, m, done)
      BY <1>1, <1>7, <1>10, <1>12, <2>1 DEF Closed
    <2>. QED  BY <1>14, <2>2, <2>3 DEF Fine
  <1>17. OpenFrom(two, w, at) \subseteq Open(two, m)
    <2>1. ASSUME NEW q \in Rect(w), Ahead(two, w, at, Source(w, q))  PROVE q \in Open(two, m)
      <3>1. q \in Rect(m)
        <4>1. CASE two /\ w.pass = 0
          <5>1. Rect(m) = Rect(w)  BY <1>15, <4>1 DEF Rect
          <5>. QED  BY <5>1
        <4>2. CASE ~(two /\ w.pass = 0)
          <5>1. AtOrAfter(Source(w, q), at)  BY <2>1, <4>2 DEF Ahead
          <5>2. Source(w, q) \in Half(w)  BY <1>1, SourceInHalf
          <5>3. Source(w, q).y \in Int  BY <1>1, <5>2, HalfPoints, PointParts
          <5>4. Source(w, q).y >= r  BY <1>4, <5>1, <5>3 DEF AtOrAfter
          <5>. QED  BY <1>13, <5>4
        <4>. QED  BY <4>1, <4>2
      <3>2. Ahead(two, m, m.begin, Source(m, q))  BY <1>12, <2>1 DEF Ahead
      <3>. QED  BY <3>1, <3>2 DEF Open, OpenFrom
    <2>. QED  BY <2>1 DEF OpenFrom
  <1>18. ASSUME NEW g, Beside(two, w, g)  PROVE Beside(two, m, g)
    <2>1. Rect(m) \cap Rect(g) = {}  BY <1>10, <1>18 DEF Beside
    <2>2. two /\ m.pass = 0 => (Before(w, g) <=> Before(m, g))  BY <1>15 DEF Before
    <2>3. InOrder(two, m, g)  BY <1>1, <1>7, <1>18, <2>2 DEF Beside, InOrder
    <2>4. InOrder(two, g, m)  BY <1>1, <1>7, <1>18 DEF Beside, InOrder
    <2>. QED  BY <2>1, <2>3, <2>4 DEF Beside
  <1>. QED  BY <1>16, <1>17, <1>18

\* After the first pass the odd points of the window are left, for the second.
LEMMA SecondPass ==
    ASSUME NEW quick \in BOOLEAN, NEW done,
           NEW w \in Windows, FineWindow(TRUE, quick, done, w), w.pass = 0,
           NEW at \in Points, at.y > HalfStop(w, "y"),
           NEW m, Shape(m), m.start = w.start, m.stop = w.stop,
           m.begin = w.start, m.pass = 1, m.symmetry = w.symmetry
    PROVE  /\ Fine(TRUE, quick, done, m) /\ Decided(m)
           /\ HalfStop(m, "x") = HalfStop(w, "x") /\ HalfStop(m, "y") = HalfStop(w, "y")
           /\ PlotFor(m) = PlotFor(w)
           /\ OpenFrom(TRUE, w, at) \subseteq Open(TRUE, m)
           /\ \A g : Rect(m) \cap Rect(g) = {} <=> Rect(w) \cap Rect(g) = {}
           /\ \A g : Beside(TRUE, w, g) => Beside(TRUE, m, g)
  <1>1. Proper(TRUE, w) /\ Ready(w) /\ Decided(w) /\ Shape(w)
    BY WindowShape DEF FineWindow, Fine, Ready
  <1>2. Decided(m) /\ Rect(m) = Rect(w) /\ \A d : Mirrors(m, d) <=> Mirrors(w, d)
    BY <1>1 DEF Decided, Rect, Mirrors
  <1>3. HalfStop(m, "x") = HalfStop(w, "x") /\ HalfStop(m, "y") = HalfStop(w, "y")
    BY <1>2 DEF HalfStop
  <1>4. \A q : Source(m, q) = Source(w, q)  BY <1>3 DEF Source, Fold
  <1>5. Proper(TRUE, m)
    <2>1. w.start \in Rect(w)
      <3>1. /\ w.start.x <= w.stop.x /\ w.start.y <= w.stop.y
            /\ w.start.x <= w.start.x /\ w.start.y <= w.start.y
        <4>1. /\ w.start.x \in Int /\ w.start.y \in Int /\ w.stop.x \in Int /\ w.stop.y \in Int
              /\ w.begin.x \in Int /\ w.begin.y \in Int
              /\ w.start.x <= w.begin.x /\ w.begin.x <= w.stop.x
              /\ w.start.y <= w.begin.y /\ w.begin.y <= w.stop.y
          BY <1>1, Corners
        <4>. QED  BY <4>1
      <3>2. w.start \in Points  BY <1>1 DEF Shape
      <3>. QED  BY <1>1, <3>1, <3>2, RectPoints
    <2>. QED  BY <1>1, <1>2, <2>1 DEF Proper
  <1>6. Fine(TRUE, quick, done, m)
    <2>1. Closed(quick, m, done)  BY <1>1, <1>2, <1>4 DEF FineWindow, Fine, Closed
    <2>2. Guessed(TRUE, m, done)  BY DEF Guessed
    <2>. QED  BY <1>5, <2>1, <2>2 DEF Fine
  <1>7. ASSUME NEW q \in Rect(w), Ahead(TRUE, w, at, Source(w, q))
        PROVE  Ahead(TRUE, m, m.begin, Source(m, q))
    <2>. DEFINE p == Source(w, q)
    <2>1. p \in Half(w)  BY <1>1, SourceInHalf
    <2>2. p.y \in Int /\ p.x \in Int /\ w.start.x <= p.x /\ w.start.y <= p.y /\ p.y <= HalfStop(w, "y")
      BY <1>1, <2>1, HalfPoints, PointParts
    <2>3. at.y \in Int /\ HalfStop(w, "y") \in Int /\ w.start.x \in Int /\ w.start.y \in Int
      BY <1>1, HalfStops, PointParts
    <2>. HIDE DEF p
    <2>4. ~AtOrAfter(p, at)  BY <2>2, <2>3 DEF AtOrAfter
    <2>5. Odd(p)  BY <1>7, <2>4 DEF Ahead, p
    <2>6. AtOrAfter(p, m.begin)  BY <2>2, <2>3 DEF AtOrAfter
    <2>. QED  BY <1>4, <2>5, <2>6 DEF Ahead, p
  <1>8. OpenFrom(TRUE, w, at) \subseteq Open(TRUE, m)  BY <1>2, <1>7 DEF Open, OpenFrom
  <1>9. PlotFor(m) = PlotFor(w)
    <2>1. XYPlot(m) = XYPlot(w)  BY DEF XYPlot
    <2>. QED  BY <1>2, <2>1 DEF PlotFor
  <1>10. ASSUME NEW g, Beside(TRUE, w, g)  PROVE Beside(TRUE, m, g)
    <2>1. InOrder(TRUE, m, g) /\ InOrder(TRUE, g, m)  BY DEF InOrder
    <2>. QED  BY <1>2, <1>10, <2>1 DEF Beside
  <1>. QED  BY <1>2, <1>3, <1>6, <1>8, <1>9, <1>10

-----------------------------------------------------------------------------
\* The front of the list, and what a list stands for.

LEMMA StartInRect ==
    ASSUME NEW e, Shape(e), NEW two, Proper(two, e)
    PROVE  e.start \in Rect(e)
  <1>1. /\ e.start.x \in Int /\ e.start.y \in Int /\ e.stop.x \in Int /\ e.stop.y \in Int
        /\ e.begin.x \in Int /\ e.begin.y \in Int
        /\ e.start.x <= e.begin.x /\ e.begin.x <= e.stop.x
        /\ e.start.y <= e.begin.y /\ e.begin.y <= e.stop.y
    BY Corners
  <1>2. e.start.x <= e.stop.x /\ e.start.y <= e.stop.y /\ e.start.x <= e.start.x /\ e.start.y <= e.start.y
    BY <1>1
  <1>3. e.start \in Points  BY DEF Shape
  <1>. QED  BY <1>2, <1>3, RectPoints

\* The entry the engine takes comes before all others.
LEMMA FrontForemost ==
    ASSUME NEW two \in BOOLEAN, NEW quick, NEW done,
           NEW e \in Entries, NEW f \in Entries,
           Fine(two, quick, done, e), Fine(two, quick, done, f), Beside(two, e, f), ~Before(f, e)
    PROVE  Foremost(two, e, f)
  <1>1. CASE Decided(e)  BY <1>1, ForemostBeside
  <1>2. CASE ~Decided(e)
    <2>. SUFFICES ASSUME two, e.pass = 0, f.pass = 0  PROVE ~Decided(f) /\ Before(e, f)
      BY DEF Foremost, Beside
    <2>1. ~Decided(f)  BY <1>2 DEF Beside, InOrder
    <2>2. Shape(e) /\ Shape(f) /\ Proper(two, e) /\ Proper(two, f)  BY EntryShape DEF Fine
    <2>3. e.start \in Rect(e) /\ f.start \in Rect(f)  BY <2>2, StartInRect
    <2>4. e.start # f.start  BY <2>3 DEF Beside
    <2>5. e.start \in Points /\ f.start \in Points  BY <2>2 DEF Shape
    <2>6. /\ e.start.x \in Int /\ e.start.y \in Int /\ f.start.x \in Int /\ f.start.y \in Int
          /\ e.start = Pt(e.start.x, e.start.y) /\ f.start = Pt(f.start.x, f.start.y)
      BY <2>5, PointParts
    <2>7. e.start.x # f.start.x \/ e.start.y # f.start.y  BY <2>4, <2>6
    <2>. QED  BY <2>1, <2>6, <2>7 DEF Before
  <1>. QED  BY <1>1, <1>2

LEMMA FrontOfList ==
    ASSUME NEW two \in BOOLEAN, NEW quick, NEW done,
           NEW l \in Lists, l # <<>>, FineList(two, quick, done, l)
    PROVE  /\ Head(l) \in Entries /\ Fine(two, quick, done, Head(l))
           /\ Tail(l) \in Lists /\ FineList(two, quick, done, Tail(l))
           /\ \A k \in 1 .. Len(Tail(l)) : Foremost(two, Head(l), Tail(l)[k])
           /\ OpenList(two, l) \subseteq Open(two, Head(l)) \cup OpenList(two, Tail(l))
  <1>. DEFINE e == Head(l)
              r == Tail(l)
  <1>1. /\ l \in Seq(Entries) /\ Len(l) \in Nat /\ Len(l) >= 1 /\ e = l[1] /\ e \in Entries
        /\ r \in Seq(Entries) /\ Len(r) = Len(l) - 1 /\ r \in Lists
        /\ \A k \in 1 .. Len(r) : r[k] = l[k + 1] /\ r[k] \in Entries /\ k + 1 \in 2 .. Len(l)
    BY MaxCalcWorkAssumption DEF Lists
  <1>2. \A k \in 1 .. Len(l) : Fine(two, quick, done, l[k])  BY DEF FineList
  <1>3. \A i, j \in 1 .. Len(l) : i # j => Beside(two, l[i], l[j])  BY DEF FineList
  <1>4. \A i, j \in 1 .. Len(l) : i < j => ~Before(l[j], l[i])  BY DEF FineList
  <1>. HIDE DEF e, r
  <1>5. FineList(two, quick, done, r)
    <2>1. \A k \in 1 .. Len(r) : Fine(two, quick, done, r[k])  BY <1>1, <1>2
    <2>2. ASSUME NEW i \in 1 .. Len(r), NEW j \in 1 .. Len(r), i # j  PROVE Beside(two, r[i], r[j])
      <3>1. i + 1 \in 1 .. Len(l) /\ j + 1 \in 1 .. Len(l) /\ i + 1 # j + 1  BY <1>1, <2>2
      <3>. QED  BY <1>1, <1>3, <3>1
    <2>3. ASSUME NEW i \in 1 .. Len(r), NEW j \in 1 .. Len(r), i < j  PROVE ~Before(r[j], r[i])
      <3>1. i + 1 \in 1 .. Len(l) /\ j + 1 \in 1 .. Len(l) /\ i + 1 < j + 1  BY <1>1, <2>3
      <3>. QED  BY <1>1, <1>4, <3>1
    <2>. QED  BY <2>1, <2>2, <2>3 DEF FineList
  <1>6. ASSUME NEW k \in 1 .. Len(r)  PROVE Foremost(two, e, r[k])
    <2>1. 1 \in 1 .. Len(l) /\ k + 1 \in 1 .. Len(l) /\ 1 < k + 1  BY <1>1
    <2>2. Beside(two, e, r[k]) /\ ~Before(r[k], e)  BY <1>1, <1>3, <1>4, <2>1
    <2>3. Fine(two, quick, done, e) /\ Fine(two, quick, done, r[k])  BY <1>1, <1>2, <2>1
    <2>. QED  BY <1>1, <2>2, <2>3, FrontForemost
  <1>7. OpenList(two, l) \subseteq Open(two, e) \cup OpenList(two, r)
    <2>1. ASSUME NEW q, NEW k \in 1 .. Len(l), q \in Open(two, l[k])
          PROVE  q \in Open(two, e) \cup OpenList(two, r)
      <3>1. CASE k = 1  BY <1>1, <2>1, <3>1
      <3>2. CASE k # 1
        <4>1. k - 1 \in 1 .. Len(r) /\ (k - 1) + 1 = k  BY <1>1, <3>2
        <4>2. r[k - 1] = l[k]  BY <1>1, <4>1
        <4>. QED  BY <2>1, <4>1, <4>2 DEF OpenList
      <3>. QED  BY <3>1, <3>2
    <2>. QED  BY <2>1 DEF OpenList
  <1>8. Fine(two, quick, done, e)
    <2>1. 1 \in 1 .. Len(l)  BY <1>1
    <2>. QED  BY <1>1, <1>2, <2>1
  <1>. QED  BY <1>1, <1>5, <1>6, <1>7, <1>8 DEF e, r

LEMMA TwoPassesType == ASSUME IInv  PROVE TwoPasses \in BOOLEAN /\ quick_calc \in BOOLEAN
  BY DEF IInv, TypeOK, TwoPasses

\* No list is the whole screen.
LEMMA EmptyFine ==
    ASSUME NEW two, NEW quick, NEW done
    PROVE  FineList(two, quick, done, <<>>) /\ OpenList(two, <<>>) = {}
  <1>1. Len(<<>>) = 0 /\ 1 .. 0 = {}  OBVIOUS
  <1>. QED  BY <1>1 DEF FineList, OpenList

\* An entry covers what it stands for.
LEMMA PendingEntry ==
    ASSUME IInv, NEW quick, NEW done, NEW e \in Entries, Fine(TwoPasses, quick, done, e)
    PROVE  Open(TwoPasses, e) \subseteq PendingOf(e)
  <1>. DEFINE cut == SetSymmetry(Window(e), <<>>)
  <1>1. TwoPasses \in BOOLEAN  BY TwoPassesType
  <1>2. Fine(TwoPasses, FALSE, done, e)  BY DEF Fine, Closed
  <1>3. <<>> \in Lists /\ FineList(TwoPasses, FALSE, done, <<>>) /\ Len(<<>>) = 0
    BY NoEntries, EmptyFine
  <1>4. \A k \in 1 .. Len(<<>>) : Foremost(TwoPasses, e, <<>>[k])  BY <1>3
  <1>5. IsSplit(TwoPasses, FALSE, done, e, <<>>, cut)
    BY <1>1, <1>2, <1>3, <1>4, SymmetryFine
  <1>. HIDE DEF cut
  <1>6. /\ cut.win \in Windows /\ cut.list \in Lists /\ FineWindow(TwoPasses, FALSE, done, cut.win)
        /\ FineList(TwoPasses, FALSE, done, cut.list)
        /\ Open(TwoPasses, e) \subseteq OpenFrom(TwoPasses, cut.win, cut.win.begin)
                                        \cup OpenList(TwoPasses, cut.list)
    BY <1>5 DEF IsSplit
  <1>7. Remaining(cut.win, cut.win.begin) = OpenFrom(TwoPasses, cut.win, cut.win.begin)
    BY <1>6, RemainingIs DEF FineWindow, Fine
  <1>8. OpenList(TwoPasses, cut.list)
           \subseteq UNION {[x : f.start.x .. f.stop.x, y : f.start.y .. f.stop.y] :
                               f \in {cut.list[k] : k \in 1 .. Len(cut.list)}}
    BY DEF OpenList, Open, OpenFrom, Rect
  <1>. QED  BY <1>6, <1>7, <1>8 DEF PendingOf, cut

LEMMA PendingList ==
    ASSUME IInv, NEW quick, NEW done, NEW l \in Lists, FineList(TwoPasses, quick, done, l)
    PROVE  OpenList(TwoPasses, l) \subseteq Pending(l)
  <1>1. \A k \in 1 .. Len(l) : l[k] \in Entries  BY DEF Lists
  <1>2. \A k \in 1 .. Len(l) : Open(TwoPasses, l[k]) \subseteq PendingOf(l[k])
    BY <1>1, PendingEntry DEF FineList
  <1>. QED  BY <1>2 DEF OpenList, Pending

-----------------------------------------------------------------------------
\* The whole screen, and what a plot leaves of the rest.

\* A calculation that starts has everything before it.
LEMMA WholeFine ==
    ASSUME NEW two \in BOOLEAN, NEW quick \in BOOLEAN, NEW done,
           two => done = {}, quick => done \subseteq Kept
    PROVE  /\ FineList(two, quick, done, <<WholeScreen>>)
           /\ Screen \subseteq OpenList(two, <<WholeScreen>>)
  <1>. DEFINE e == WholeScreen
  <1>1. XDots \in Nat \ {0} /\ YDots \in Nat \ {0}  BY SymmetryAssumption
  <1>2. e \in Entries /\ Shape(e)  BY WholeScreenType, EntryShape
  <1>3. /\ e.start = Pt(0, 0) /\ e.stop = Pt(XDots - 1, YDots - 1) /\ e.begin = Pt(0, 0)
        /\ e.pass = 0 /\ e.symmetry.x = "new" /\ e.symmetry.y = "new"
    BY DEF WholeScreen, Entry, Undecided
  <1>4. /\ e.start.x = 0 /\ e.start.y = 0 /\ e.stop.x = XDots - 1 /\ e.stop.y = YDots - 1
        /\ e.begin.x = 0 /\ e.begin.y = 0
    BY <1>3 DEF Pt
  <1>. HIDE DEF e
  <1>5. Rect(e) = Screen
    BY <1>4 DEF Rect, Screen
  <1>6. e.start \in Screen /\ e.stop \in Screen
    BY <1>1, <1>3 DEF Screen, Pt
  <1>7. \A d \in Axes : e.symmetry[d] = "new"
    <2>1. Axes \subseteq {"x", "y"}  BY DEF Axes
    <2>. QED  BY <1>3, <2>1
  <1>8. Proper(two, e)
    BY <1>3, <1>5, <1>6, <1>7 DEF Proper, Direct
  <1>9. Guessed(two, e, done)  BY DEF Guessed
  <1>10. Closed(quick, e, done)
    <2>1. CASE Decided(e)
      <3>1. \A d : ~Mirrors(e, d)  BY <1>7 DEF Mirrors
      <3>2. \A d : HalfStop(e, d) = e.stop[d]  BY <3>1 DEF HalfStop
      <3>3. ASSUME NEW q \in Rect(e)  PROVE Source(e, q) = q
        <4>1. q \in Points /\ q.x <= e.stop.x /\ q.y <= e.stop.y  BY <1>2, RectPoints
        <4>2. q = Pt(q.x, q.y)  BY <4>1, PointParts
        <4>3. q.x <= HalfStop(e, "x") /\ q.y <= HalfStop(e, "y")  BY <3>2, <4>1
        <4>. QED  BY <4>2, <4>3 DEF Source, Fold
      <3>. QED  BY <2>1, <3>3 DEF Closed
    <2>2. CASE ~Decided(e)  BY <2>2 DEF Closed
    <2>. QED  BY <2>1, <2>2
  <1>11. Fine(two, quick, done, e)  BY <1>8, <1>9, <1>10 DEF Fine
  <1>12. Len(<<e>>) = 1 /\ 1 .. 1 = {1} /\ <<e>>[1] = e  OBVIOUS
  <1>13. FineList(two, quick, done, <<e>>)
    <2>1. \A k \in 1 .. Len(<<e>>) : Fine(two, quick, done, <<e>>[k])  BY <1>11, <1>12
    <2>2. \A i, j \in 1 .. Len(<<e>>) : i = j /\ ~(i < j)  BY <1>12
    <2>. QED  BY <2>1, <2>2 DEF FineList
  <1>14. Open(two, e) = Rect(e)
    <2>1. e.begin = e.start /\ (two => e.pass = 0)  BY <1>3
    <2>. QED  BY <1>2, <1>8, <2>1, AllOpen DEF Open
  <1>15. Open(two, e) \subseteq OpenList(two, <<e>>)
    <2>1. 1 \in 1 .. Len(<<e>>) /\ <<e>>[1] = e  BY <1>12
    <2>. QED  BY <2>1 DEF OpenList
  <1>. QED  BY <1>5, <1>13, <1>14, <1>15 DEF e

\* What is plotted within a window is nothing to the entries beside it.
LEMMA PlottedBeside ==
    ASSUME NEW two, NEW quick, NEW done, NEW T, NEW e, Shape(e), Fine(two, quick, done, e),
           T \cap Rect(e) = {}
    PROVE  Fine(two, quick, done \cup T, e)
  <1>1. Proper(two, e) /\ Guessed(two, e, done) /\ Closed(quick, e, done)  BY DEF Fine
  <1>2. ASSUME NEW q \in Rect(e)
        PROVE  /\ q \in done \cup T <=> q \in done
               /\ Source(e, q) \in done \cup T <=> Source(e, q) \in done
    <2>1. Source(e, q) \in Half(e)  BY <1>1, SourceInHalf
    <2>2. Source(e, q) \in Rect(e)  BY <1>1, <2>1, HalfPoints
    <2>. QED  BY <1>2, <2>2
  <1>3. Guessed(two, e, done \cup T)  BY <1>1, <1>2 DEF Guessed
  <1>4. Closed(quick, e, done \cup T)  BY <1>1, <1>2 DEF Closed
  <1>. QED  BY <1>1, <1>3, <1>4 DEF Fine

LEMMA PlottedList ==
    ASSUME NEW two, NEW quick, NEW done, NEW w, NEW T, T \subseteq Rect(w),
           NEW l \in Lists, FineList(two, quick, done, l),
           \A k \in 1 .. Len(l) : Beside(two, w, l[k])
    PROVE  FineList(two, quick, done \cup T, l)
  <1>1. ASSUME NEW k \in 1 .. Len(l)  PROVE Fine(two, quick, done \cup T, l[k])
    <2>1. l[k] \in Entries  BY DEF Lists
    <2>2. T \cap Rect(l[k]) = {}  BY DEF Beside
    <2>. QED  BY <2>1, <2>2, EntryShape, PlottedBeside DEF FineList
  <1>. QED  BY <1>1 DEF FineList

\* The pixels the plot of a point writes are final with it.
LEMMA PlottedWindow ==
    ASSUME NEW two, NEW quick, NEW done, NEW w \in Windows, FineWindow(two, quick, done, w),
           NEW p \in Half(w), two /\ w.pass = 0 => Direct(w, p)
    PROVE  FineWindow(two, quick, done \cup Targets(w, p), w)
  <1>. DEFINE T == Targets(w, p)
  <1>1. Proper(two, w) /\ Guessed(two, w, done) /\ Closed(quick, w, done) /\ Ready(w) /\ Shape(w)
        /\ Decided(w)
    BY WindowShape DEF FineWindow, Fine, Ready
  <1>2. T = {q \in Rect(w) : Source(w, q) = p}  BY <1>1, TargetsAre
  <1>. HIDE DEF T
  <1>3. Guessed(two, w, done \cup T)  BY <1>1, <1>2 DEF Guessed
  <1>4. ASSUME NEW q \in Rect(w), Source(w, q) \in T  PROVE q \in T
    <2>1. Source(w, q) \in Half(w)  BY <1>1, SourceInHalf
    <2>2. Source(w, Source(w, q)) = Source(w, q)  BY <1>1, <2>1, HalfPoints
    <2>3. Source(w, Source(w, q)) = p  BY <1>2, <1>4
    <2>. QED  BY <1>2, <2>2, <2>3
  <1>5. Closed(quick, w, done \cup T)  BY <1>1, <1>4 DEF Closed
  <1>. QED  BY <1>1, <1>3, <1>5 DEF FineWindow, Fine, T

-----------------------------------------------------------------------------
\* The item that is calculated.

LEMMA Item ==
    ASSUME IInv, WInv, ItemOut
    PROVE  /\ win \in Windows /\ Shape(win) /\ work_list \in Lists
           /\ FineWindow(TwoPasses, Quick, final, win)
           /\ Proper(TwoPasses, win) /\ Ready(win) /\ Decided(win)
           /\ TodoList = work_list /\ FineList(TwoPasses, Quick, final, work_list)
           /\ \A k \in 1 .. Len(work_list) : Beside(TwoPasses, win, work_list[k])
           /\ win.i_stop.x = HalfStop(win, "x") /\ win.i_stop.y = HalfStop(win, "y")
           /\ win.i_stop.x \in Int /\ win.i_stop.y \in Int /\ win.start.x \in Int /\ win.start.y \in Int
           /\ win.start.x <= win.i_stop.x /\ win.start.y <= win.i_stop.y
           /\ cursor.row \in Int /\ cursor.col \in Int /\ Here.x = cursor.col /\ Here.y = cursor.row
           /\ Here \in Points /\ CursorInv
           /\ calc_status = "IN_PROGRESS" /\ work_list_started /\ resume_data = <<>>
           /\ work_item_active /\ ~orbit_plot_pending
           /\ TwoPasses \in BOOLEAN /\ Quick \in BOOLEAN
           /\ NoQuickZoom => Screen \subseteq final \cup OpenList(TwoPasses, work_list)
                                              \cup OpenFrom(TwoPasses, win, Here)
  <1>1. win \in Windows /\ work_list \in Lists /\ cursor \in Cursors /\ Here \in Points
    BY Types
  <1>2. pc \in {"calc", "run_tail"} /\ Listed /\ TodoList = work_list
    BY DEF ItemOut, Listed, TodoList
  <1>3. ItemInv /\ FineList(TwoPasses, Quick, final, work_list) /\ Flow
    BY <1>2 DEF WInv
  <1>4. FineWindow(TwoPasses, Quick, final, win) /\ CursorInv
    BY <1>3 DEF ItemInv
  <1>5. Proper(TwoPasses, win) /\ Ready(win) /\ Decided(win) /\ Shape(win)
    BY <1>1, <1>4, WindowShape DEF FineWindow, Fine, Ready
  <1>6. win.i_stop.x = HalfStop(win, "x") /\ win.i_stop.y = HalfStop(win, "y")
    BY <1>5 DEF Ready, Pt
  <1>7. /\ win.i_stop.x \in Int /\ win.i_stop.y \in Int /\ win.start.x \in Int /\ win.start.y \in Int
        /\ win.start.x <= win.i_stop.x /\ win.start.y <= win.i_stop.y
    BY <1>5, <1>6, HalfStops
  <1>8. cursor.row \in Int /\ cursor.col \in Int /\ Here.x = cursor.col /\ Here.y = cursor.row
    BY <1>1 DEF Cursors, Here, Pt
  <1>9. /\ calc_status = "IN_PROGRESS" /\ work_list_started /\ resume_data = <<>>
        /\ work_item_active /\ ~orbit_plot_pending
    BY <1>2, <1>3 DEF Flow, IInv, Control
  <1>10. TwoPasses \in BOOLEAN /\ Quick \in BOOLEAN
    BY TwoPassesType DEF Quick, NoQuickZoom
  <1>11. NoQuickZoom => Screen \subseteq final \cup OpenList(TwoPasses, work_list)
                                               \cup OpenFrom(TwoPasses, win, Here)
    BY <1>2 DEF WInv, Covered
  <1>12. \A k \in 1 .. Len(work_list) : Beside(TwoPasses, win, work_list[k])
    BY <1>3 DEF ItemInv
  <1>. QED  BY <1>1, <1>2, <1>3, <1>4, <1>5, <1>6, <1>7, <1>8, <1>9, <1>10, <1>11, <1>12

\* The pixel under the cursor is one of the half.
LEMMA AtPixelHalf ==
    ASSUME IInv, WInv, ItemOut, cursor.row <= win.i_stop.y, cursor.col <= win.i_stop.x
    PROVE  /\ Here \in Half(win)
           /\ TwoPasses /\ win.pass = 0 => Direct(win, Here)
  <1>1. Here \in Half(win)
    BY Item, HalfPoints DEF CursorInv
  <1>2. CASE TwoPasses /\ win.pass = 0
    <2>1. FirstPass  BY <1>2 DEF FirstPass
    <2>2. /\ Even(cursor.row) \/ cursor.row = win.start.y
          /\ Even(cursor.col) \/ cursor.col = win.start.x
      BY <2>1, Item DEF CursorInv
    <2>. QED  BY <1>1, <2>2, Item DEF Direct
  <1>. QED  BY <1>1, <1>2

\* Where the cursor moves from at to to, what it leaves behind has been calculated.
LEMMA Moved ==
    ASSUME NEW two \in BOOLEAN, NEW w, Shape(w), Proper(two, w), NEW at, NEW to, NEW T,
           \A s \in Half(w) : Ahead(two, w, at, s) => \/ Ahead(two, w, to, s)
                                                      \/ \A q \in Rect(w) : Source(w, q) = s => q \in T
    PROVE  OpenFrom(two, w, at) \subseteq OpenFrom(two, w, to) \cup T
  <1>1. \A q \in Rect(w) : Source(w, q) \in Half(w)  BY SourceInHalf
  <1>. QED  BY <1>1 DEF OpenFrom

\* A step within a pass.
LEMMA ItemStep ==
    ASSUME IInv, WInv, pc = "calc",
           UNCHANGED <<calc_status, resume_data, quick_calc, list_vars, orbit_plot_pending>>,
           pc' = "calc" \/ (/\ pc' = "run_tail" /\ calc_interrupted' /\ ResumePoint' = Here'
                            /\ cursor'.row <= win.i_stop.y /\ cursor'.col <= win.i_stop.x),
           NEW T, T \subseteq Rect(win), final' = final \cup T,
           blank' \subseteq blank, final' \cap blank' = {},
           Fine(TwoPasses, Quick, final', win), CursorInv',
           NoQuickZoom => OpenFrom(TwoPasses, win, Here)
                             \subseteq OpenFrom(TwoPasses, win, Here') \cup final'
    PROVE  WInv'
  <1>1. ItemOut  BY DEF ItemOut
  <1>2. TwoPasses' = TwoPasses /\ Quick' = Quick  BY DEF TwoPasses, Quick
  <1>3. TodoList' = work_list /\ ItemOut'  BY DEF TodoList, list_vars, ItemOut
  <1>4. win' = win /\ work_list' = work_list /\ work_list_started' = work_list_started
        /\ work_item_active' = work_item_active
    BY DEF list_vars
  <1>5. Flow'
    <2>1. calc_status = "IN_PROGRESS" /\ work_list_started /\ resume_data = <<>> /\ ~orbit_plot_pending
      BY <1>1, Item
    <2>. QED  BY <1>4, <2>1 DEF Flow
  <1>6. QuickInv'
    <2>1. QuickInv  BY DEF WInv
    <2>. QED  BY <1>2, <2>1 DEF QuickInv
  <1>7. final' \subseteq Screen
    <2>1. T \subseteq Screen
      <3>1. /\ win.start.x \in Int /\ win.start.y \in Int /\ win.stop.x \in Int /\ win.stop.y \in Int
            /\ 0 <= win.start.x /\ win.stop.x < XDots /\ 0 <= win.start.y /\ win.stop.y < YDots
            /\ XDots \in Int /\ YDots \in Int
        BY <1>1, Item, Corners
      <3>2. Rect(win) \subseteq Screen
        BY <3>1 DEF Rect, Screen
      <3>. QED  BY <3>2
    <2>. QED  BY <2>1 DEF WInv
  <1>8. calc_status' # "COMPLETED"  BY <1>1, Item
  <1>9. FineList(TwoPasses, Quick, final', work_list)
    BY <1>1, Item, PlottedList
  <1>10. FineWindow(TwoPasses, Quick, final', win)
    BY <1>1, Item DEF FineWindow
  <1>11. ItemInv'
    <2>1. \A k \in 1 .. Len(work_list) : Beside(TwoPasses, win, work_list[k])
      BY <1>1, Item
    <2>. QED  BY <1>2, <1>4, <1>10, <2>1 DEF ItemInv
  <1>12. NoQuickZoom => Screen \subseteq final' \cup OpenList(TwoPasses, work_list)
                                                \cup OpenFrom(TwoPasses, win, Here')
    BY <1>1, Item
  <1>13. NoQuickZoom => Covered'
    BY <1>2, <1>3, <1>4, <1>12 DEF Covered
  <1>. QED  BY <1>2, <1>3, <1>5, <1>6, <1>7, <1>8, <1>9, <1>11, <1>13 DEF WInv

-----------------------------------------------------------------------------
\* The steps of a pass.

LEMMA SkipPixelWhole == ASSUME IInv, WInv, SkipPixel  PROVE WInv'
  <1>1. /\ ItemOut /\ pc = "calc" /\ cursor.row <= win.i_stop.y /\ cursor.col <= win.i_stop.x
        /\ MaySkip(Here) /\ cursor' = [cursor EXCEPT !.col = @ + 1] /\ pc' = "calc"
        /\ UNCHANGED <<image_vars, list_vars, orbit_plot_pending, screen_vars>>
    BY DEF SkipPixel, AtPixel, ItemOut
  <1>2. cursor'.col = cursor.col + 1 /\ cursor'.row = cursor.row
    BY <1>1, Types DEF Cursors
  <1>3. Here' = Pt(cursor.col + 1, cursor.row)  BY <1>2 DEF Here
  <1>4. Here'.x = cursor.col + 1 /\ Here'.y = cursor.row  BY <1>3 DEF Pt
  <1>5. ~(TwoPasses /\ win.pass = 0)
    BY <1>1 DEF MaySkip, Passed, FirstPass, QuickCalcOn, TwoPasses
  <1>6. CursorInv'
    <2>1. ~FirstPass'  BY <1>1, <1>5 DEF FirstPass, TwoPasses, image_vars, list_vars
    <2>2. win' = win  BY <1>1 DEF list_vars
    <2>. QED  BY <1>1, <1>2, <2>1, <2>2, Item DEF CursorInv
  <1>7. ASSUME NoQuickZoom,
               NEW s \in Half(win), Ahead(TwoPasses, win, Here, s), ~Ahead(TwoPasses, win, Here', s),
               NEW q \in Rect(win), Source(win, q) = s
        PROVE  q \in final'
    <2>1. s \in Points /\ s.x \in Int /\ s.y \in Int  BY <1>1, Item, HalfPoints, PointParts
    <2>2. AtOrAfter(s, Here) /\ ~AtOrAfter(s, Here') /\ (TwoPasses => Odd(s))
      BY <1>5, <1>7, <1>1, Item DEF Ahead
    <2>3. s.x = Here.x /\ s.y = Here.y
      BY <1>1, <1>4, <2>1, <2>2, Item DEF AtOrAfter
    <2>4. s = Here
      <3>1. Here \in Points  BY Types
      <3>. QED  BY <2>1, <2>3, <3>1, PointParts
    <2>5. ~Passed(Here)
      BY <2>2, <2>4 DEF Passed, Odd
    <2>6. quick_calc /\ MayLookOutside(Here)  BY <1>1, <2>5 DEF MaySkip, QuickCalcOn
    <2>7. Quick /\ calc_status # "COMPLETED"  BY <1>1, <1>7, <2>6, Item DEF Quick
    <2>8. Here \in final  BY <2>6, <2>7 DEF WInv, QuickInv, MayLookOutside
    <2>9. Closed(Quick, win, final) /\ Decided(win)  BY <1>1, Item DEF FineWindow, Fine
    <2>10. q \in final  BY <1>7, <2>4, <2>7, <2>8, <2>9 DEF Closed
    <2>. QED  BY <1>1, <2>10 DEF screen_vars
  <1>8. NoQuickZoom => OpenFrom(TwoPasses, win, Here)
                          \subseteq OpenFrom(TwoPasses, win, Here') \cup final'
    BY <1>1, <1>7, Item, Moved
  <1>9. /\ final' = final \cup {} /\ {} \subseteq Rect(win) /\ blank' = blank
        /\ Fine(TwoPasses, Quick, final', win)
    BY <1>1, Item DEF FineWindow, screen_vars
  <1>10. blank' \subseteq blank /\ final' \cap blank' = {}
    BY <1>9 DEF WInv, QuickInv
  <1>11. UNCHANGED <<calc_status, resume_data, quick_calc, list_vars, orbit_plot_pending>>
    BY <1>1 DEF image_vars
  <1>12. pc = "calc" /\ pc' = "calc"  BY <1>1
  <1>. QED  BY <1>6, <1>8, <1>9, <1>10, <1>11, <1>12, ItemStep

LEMMA MandelbrotInterruptedWhole ==
    ASSUME IInv, WInv, MandelbrotInterrupted  PROVE WInv'
  <1>1. /\ ItemOut /\ pc = "calc" /\ cursor.row <= win.i_stop.y /\ cursor.col <= win.i_stop.x
        /\ cursor' = [cursor EXCEPT !.resume_row = cursor.row, !.resume_col = cursor.col]
        /\ pc' = "run_tail" /\ Interrupted /\ PollKeyboard
        /\ UNCHANGED <<image_vars, list_vars, orbit_plot_pending, screen_vars>>
    BY DEF MandelbrotInterrupted, StopAtPixel, AtPixel, ItemOut
  <1>2. /\ cursor'.col = cursor.col /\ cursor'.row = cursor.row
        /\ cursor'.resume_col = cursor.col /\ cursor'.resume_row = cursor.row
    BY <1>1, Types DEF Cursors
  <1>3. Here' = Here /\ ResumePoint' = Here'  BY <1>2 DEF Here, ResumePoint
  <1>4. calc_interrupted'  BY <1>1, PollType
  <1>5. CursorInv'
    BY <1>1, <1>2, Item DEF CursorInv, FirstPass, TwoPasses, image_vars, list_vars
  <1>6. /\ final' = final \cup {} /\ {} \subseteq Rect(win) /\ blank' = blank
        /\ Fine(TwoPasses, Quick, final', win)
    BY <1>1, Item DEF FineWindow, screen_vars
  <1>7. blank' \subseteq blank /\ final' \cap blank' = {}
    BY <1>6 DEF WInv, QuickInv
  <1>8. UNCHANGED <<calc_status, resume_data, quick_calc, list_vars, orbit_plot_pending>>
    BY <1>1 DEF image_vars
  <1>9. pc' = "run_tail" /\ cursor'.row <= win.i_stop.y /\ cursor'.col <= win.i_stop.x /\ pc = "calc"
    BY <1>1, <1>2
  <1>10. NoQuickZoom => OpenFrom(TwoPasses, win, Here)
                           \subseteq OpenFrom(TwoPasses, win, Here') \cup final'
    BY <1>3
  <1>. QED  BY <1>3, <1>4, <1>5, <1>6, <1>7, <1>8, <1>9, <1>10, ItemStep

LEMMA NextRowWhole == ASSUME IInv, WInv, NextRow  PROVE WInv'
  <1>. DEFINE row == IF FirstPass /\ Even(cursor.row) THEN cursor.row + 2 ELSE cursor.row + 1
  <1>1. /\ ItemOut /\ pc = "calc" /\ cursor.row <= win.i_stop.y /\ cursor.col > win.i_stop.x
        /\ cursor' = [cursor EXCEPT !.col = win.start.x, !.row = row] /\ pc' = "calc"
        /\ UNCHANGED <<image_vars, list_vars, orbit_plot_pending, screen_vars>>
    BY DEF NextRow, ItemOut
  <1>2. cursor'.col = win.start.x /\ cursor'.row = row
    <2>. HIDE DEF row
    <2>. QED  BY <1>1, Types DEF Cursors
  <1>3. \/ row = cursor.row + 1 /\ ~(FirstPass /\ Even(cursor.row))
        \/ row = cursor.row + 2 /\ FirstPass /\ Even(cursor.row)
    OBVIOUS
  <1>. HIDE DEF row
  <1>4. Here' = Pt(win.start.x, row)  BY <1>2 DEF Here
  <1>5. Here'.x = win.start.x /\ Here'.y = row  BY <1>4 DEF Pt
  <1>6. cursor.row \in Int /\ win.start.y \in Int /\ win.start.y <= cursor.row
        /\ (FirstPass => Even(cursor.row) \/ cursor.row = win.start.y)
    BY <1>1, Item DEF CursorInv
  <1>7. FirstPass => Even(row) \/ row = win.start.y
    <2>1. CASE FirstPass /\ Even(cursor.row)
      <3>1. row = cursor.row + 2  BY <1>3, <2>1
      <3>. QED  BY <1>6, <2>1, <3>1 DEF Even
    <2>2. CASE FirstPass /\ ~Even(cursor.row)
      <3>1. row = cursor.row + 1  BY <1>3, <2>2
      <3>. QED  BY <1>6, <2>2, <3>1 DEF Even
    <2>. QED  BY <2>1, <2>2
  <1>8. CursorInv'
    <2>1. win' = win /\ (FirstPass' <=> FirstPass)
      BY <1>1 DEF image_vars, list_vars, FirstPass, TwoPasses
    <2>2. win.start.y <= row /\ win.start.x <= win.start.x
      BY <1>1, <1>3, <1>6, Item
    <2>. QED  BY <1>2, <1>7, <2>1, <2>2 DEF CursorInv
  <1>9. ASSUME NEW s \in Half(win), Ahead(TwoPasses, win, Here, s)
        PROVE  Ahead(TwoPasses, win, Here', s)
    <2>1. s \in Points /\ s.x \in Int /\ s.y \in Int /\ s.x <= win.i_stop.x /\ win.start.x <= s.x
      BY <1>1, Item, HalfPoints, PointParts
    <2>2. CASE AtOrAfter(s, Here) /\ ~AtOrAfter(s, Here')
      <3>1. s.y = cursor.row + 1 /\ row = cursor.row + 2 /\ FirstPass /\ Even(cursor.row)
        BY <1>1, <1>3, <1>5, <1>6, <2>1, <2>2, Item DEF AtOrAfter
      <3>2. ~Even(s.y)  BY <1>6, <3>1 DEF Even
      <3>3. Odd(s)  BY <3>2 DEF Odd
      <3>. QED  BY <3>1, <3>3 DEF Ahead, FirstPass
    <2>3. CASE ~(AtOrAfter(s, Here) /\ ~AtOrAfter(s, Here'))
      BY <1>1, <1>9, <2>3, Item DEF Ahead
    <2>. QED  BY <2>2, <2>3
  <1>10. OpenFrom(TwoPasses, win, Here) \subseteq OpenFrom(TwoPasses, win, Here') \cup final'
    BY <1>1, <1>9, Item, Moved
  <1>11. /\ final' = final \cup {} /\ {} \subseteq Rect(win) /\ blank' = blank
         /\ Fine(TwoPasses, Quick, final', win)
    BY <1>1, Item DEF FineWindow, screen_vars
  <1>12. blank' \subseteq blank /\ final' \cap blank' = {}
    BY <1>11 DEF WInv, QuickInv
  <1>13. UNCHANGED <<calc_status, resume_data, quick_calc, list_vars, orbit_plot_pending>>
    BY <1>1 DEF image_vars
  <1>14. pc = "calc" /\ pc' = "calc"  BY <1>1
  <1>. QED  BY <1>8, <1>10, <1>11, <1>12, <1>13, <1>14, ItemStep

\* The copies of a pixel are points the first pass does not calculate, but the second.
LEMMA CopiesOdd ==
    ASSUME IInv, WInv, ItemOut, cursor.row <= win.i_stop.y, cursor.col <= win.i_stop.x,
           NEW c \in Copies(Here)
    PROVE  FirstPass /\ c \in Half(win) /\ Odd(c) /\ ~Direct(win, c) /\ c # Here
  <1>. DEFINE x == cursor.col
              y == cursor.row
  <1>1. /\ c \in {Pt(x, y + 1), Pt(x + 1, y), Pt(x + 1, y + 1)}
        /\ c.y > y => FirstPass /\ Even(y) /\ y < win.i_stop.y
        /\ c.x > x => FirstPass /\ Even(x) /\ x < win.i_stop.x
    BY Item DEF Copies, CopiesDown, CopiesRight
  <1>2. x \in Int /\ y \in Int /\ win.start.x \in Int /\ win.start.y \in Int
        /\ win.start.x <= x /\ win.start.y <= y /\ win.i_stop.x \in Int /\ win.i_stop.y \in Int
        /\ x <= win.i_stop.x /\ y <= win.i_stop.y
    BY Item DEF CursorInv
  <1>3. /\ c \in Points /\ c.x \in Int /\ c.y \in Int
        /\ \/ c.x = x /\ c.y = y + 1
           \/ c.x = x + 1 /\ (c.y = y \/ c.y = y + 1)
    BY <1>1, <1>2 DEF Pt, Points
  <1>. HIDE DEF x, y
  <1>4. \/ FirstPass /\ c.y > y /\ Even(y) /\ y < win.i_stop.y /\ c.y = y + 1
        \/ FirstPass /\ c.x > x /\ Even(x) /\ x < win.i_stop.x /\ c.x = x + 1
    BY <1>1, <1>2, <1>3
  <1>5. c.x <= win.i_stop.x /\ c.y <= win.i_stop.y /\ win.start.x <= c.x /\ win.start.y <= c.y
    <2>1. c.x = x \/ (c.x = x + 1 /\ x < win.i_stop.x)
      BY <1>1, <1>2, <1>3
    <2>2. c.y = y \/ (c.y = y + 1 /\ y < win.i_stop.y)
      BY <1>1, <1>2, <1>3
    <2>. QED  BY <1>2, <1>3, <2>1, <2>2
  <1>6. c \in Half(win)  BY <1>3, <1>5, Item, HalfPoints
  <1>7. \/ ~Even(c.y) /\ c.y # win.start.y
        \/ ~Even(c.x) /\ c.x # win.start.x
    <2>1. ASSUME c.y = y + 1, Even(y)  PROVE ~Even(c.y) /\ c.y # win.start.y
      BY <1>2, <1>3, <2>1 DEF Even
    <2>2. ASSUME c.x = x + 1, Even(x)  PROVE ~Even(c.x) /\ c.x # win.start.x
      BY <1>2, <1>3, <2>2 DEF Even
    <2>. QED  BY <1>4, <2>1, <2>2
  <1>8. c # Here
    <2>1. Here.x = x /\ Here.y = y  BY Item DEF x, y
    <2>. QED  BY <1>2, <1>3, <2>1
  <1>. QED  BY <1>4, <1>6, <1>7, <1>8 DEF Odd, Direct

\* A plot only adds to what is final, and the copies take nothing away.
LEMMA PlotAdds ==
    ASSUME IInv, WInv, ItemOut, cursor.row <= win.i_stop.y, cursor.col <= win.i_stop.x
    PROVE  /\ Targets(win, Here) \subseteq Rect(win)
           /\ Plotted(final, Here) \ CopyTargets(Here) = final \cup Targets(win, Here)
  <1>. DEFINE T == Targets(win, Here)
  <1>1. Here \in Half(win)  BY AtPixelHalf
  <1>2. T = {q \in Rect(win) : Source(win, q) = Here} /\ T \subseteq SameColour(Here)
    BY <1>1, Item, TargetsAre
  <1>. HIDE DEF T
  <1>3. Plotted(final, Here) = final \cup T
    BY <1>2 DEF Plotted, T
  <1>4. ASSUME NEW q \in CopyTargets(Here)  PROVE q \notin final \cup T
    <2>1. PICK c \in Copies(Here) : q \in Targets(win, c)  BY <1>4 DEF CopyTargets
    <2>2. FirstPass /\ c \in Half(win) /\ ~Direct(win, c) /\ c # Here  BY <2>1, CopiesOdd
    <2>3. q \in Rect(win) /\ Source(win, q) = c  BY <2>1, <2>2, Item, TargetsAre
    <2>4. q \notin T  BY <1>2, <2>2, <2>3
    <2>5. Guessed(TwoPasses, win, final)  BY Item DEF FineWindow, Fine
    <2>6. q \notin final  BY <2>2, <2>3, <2>5 DEF Guessed, FirstPass
    <2>. QED  BY <2>4, <2>6
  <1>. QED  BY <1>2, <1>3, <1>4 DEF T

LEMMA PixelDoneWhole ==
    ASSUME ~Yields, IInv, WInv, NEW polled \in BOOLEAN, PixelDone(polled)  PROVE WInv'
  <1>. DEFINE T == Targets(win, Here)
              col == IF CopiesRight(Here) THEN cursor.col + 2 ELSE cursor.col + 1
  <1>1. /\ ItemOut /\ pc = "calc" /\ pc' = "calc"
        /\ cursor.row <= win.i_stop.y /\ cursor.col <= win.i_stop.x
        /\ final' = Plotted(final, Here) \ CopyTargets(Here)
        /\ blank' = (blank \ T) \ CopyTargets(Here)
        /\ cursor' = [cursor EXCEPT !.col = col]
        /\ UNCHANGED <<calc_status, resume_data, quick_calc, list_vars, orbit_plot_pending>>
    BY DEF PixelDone, AtPixel, ItemOut, MovePast
  <1>2. T \subseteq Rect(win) /\ final' = final \cup T  BY <1>1, PlotAdds
  <1>3. cursor'.col = col /\ cursor'.row = cursor.row
    <2>. HIDE DEF col
    <2>. QED  BY <1>1, Types DEF Cursors
  <1>4. \/ col = cursor.col + 1 /\ ~(FirstPass /\ Even(cursor.col) /\ cursor.col < win.i_stop.x)
        \/ col = cursor.col + 2 /\ FirstPass /\ Even(cursor.col)
    BY <1>1, Item DEF CopiesRight
  <1>5. T = {q \in Rect(win) : Source(win, q) = Here}
    BY <1>1, AtPixelHalf, Item, TargetsAre
  <1>. HIDE DEF T, col
  <1>6. Here' = Pt(col, cursor.row)  BY <1>3 DEF Here
  <1>7. Here'.x = col /\ Here'.y = cursor.row  BY <1>6 DEF Pt
  <1>8. FirstPass => Even(col) \/ col = win.start.x \/ col > win.i_stop.x
    <2>1. cursor.col \in Int /\ win.i_stop.x \in Int  BY <1>1, Item
    <2>2. CASE Even(cursor.col) /\ col = cursor.col + 2  BY <2>1, <2>2 DEF Even
    <2>3. CASE ~Even(cursor.col) /\ col = cursor.col + 1  BY <2>1, <2>3 DEF Even
    <2>4. CASE ~(cursor.col < win.i_stop.x) /\ col = cursor.col + 1  BY <2>1, <2>4
    <2>. QED  BY <1>4, <2>2, <2>3, <2>4
  <1>9. CursorInv'
    <2>1. win' = win /\ (FirstPass' <=> FirstPass)
      BY <1>1 DEF list_vars, FirstPass, TwoPasses
    <2>2. /\ win.start.x <= col /\ win.start.y <= cursor.row
          /\ FirstPass => Even(cursor.row) \/ cursor.row = win.start.y
      BY <1>1, <1>4, Item DEF CursorInv
    <2>. QED  BY <1>3, <1>8, <2>1, <2>2 DEF CursorInv
  <1>10. ASSUME NEW s \in Half(win), Ahead(TwoPasses, win, Here, s), ~Ahead(TwoPasses, win, Here', s)
         PROVE  s = Here
    <2>1. s \in Points /\ s.x \in Int /\ s.y \in Int  BY <1>1, Item, HalfPoints, PointParts
    <2>2. AtOrAfter(s, Here) /\ ~AtOrAfter(s, Here') /\ (FirstPass => ~Odd(s))
      BY <1>1, <1>10, Item DEF Ahead, FirstPass
    <2>3. s.y = cursor.row /\ (s.x = cursor.col \/ (s.x = cursor.col + 1 /\ col = cursor.col + 2))
      BY <1>1, <1>4, <1>7, <2>1, <2>2, Item DEF AtOrAfter
    <2>4. ASSUME s.x = cursor.col + 1, col = cursor.col + 2  PROVE FALSE
      <3>1. FirstPass /\ Even(cursor.col) /\ cursor.col \in Int
        BY <1>1, <1>4, <2>4, Item
      <3>2. ~Even(s.x)  BY <2>4, <3>1 DEF Even
      <3>. QED  BY <2>2, <3>1, <3>2 DEF Odd
    <2>5. s.x = Here.x /\ s.y = Here.y  BY <1>1, <2>3, <2>4, Item
    <2>6. Here \in Points  BY Types
    <2>. QED  BY <2>1, <2>5, <2>6, PointParts
  <1>11. OpenFrom(TwoPasses, win, Here) \subseteq OpenFrom(TwoPasses, win, Here') \cup final'
    <2>1. \A s \in Half(win) : Ahead(TwoPasses, win, Here, s)
             => \/ Ahead(TwoPasses, win, Here', s)
                \/ \A q \in Rect(win) : Source(win, q) = s => q \in final'
      BY <1>2, <1>5, <1>10
    <2>. QED  BY <1>1, <2>1, Item, Moved
  <1>12. blank' \subseteq blank /\ final' \cap blank' = {}
    <2>1. final \cap blank = {}  BY DEF WInv, QuickInv
    <2>. QED  BY <1>1, <1>2, <2>1
  <1>13. Fine(TwoPasses, Quick, final', win)
    <2>1. FineWindow(TwoPasses, Quick, final \cup T, win)
      BY <1>1, Item, AtPixelHalf, PlottedWindow DEF T
    <2>. QED  BY <1>2, <2>1 DEF FineWindow
  <1>14. pc = "calc" /\ pc' = "calc"  BY <1>1
  <1>15. UNCHANGED <<calc_status, resume_data, quick_calc, list_vars, orbit_plot_pending>>
    BY <1>1
  <1>. QED  BY <1>2, <1>9, <1>11, <1>12, <1>13, <1>14, <1>15, ItemStep

\* Without Yields the pixel is done at once, or not begun.
LEMMA CalcPixelWhole == ASSUME ~Yields, IInv, WInv, CalcPixel  PROVE WInv'
  BY SkipPixelWhole, MandelbrotInterruptedWhole, PixelDoneWhole
  DEF CalcPixel, PixelSlice, PixelOrbit, PixelInterrupted

-----------------------------------------------------------------------------
\* The items.

LEMMA QuickType == ASSUME IInv  PROVE Quick \in BOOLEAN
  BY TwoPassesType DEF Quick, NoQuickZoom

LEMMA StartItemWhole == ASSUME IInv, WInv, StartItem  PROVE WInv'
  <1>. DEFINE list == StartedWorkList
              cut == SetSymmetry(Window(Head(list)), PopWorkListFront(list))
  <1>1. list \in Lists /\ list # <<>>  BY StartedList DEF StartItem
  <1>2. /\ win' = cut.win /\ work_list' = cut.list /\ cursor' = NewCursor(cut.win.begin)
        /\ work_list_started' = TRUE /\ work_item_active' = TRUE /\ resume_data' = <<>>
        /\ calc_status' = "IN_PROGRESS" /\ pc' = "calc" /\ pc = "turn"
        /\ quick_calc' = quick_calc /\ orbit_plot_pending' = orbit_plot_pending
        /\ final' = final /\ blank' = blank
    BY DEF StartItem, screen_vars
  <1>3. TodoList = list /\ Listed /\ ~ItemOut  BY <1>2 DEF TodoList, Listed, ItemOut
  <1>4. PopWorkListFront(list) = Tail(list)  BY DEF PopWorkListFront
  <1>5. FineList(TwoPasses, Quick, final, list) /\ Flow /\ QuickInv /\ final \subseteq Screen
    BY <1>3 DEF WInv
  <1>6. TwoPasses \in BOOLEAN /\ Quick \in BOOLEAN  BY TwoPassesType, QuickType
  <1>7. calc_status # "COMPLETED" /\ ~orbit_plot_pending  BY <1>2, <1>5 DEF Flow
  <1>8. Quick => Kept \subseteq final  BY <1>5, <1>7 DEF QuickInv
  <1>9. NoQuickZoom => Screen \subseteq final \cup OpenList(TwoPasses, list)
    BY <1>3 DEF WInv, Covered
  <1>. HIDE DEF list
  <1>10. /\ Head(list) \in Entries /\ Fine(TwoPasses, Quick, final, Head(list))
         /\ Tail(list) \in Lists /\ FineList(TwoPasses, Quick, final, Tail(list))
         /\ \A k \in 1 .. Len(Tail(list)) : Foremost(TwoPasses, Head(list), Tail(list)[k])
         /\ OpenList(TwoPasses, list)
               \subseteq Open(TwoPasses, Head(list)) \cup OpenList(TwoPasses, Tail(list))
    BY <1>1, <1>5, <1>6, FrontOfList
  <1>11. IsSplit(TwoPasses, Quick, final, Head(list), Tail(list), cut)
    BY <1>4, <1>6, <1>8, <1>10, SymmetryFine
  <1>. HIDE DEF cut
  <1>12. /\ cut.win \in Windows /\ cut.list \in Lists
         /\ FineWindow(TwoPasses, Quick, final, cut.win)
         /\ FineList(TwoPasses, Quick, final, cut.list)
         /\ \A k \in 1 .. Len(cut.list) : Beside(TwoPasses, cut.win, cut.list[k])
         /\ OpenList(TwoPasses, list) \subseteq OpenFrom(TwoPasses, cut.win, cut.win.begin)
                                                \cup OpenList(TwoPasses, cut.list)
    BY <1>10, <1>11 DEF IsSplit
  <1>13. TwoPasses' = TwoPasses /\ Quick' = Quick  BY <1>2 DEF TwoPasses, Quick
  <1>14. TodoList' = cut.list /\ ItemOut'  BY <1>2 DEF TodoList, ItemOut
  <1>15. Proper(TwoPasses, cut.win) /\ Shape(cut.win)
    BY <1>12, WindowShape DEF FineWindow, Fine
  <1>16. cut.win.begin \in Points /\ cut.win.begin = Pt(cut.win.begin.x, cut.win.begin.y)
    BY <1>15, PointParts DEF Shape
  <1>17. cursor'.row = cut.win.begin.y /\ cursor'.col = cut.win.begin.x
    BY <1>2 DEF NewCursor
  <1>18. Here' = cut.win.begin  BY <1>16, <1>17 DEF Here
  <1>19. Flow'  BY <1>2, <1>7 DEF Flow
  <1>20. QuickInv'
    BY <1>2, <1>5, <1>7, <1>13 DEF QuickInv
  <1>21. ItemInv'
    <2>1. CursorInv'
      <3>1. cut.win.start.x <= cut.win.begin.x /\ cut.win.start.y <= cut.win.begin.y
        BY <1>15, Corners
      <3>2. TwoPasses /\ cut.win.pass = 0 => Direct(cut.win, cut.win.begin)
        BY <1>15 DEF Proper
      <3>. QED  BY <1>2, <1>13, <1>17, <3>1, <3>2 DEF CursorInv, FirstPass, Direct
    <2>. QED  BY <1>2, <1>12, <1>13, <2>1 DEF ItemInv
  <1>22. NoQuickZoom => Covered'
    BY <1>2, <1>9, <1>12, <1>13, <1>14, <1>18 DEF Covered
  <1>. QED
    BY <1>2, <1>5, <1>12, <1>13, <1>14, <1>19, <1>20, <1>21, <1>22 DEF WInv

\* An item is continued only while its orbit is drawn.
LEMMA ContinueItemWhole == ASSUME WInv, ContinueItem  PROVE FALSE
  BY DEF WInv, Flow, ContinueItem

LEMMA DriveOrbitPlotWhole == ASSUME WInv, DriveOrbitPlot  PROVE FALSE
  BY DEF WInv, Flow, DriveOrbitPlot

-----------------------------------------------------------------------------
\* The ends of the passes.

\* The entry that goes back covers what is left of the item.
LEMMA InterruptedWhole ==
    ASSUME IInv, WInv, pc = "run_tail"
    PROVE  /\ InterruptedEntry \in Entries
           /\ Fine(TwoPasses, Quick, final, InterruptedEntry)
           /\ OpenFrom(TwoPasses, win, Here) \subseteq Open(TwoPasses, InterruptedEntry)
           /\ \A g : Beside(TwoPasses, win, g) => Beside(TwoPasses, InterruptedEntry, g)
  <1>. DEFINE r == IF FirstPass THEN win.start.y ELSE cursor.row
              s == IF Mirrors(win, "y") THEN win.start.y + win.stop.y - r ELSE win.stop.y
              m == InterruptedEntry
  <1>1. ItemOut  BY DEF ItemOut
  <1>2. ResumePoint = Here /\ cursor.row <= win.i_stop.y /\ cursor.col <= win.i_stop.x
    BY DEF WInv, Flow
  <1>3. cursor.resume_row = cursor.row /\ cursor.resume_col = cursor.col
    BY <1>2 DEF ResumePoint, Here, Pt
  <1>4. Here \in Half(win) /\ (TwoPasses /\ win.pass = 0 => Direct(win, Here))
    BY <1>1, <1>2, AtPixelHalf
  <1>5. /\ win.start.y \in Int /\ win.stop.y \in Int /\ win.start.y <= win.stop.y
        /\ win.i_stop.y \in Int /\ cursor.row \in Int /\ win.start.y <= cursor.row
        /\ cursor.row <= win.i_stop.y /\ win.i_stop.y <= win.stop.y
    <2>1. Shape(win) /\ Proper(TwoPasses, win) /\ win.i_stop.y = HalfStop(win, "y")  BY <1>1, Item
    <2>2. win.start.y \in Int /\ win.stop.y \in Int /\ HalfStop(win, "y") \in Int
          /\ win.start.y <= HalfStop(win, "y") /\ HalfStop(win, "y") <= win.stop.y
      BY <2>1, HalfStops
    <2>. QED  BY <1>1, <1>2, <2>1, <2>2, Item DEF CursorInv
  <1>6. r \in Int /\ win.start.y <= r /\ r <= Here.y /\ (~FirstPass => r = cursor.row)
        /\ (FirstPass => r = win.start.y)
    BY <1>1, <1>5, Item
  <1>7. win.i_stop.y # win.stop.y => Mirrors(win, "y")
    BY <1>1, Item DEF HalfStop
  <1>8. Mirrors(win, "y") /\ win.i_stop.y = win.stop.y => win.start.y = win.stop.y
    <2>1. Mirrors(win, "y") => win.i_stop.y = (win.start.y + win.stop.y) \div 2
      BY <1>1, Item DEF HalfStop
    <2>2. \A a, b \in Int : (a + b) \div 2 = b /\ a <= b => a = b  OBVIOUS
    <2>. QED  BY <1>5, <2>1, <2>2
  <1>. HIDE DEF r
  <1>9. ~FirstPass => StopRowForResume = s
    <2>1. StopRowForResume = IF win.i_stop.y # win.stop.y THEN win.stop.y - (cursor.row - win.start.y)
                             ELSE win.stop.y
      BY <1>3 DEF StopRowForResume
    <2>2. CASE win.i_stop.y # win.stop.y
      BY <1>5, <1>6, <1>7, <2>1, <2>2
    <2>3. CASE win.i_stop.y = win.stop.y /\ Mirrors(win, "y")
      BY <1>5, <1>6, <1>8, <2>1, <2>3
    <2>4. CASE win.i_stop.y = win.stop.y /\ ~Mirrors(win, "y")
      BY <2>1, <2>4
    <2>. QED  BY <2>2, <2>3, <2>4
  <1>10. FirstPass => s = win.stop.y
    BY <1>5, <1>6
  <1>. HIDE DEF s
  <1>11. m \in Entries  BY InterruptedEntryType
  <1>12. win.start = Pt(win.start.x, win.start.y) /\ win.stop = Pt(win.stop.x, win.stop.y)
    BY <1>1, Item, PointParts DEF Shape
  <1>13. /\ m.start = Pt(win.start.x, r) /\ m.stop = Pt(win.stop.x, s)
         /\ m.begin = Here /\ m.pass = win.pass /\ m.symmetry = win.symmetry
    <2>1. CASE FirstPass
      <3>1. m = Entry(win.start, win.stop, ResumePoint, 0, win.symmetry)
        BY <2>1 DEF InterruptedEntry
      <3>2. r = win.start.y /\ s = win.stop.y /\ win.pass = 0  BY <1>6, <1>10, <2>1 DEF FirstPass
      <3>. QED  BY <1>2, <1>12, <3>1, <3>2 DEF Entry
    <2>2. CASE ~FirstPass
      <3>1. m = Entry(Pt(win.start.x, cursor.resume_row), Pt(win.stop.x, StopRowForResume),
                      ResumePoint, win.pass, win.symmetry)
        BY <2>2 DEF InterruptedEntry
      <3>. QED  BY <1>2, <1>3, <1>6, <1>9, <2>2, <3>1 DEF Entry
    <2>. QED  BY <2>1, <2>2
  <1>. HIDE DEF m
  <1>14. TwoPasses /\ win.pass = 0 => r = win.start.y /\ Direct(win, Here)
    BY <1>4, <1>6 DEF FirstPass
  <1>15. s = IF Mirrors(win, "y") THEN win.start.y + win.stop.y - r ELSE win.stop.y
    BY DEF s
  <1>16. /\ Fine(TwoPasses, Quick, final, m)
         /\ OpenFrom(TwoPasses, win, Here) \subseteq Open(TwoPasses, m)
         /\ \A g : Beside(TwoPasses, win, g) => Beside(TwoPasses, m, g)
    BY <1>1, <1>4, <1>6, <1>11, <1>13, <1>14, <1>15, Item, Restarted
  <1>. QED  BY <1>11, <1>16 DEF m

LEMMA RunTailWhole == ASSUME IInv, WInv, RunTail  PROVE WInv'
  <1>. DEFINE m == InterruptedEntry
              l == AddWorkList(work_list, m)
  <1>1. ItemOut /\ pc = "run_tail" /\ calc_interrupted /\ ~orbit_plot_pending
    BY DEF RunTail, ItemOut, WInv, Flow
  <1>2. Interrupted /\ calc_interrupted'  BY <1>1, PollType DEF RunTail, Interrupted
  <1>3. /\ work_list' = l /\ pc' = "ui_poll"
        /\ UNCHANGED <<image_vars, work_list_started, work_item_active, win, pass_vars, screen_vars>>
    BY <1>1, <1>2 DEF RunTail
  <1>4. m \in Entries /\ Fine(TwoPasses, Quick, final, m)
        /\ OpenFrom(TwoPasses, win, Here) \subseteq Open(TwoPasses, m)
        /\ \A k \in 1 .. Len(work_list) : Beside(TwoPasses, m, work_list[k])
    BY <1>1, Item, InterruptedWhole
  <1>5. ~ListFull(work_list)
    <2>1. Len(work_list) < MaxCalcWork  BY <1>1, Item DEF IInv, RoomForItem
    <2>2. Len(work_list) \in Nat /\ MaxCalcWork \in Nat  BY Types DEF Lists
    <2>. QED  BY <2>1, <2>2 DEF ListFull
  <1>6. /\ FineList(TwoPasses, Quick, final, l)
        /\ OpenList(TwoPasses, work_list) \cup Open(TwoPasses, m) \subseteq OpenList(TwoPasses, l)
    <2>1. work_list \in Seq(Entries)  BY Types DEF Lists
    <2>. QED  BY <1>1, <1>4, <1>5, <2>1, Item, AddFine
  <1>. HIDE DEF l, m
  <1>7. TwoPasses' = TwoPasses /\ Quick' = Quick  BY <1>3 DEF image_vars, TwoPasses, Quick
  <1>8. TodoList' = l /\ ~ItemOut'  BY <1>3 DEF TodoList, ItemOut
  <1>9. Flow'
    <2>1. calc_status = "IN_PROGRESS" /\ work_list_started /\ resume_data = <<>>  BY <1>1, Item
    <2>. QED  BY <1>1, <1>2, <1>3, <2>1 DEF Flow, image_vars, pass_vars
  <1>10. QuickInv'
    BY <1>3, <1>7 DEF WInv, QuickInv, image_vars, screen_vars
  <1>11. NoQuickZoom => Covered'
    BY <1>1, <1>3, <1>4, <1>6, <1>7, <1>8, Item DEF Covered, screen_vars
  <1>12. calc_status' # "COMPLETED" /\ final' \subseteq Screen
    BY <1>1, <1>3, Item DEF WInv, image_vars, screen_vars
  <1>. QED
    BY <1>3, <1>6, <1>7, <1>8, <1>9, <1>10, <1>11, <1>12 DEF WInv, screen_vars

\* An item is done with list l: what is neither final nor on the list is not there.
LEMMA FinishedWhole ==
    ASSUME IInv, WInv, pc = "calc", NEW l \in Lists, FinishItem(l),
           UNCHANGED <<resume_data, quick_calc, work_list_started, orbit_plot_pending, screen_vars>>,
           FineList(TwoPasses, Quick, final, l),
           NoQuickZoom => Screen \subseteq final \cup OpenList(TwoPasses, l)
    PROVE  WInv'
  <1>1. ItemOut  BY DEF ItemOut
  <1>2. calc_status = "IN_PROGRESS" /\ work_list_started /\ resume_data = <<>> /\ ~orbit_plot_pending
    BY <1>1, Item
  <1>3. /\ work_list' = l /\ work_item_active' = FALSE /\ final' = final /\ blank' = blank
        /\ \/ l = <<>> /\ calc_status' = "COMPLETED" /\ pc' = "menu"
           \/ l # <<>> /\ calc_status' = "IN_PROGRESS" /\ pc' = "ui_poll"
    BY <1>2 DEF FinishItem, screen_vars
  <1>4. TwoPasses' = TwoPasses /\ Quick' = Quick  BY DEF TwoPasses, Quick
  <1>5. ~ItemOut'  BY <1>3 DEF ItemOut
  <1>6. Flow'  BY <1>2, <1>3 DEF Flow
  <1>7. QuickInv'
    <2>1. QuickInv  BY DEF WInv
    <2>. QED  BY <1>2, <1>3, <1>4, <2>1 DEF QuickInv
  <1>8. final' \subseteq Screen  BY <1>3 DEF WInv
  <1>9. CASE l = <<>>
    <2>1. OpenList(TwoPasses, l) = {}  BY <1>9, EmptyFine
    <2>2. NoQuickZoom => final' = Screen  BY <1>3, <1>8, <2>1
    <2>3. ~Listed'  BY <1>3, <1>9 DEF Listed
    <2>. QED  BY <1>5, <1>6, <1>7, <1>8, <2>2, <2>3 DEF WInv
  <1>10. CASE l # <<>>
    <2>1. TodoList' = l  BY <1>3, <1>10 DEF TodoList
    <2>2. NoQuickZoom => Covered'  BY <1>3, <1>4, <1>5, <2>1 DEF Covered
    <2>3. calc_status' # "COMPLETED"  BY <1>3, <1>10
    <2>. QED  BY <1>3, <1>4, <1>5, <1>6, <1>7, <1>8, <2>1, <2>2, <2>3 DEF WInv
  <1>. QED  BY <1>9, <1>10

LEMMA LastPassDoneWhole == ASSUME IInv, WInv, LastPassDone  PROVE WInv'
  <1>1. /\ pc = "calc" /\ cursor.row > win.i_stop.y /\ ~FirstPass /\ FinishItem(work_list)
        /\ UNCHANGED <<resume_data, quick_calc, work_list_started, orbit_plot_pending, screen_vars>>
    BY DEF LastPassDone, PassDone, pass_vars
  <1>2. ItemOut  BY <1>1 DEF ItemOut
  <1>3. OpenFrom(TwoPasses, win, Here) \subseteq {}
    <2>1. ASSUME NEW q \in Rect(win), Ahead(TwoPasses, win, Here, Source(win, q))  PROVE FALSE
      <3>. DEFINE s == Source(win, q)
      <3>1. s \in Half(win)  BY <1>2, Item, SourceInHalf
      <3>. HIDE DEF s
      <3>2. s.y \in Int /\ s.y <= win.i_stop.y  BY <1>2, <3>1, Item, HalfPoints, PointParts
      <3>3. AtOrAfter(s, Here)  BY <1>1, <1>2, <2>1, Item DEF Ahead, FirstPass, s
      <3>. QED  BY <1>1, <1>2, <3>2, <3>3, Item DEF AtOrAfter
    <2>. QED  BY <2>1 DEF OpenFrom
  <1>4. NoQuickZoom => Screen \subseteq final \cup OpenList(TwoPasses, work_list)
    BY <1>2, <1>3, Item
  <1>5. work_list \in Lists /\ FineList(TwoPasses, Quick, final, work_list)  BY <1>2, Item
  <1>. QED  BY <1>1, <1>4, <1>5, FinishedWhole

LEMMA FirstPassDoneWhole == ASSUME IInv, WInv, FirstPassDone  PROVE WInv'
  <1>1. /\ pc = "calc" /\ cursor.row > win.i_stop.y /\ FirstPass /\ ItemOut
        /\ UNCHANGED <<resume_data, quick_calc, work_list_started, orbit_plot_pending, input_vars,
                       screen_vars>>
    BY DEF FirstPassDone, PassDone, ItemOut
  <1>2. TwoPasses = TRUE /\ win.pass = 0
    BY <1>1, TwoPassesType DEF FirstPass
  <1>3. ~quick_calc /\ Quick = FALSE /\ Quick \in BOOLEAN
    BY <1>2, QuickType DEF TwoPasses, Quick
  <1>4. /\ win \in Windows /\ FineWindow(TRUE, Quick, final, win) /\ Here \in Points
        /\ Here.y > HalfStop(win, "y") /\ Shape(win)
    BY <1>1, <1>2, Item
  <1>5. CASE work_list = <<>>
    <2>1. /\ win' = [win EXCEPT !.pass = 1, !.begin = win.start]
          /\ cursor' = [cursor EXCEPT !.row = win.start.y, !.col = win.start.x]
          /\ UNCHANGED <<calc_status, work_list, work_item_active, pc>>
      BY <1>5 DEF FirstPassDone
    <2>2. win' \in Windows
      <3>1. \A w \in Windows, s \in Points : [w EXCEPT !.begin = s] \in Windows  BY DEF Windows
      <3>2. [win EXCEPT !.pass = 1] \in Windows  BY <1>4 DEF Windows
      <3>3. win.start \in Points  BY <1>4 DEF Shape
      <3>. QED  BY <2>1, <3>1, <3>2, <3>3
    <2>3. /\ win'.start = win.start /\ win'.stop = win.stop /\ win'.begin = win.start /\ win'.pass = 1
          /\ win'.symmetry = win.symmetry /\ win'.i_stop = win.i_stop /\ win'.plot = win.plot
      BY <1>4, <2>1 DEF Windows
    <2>4. Shape(win')  BY <2>2, WindowShape
    <2>5. /\ Fine(TRUE, Quick, final, win') /\ Decided(win')
          /\ HalfStop(win', "x") = HalfStop(win, "x") /\ HalfStop(win', "y") = HalfStop(win, "y")
          /\ PlotFor(win') = PlotFor(win)
          /\ OpenFrom(TRUE, win, Here) \subseteq Open(TRUE, win')
          /\ \A g : Beside(TRUE, win, g) => Beside(TRUE, win', g)
      BY <1>2, <1>3, <1>4, <2>3, <2>4, SecondPass
    <2>6. FineWindow(TRUE, Quick, final, win')
      BY <1>4, <2>3, <2>5 DEF FineWindow, Ready
    <2>7. cursor'.row = win.start.y /\ cursor'.col = win.start.x
      BY <2>1, Types DEF Cursors
    <2>8. win.start.x \in Int /\ win.start.y \in Int /\ win.start = Pt(win.start.x, win.start.y)
      BY <1>4, PointParts DEF Shape
    <2>9. Here' = win'.begin  BY <2>3, <2>7, <2>8 DEF Here
    <2>10. TwoPasses' = TRUE /\ Quick' = Quick  BY <1>1, <1>2 DEF TwoPasses, Quick
    <2>11. TodoList' = work_list /\ ItemOut' /\ pc' = "calc"
      BY <1>1, <2>1 DEF TodoList, ItemOut
    <2>12. Flow'
      <3>1. Flow /\ calc_status = "IN_PROGRESS" /\ work_list_started /\ resume_data = <<>>
            /\ ~orbit_plot_pending
        BY <1>1, Item DEF WInv
      <3>. QED  BY <1>1, <2>1, <2>11, <3>1 DEF Flow
    <2>13. QuickInv'  BY <1>1, <2>1, <2>10 DEF WInv, QuickInv, screen_vars
    <2>14. ItemInv'
      <3>1. CursorInv'
        BY <2>3, <2>7, <2>8, <2>10 DEF CursorInv, FirstPass
      <3>2. \A k \in 1 .. Len(work_list) : Beside(TRUE, win', work_list[k])
        BY <1>1, <1>2, <2>5, Item
      <3>. QED  BY <1>1, <2>1, <2>6, <2>10, <3>1, <3>2 DEF ItemInv, screen_vars
    <2>15. NoQuickZoom => Covered'
      BY <1>1, <1>2, <2>1, <2>5, <2>9, <2>10, <2>11, Item DEF Covered, Open, screen_vars
    <2>16. FineList(TwoPasses, Quick, final, work_list) /\ calc_status' # "COMPLETED"
           /\ final' = final /\ final \subseteq Screen
      BY <1>1, <2>1, Item DEF screen_vars, WInv
    <2>. QED
      BY <1>2, <2>1, <2>10, <2>11, <2>12, <2>13, <2>14, <2>15, <2>16 DEF WInv
  <1>6. CASE work_list # <<>>
    <2>. DEFINE m == Entry(win.start, win.stop, win.start, 1, win.symmetry)
                l == AddWorkList(work_list, m)
    <2>1. m \in Entries  BY Types DEF Entry, Entries, Windows
    <2>2. /\ m.start = win.start /\ m.stop = win.stop /\ m.begin = win.start /\ m.pass = 1
          /\ m.symmetry = win.symmetry
      BY DEF Entry
    <2>3. FinishItem(l)  BY <1>6 DEF FirstPassDone
    <2>. HIDE DEF m
    <2>4. /\ Fine(TRUE, Quick, final, m) /\ OpenFrom(TRUE, win, Here) \subseteq Open(TRUE, m)
          /\ \A g : Beside(TRUE, win, g) => Beside(TRUE, m, g)
      BY <1>2, <1>3, <1>4, <2>1, <2>2, EntryShape, SecondPass
    <2>5. ~ListFull(work_list)
      <3>1. Len(work_list) < MaxCalcWork  BY <1>1, Item DEF IInv, RoomForItem
      <3>2. Len(work_list) \in Nat /\ MaxCalcWork \in Nat  BY Types DEF Lists
      <3>. QED  BY <3>1, <3>2 DEF ListFull
    <2>6. l \in Lists  BY <2>1, Types, AddWorkListType DEF Lists
    <2>7. \A k \in 1 .. Len(work_list) : Beside(TRUE, m, work_list[k])
      BY <1>1, <1>2, <2>4, Item
    <2>8. /\ FineList(TRUE, Quick, final, l)
          /\ OpenList(TRUE, work_list) \cup Open(TRUE, m) \subseteq OpenList(TRUE, l)
      <3>1. work_list \in Seq(Entries) /\ FineList(TRUE, Quick, final, work_list)
        BY <1>1, <1>2, Types, Item DEF Lists
      <3>. QED  BY <1>3, <2>1, <2>4, <2>5, <2>7, <3>1, AddFine
    <2>. HIDE DEF l
    <2>9. NoQuickZoom => Screen \subseteq final \cup OpenList(TRUE, l)
      BY <1>1, <1>2, <2>4, <2>8, Item
    <2>10. UNCHANGED <<resume_data, quick_calc, work_list_started, orbit_plot_pending, screen_vars>>
      BY <1>1
    <2>11. pc = "calc"  BY <1>1
    <2>. QED  BY <1>2, <2>3, <2>6, <2>8, <2>9, <2>10, <2>11, FinishedWhole
  <1>. QED  BY <1>5, <1>6

-----------------------------------------------------------------------------
\* The loop, the menu and the user.

LEMMA UiPollWhole == ASSUME IInv, WInv, UiPoll  PROVE WInv'
  <1>1. /\ pc = "ui_poll" /\ quick_calc' = quick_calc /\ resuming' = resuming
        /\ work_list' = work_list /\ work_list_started' = work_list_started
        /\ orbit_plot_pending' = orbit_plot_pending /\ cursor' = cursor /\ win' = win
        /\ final' = final /\ blank' = blank
    BY DEF UiPoll, pass_vars, screen_vars
  <1>2. Flow /\ QuickInv /\ final \subseteq Screen /\ Listed /\ TodoList = work_list /\ ~ItemOut
    BY <1>1 DEF WInv, Listed, TodoList, ItemOut
  <1>3. FineList(TwoPasses, Quick, final, work_list)
        /\ (NoQuickZoom => Screen \subseteq final \cup OpenList(TwoPasses, work_list))
    BY <1>2 DEF WInv, Covered
  <1>4. calc_status = "IN_PROGRESS" /\ work_list_started /\ resume_data = <<>> /\ ~orbit_plot_pending
        /\ (work_item_active => calc_interrupted)
    BY <1>1, <1>2 DEF Flow
  <1>5. TwoPasses' = TwoPasses /\ Quick' = Quick  BY <1>1 DEF TwoPasses, Quick
  <1>6. CASE Interrupted /\ work_list = <<>>
    <2>1. calc_status' = "COMPLETED" /\ resume_data' = <<>> /\ pc' = "menu"
      BY <1>4, <1>6 DEF UiPoll, Suspend
    <2>2. OpenList(TwoPasses, work_list) = {}  BY <1>6, EmptyFine
    <2>3. NoQuickZoom => final' = Screen  BY <1>1, <1>2, <1>3, <2>2
    <2>4. Flow'  BY <1>1, <1>4, <2>1 DEF Flow
    <2>5. QuickInv'  BY <1>1, <1>2, <1>4, <1>5, <2>1 DEF QuickInv
    <2>6. ~Listed' /\ ~ItemOut'  BY <2>1 DEF Listed, ItemOut
    <2>. QED  BY <1>1, <1>2, <2>3, <2>4, <2>5, <2>6 DEF WInv
  <1>7. CASE Interrupted /\ work_list # <<>>
    <2>1. calc_status' = "RESUMABLE" /\ resume_data' = work_list /\ pc' = "menu"
      BY <1>4, <1>7 DEF UiPoll, Suspend
    <2>2. TodoList' = work_list /\ ~ItemOut'  BY <1>7, <2>1 DEF TodoList, ItemOut
    <2>3. Flow'  BY <1>1, <1>4, <2>1 DEF Flow
    <2>4. QuickInv'  BY <1>1, <1>2, <1>4, <1>5, <2>1 DEF QuickInv
    <2>5. NoQuickZoom => Covered'  BY <1>1, <1>3, <1>5, <2>2 DEF Covered
    <2>6. calc_status' # "COMPLETED"  BY <2>1
    <2>. QED  BY <1>1, <1>2, <1>3, <1>5, <2>2, <2>3, <2>4, <2>5, <2>6 DEF WInv
  <1>8. CASE ~Interrupted
    <2>1. pc' = "turn" /\ resume_data' = <<>> /\ calc_status' = "IN_PROGRESS"
          /\ work_item_active' = work_item_active
      BY <1>4, <1>8 DEF UiPoll
    <2>2. ~work_item_active  BY <1>4, <1>8 DEF Interrupted
    <2>3. TodoList' = work_list /\ ~ItemOut'
      BY <1>1, <1>4, <2>1 DEF TodoList, StartedWorkList, ItemOut
    <2>4. Flow'
      <3>1. work_item_active' = FALSE  BY <2>1, <2>2, Types DEF IInv, TypeOK
      <3>. QED  BY <1>1, <1>4, <2>1, <3>1 DEF Flow
    <2>5. QuickInv'  BY <1>1, <1>2, <1>4, <1>5, <2>1 DEF QuickInv
    <2>6. NoQuickZoom => Covered'  BY <1>1, <1>3, <1>5, <2>3 DEF Covered
    <2>7. calc_status' # "COMPLETED"  BY <2>1
    <2>. QED  BY <1>1, <1>2, <1>3, <1>5, <2>3, <2>4, <2>5, <2>6, <2>7 DEF WInv
  <1>. QED  BY <1>6, <1>7, <1>8

LEMMA CalcFractWhole == ASSUME IInv, WInv, CalcFract  PROVE WInv'
  <1>1. /\ pc \in {"start", "menu"} /\ pc' = "turn"
        /\ resuming' = (calc_status = "RESUMABLE")
        /\ resume_data' = IF resuming' THEN resume_data ELSE <<>>
        /\ final' = IF resuming' THEN final ELSE {}
        /\ blank' = IF resuming' THEN blank ELSE Screen
        /\ work_list_started' = FALSE /\ work_item_active' = FALSE /\ orbit_plot_pending' = FALSE
        /\ calc_status' = calc_status /\ quick_calc' = quick_calc
    BY DEF CalcFract
  <1>2. Flow /\ QuickInv /\ final \subseteq Screen  BY DEF WInv
  <1>3. calc_status = "PARAMS_CHANGED" \/ calc_status = "RESUMABLE"
    <2>1. pc = "start" => calc_status \in {"PARAMS_CHANGED", "RESUMABLE"}  BY <1>2 DEF Flow
    <2>2. pc = "start" \/ calc_status = "RESUMABLE"  BY DEF CalcFract
    <2>. QED  BY <2>1, <2>2
  <1>4. TwoPasses' = TwoPasses /\ Quick' = Quick /\ TwoPasses \in BOOLEAN /\ Quick \in BOOLEAN
    BY <1>1, TwoPassesType, QuickType DEF TwoPasses, Quick
  <1>5. ~ItemOut' /\ Listed'  BY <1>1 DEF ItemOut, Listed
  <1>6. Flow'
    <2>1. calc_status = "PARAMS_CHANGED" => ~resuming' /\ final' = {}  BY <1>1
    <2>. QED  BY <1>1, <1>3, <2>1 DEF Flow
  <1>7. calc_status' # "COMPLETED"  BY <1>1, <1>3
  <1>8. CASE calc_status = "RESUMABLE"
    <2>1. resuming' /\ resume_data' = resume_data /\ final' = final /\ blank' = blank
      BY <1>1, <1>8
    <2>2. TodoList' = TodoList /\ Listed /\ ~ItemOut
      BY <1>1, <1>8, <2>1 DEF TodoList, StartedWorkList, Listed, ItemOut
    <2>3. QuickInv'  BY <1>1, <1>2, <1>4, <2>1 DEF QuickInv
    <2>4. NoQuickZoom => Covered'
      BY <1>4, <1>5, <2>1, <2>2 DEF WInv, Covered
    <2>5. FineList(TwoPasses, Quick, final, TodoList)  BY <2>2 DEF WInv
    <2>. QED  BY <1>2, <1>4, <1>5, <1>6, <1>7, <2>1, <2>2, <2>3, <2>4, <2>5 DEF WInv
  <1>9. CASE calc_status = "PARAMS_CHANGED"
    <2>1. ~resuming' /\ resume_data' = <<>> /\ final' = {} /\ blank' = Screen
      BY <1>1, <1>9
    <2>2. TodoList' = <<WholeScreen>>
      BY <1>1, <2>1 DEF TodoList, StartedWorkList
    <2>3. ~Quick  BY <1>2, <1>9 DEF QuickInv
    <2>4. QuickInv'  BY <1>1, <1>2, <1>4, <2>1, <2>3 DEF QuickInv
    <2>5. /\ FineList(TwoPasses, Quick, final', <<WholeScreen>>)
          /\ Screen \subseteq OpenList(TwoPasses, <<WholeScreen>>)
      BY <1>4, <2>1, <2>3, WholeFine
    <2>6. NoQuickZoom => Covered'
      BY <1>4, <1>5, <2>1, <2>2, <2>5 DEF Covered
    <2>7. final' \subseteq Screen  BY <2>1
    <2>. QED  BY <1>4, <1>5, <1>6, <1>7, <2>2, <2>4, <2>5, <2>6, <2>7 DEF WInv
  <1>. QED  BY <1>3, <1>8, <1>9

LEMMA MenuKeyWhole == ASSUME IInv, WInv, MenuKey  PROVE WInv'
  <1>1. /\ pc = "menu"
        /\ NoCommand \/ Redraw \/ Zoom \/ MoreIterations
        /\ UNCHANGED <<resuming, resume_data, list_vars, pass_vars, calc_interrupted, blank>>
    BY DEF MenuKey
  <1>2. Flow /\ QuickInv /\ final \subseteq Screen /\ ~ItemOut
    BY <1>1 DEF WInv, ItemOut
  <1>3. calc_status \in {"RESUMABLE", "COMPLETED"} /\ ~orbit_plot_pending
        /\ (calc_status = "COMPLETED" => resume_data = <<>>)
    BY <1>1, <1>2 DEF Flow
  <1>4. UNCHANGED <<resuming, resume_data, list_vars, orbit_plot_pending, blank>>
    BY <1>1 DEF pass_vars
  <1>5. CASE NoCommand
    <2>1. quick_calc' = StillQuick /\ calc_status' = calc_status /\ pc' = pc /\ final' = final
      BY <1>5 DEF NoCommand
    <2>2. ~ItemOut' /\ (Listed' <=> Listed)
      BY <1>1, <2>1 DEF ItemOut, Listed
    <2>3. Flow'  BY <1>1, <1>3, <1>4, <2>1 DEF Flow
    <2>4. QuickInv'
      BY <1>2, <1>4, <2>1 DEF QuickInv, Quick, StillQuick
    <2>5. CASE calc_status = "COMPLETED"
      <3>1. ~Listed'  BY <1>1, <2>1, <2>5 DEF Listed
      <3>2. NoQuickZoom => final' = Screen  BY <2>1, <2>5 DEF WInv
      <3>. QED  BY <1>2, <2>1, <2>2, <2>3, <2>4, <3>1, <3>2 DEF WInv
    <2>6. CASE calc_status = "RESUMABLE"
      <3>1. quick_calc' = quick_calc
        BY <2>1, <2>6, TwoPassesType DEF StillQuick
      <3>2. TwoPasses' = TwoPasses /\ Quick' = Quick  BY <3>1 DEF TwoPasses, Quick
      <3>3. TodoList' = TodoList /\ Listed
        BY <1>1, <1>4, <2>1, <2>6 DEF TodoList, Listed
      <3>4. NoQuickZoom => Covered'
        BY <1>2, <2>1, <2>2, <3>2, <3>3 DEF WInv, Covered
      <3>5. FineList(TwoPasses, Quick, final, TodoList)  BY <3>3 DEF WInv
      <3>6. calc_status' # "COMPLETED"  BY <2>1, <2>6
      <3>. QED  BY <1>2, <2>1, <2>2, <2>3, <2>4, <3>2, <3>3, <3>4, <3>5, <3>6 DEF WInv
    <2>. QED  BY <1>3, <2>5, <2>6
  <1>6. ASSUME calc_status' = "PARAMS_CHANGED", pc' = "start", final' = final,
               quick_calc' => quick_calc, Quick' => FALSE
        PROVE  WInv'
    <2>1. ~ItemOut' /\ ~Listed'  BY <1>6 DEF ItemOut, Listed
    <2>2. Flow'  BY <1>3, <1>4, <1>6 DEF Flow
    <2>3. QuickInv'  BY <1>2, <1>4, <1>6 DEF QuickInv
    <2>. QED  BY <1>2, <1>6, <2>1, <2>2, <2>3 DEF WInv
  <1>7. CASE Redraw
    <2>1. quick_calc' = FALSE  BY <1>7 DEF Redraw
    <2>2. ~Quick'  BY <2>1 DEF Quick
    <2>. QED  BY <1>6, <1>7, <2>1, <2>2 DEF Redraw
  <1>8. CASE Zoom
    <2>1. quick_calc' => quick_calc  BY <1>8 DEF Zoom, StillQuick
    <2>2. quick_calc' => {"zoom", "more_iterations"} \subseteq Commands
      BY <1>2, <1>8, <2>1 DEF Zoom, QuickInv
    <2>3. ~Quick'  BY <2>2 DEF Quick, NoQuickZoom
    <2>. QED  BY <1>6, <1>8, <2>1, <2>3 DEF Zoom
  <1>9. CASE MoreIterations
    <2>1. /\ "more_iterations" \in Commands /\ calc_status = "COMPLETED" /\ quick_calc' = TRUE
          /\ calc_status' = "RESUMABLE" /\ pc' = "start" /\ final' = final \cap Kept
      BY <1>9 DEF MoreIterations
    <2>2. ~ItemOut' /\ Listed' /\ TwoPasses' = FALSE /\ Quick' = NoQuickZoom
      BY <2>1 DEF ItemOut, Listed, TwoPasses, Quick, NoQuickZoom
    <2>3. resume_data' = <<>> /\ blank' = blank  BY <1>3, <1>4, <2>1
    <2>4. TodoList' = <<WholeScreen>>  BY <2>1, <2>3 DEF TodoList
    <2>5. Flow'  BY <1>4, <1>3, <2>1, <2>3 DEF Flow
    <2>6. NoQuickZoom => final = Screen  BY <2>1 DEF WInv
    <2>7. QuickInv'
      <3>1. final \cap blank = {} /\ blank \subseteq Screen /\ Kept \subseteq Screen
        BY <1>2, Types, EngineAssumption DEF QuickInv
      <3>2. NoQuickZoom => blank' = {} /\ Kept \subseteq final'
        BY <2>1, <2>3, <2>6, <3>1
      <3>3. final' \cap blank' = {}  BY <2>1, <2>3, <3>1
      <3>. QED  BY <2>1, <2>2, <3>2, <3>3 DEF QuickInv
    <2>8. NoQuickZoom \in BOOLEAN  BY DEF NoQuickZoom
    <2>9. /\ FineList(FALSE, NoQuickZoom, final', <<WholeScreen>>)
          /\ Screen \subseteq OpenList(FALSE, <<WholeScreen>>)
      BY <2>1, <2>8, WholeFine
    <2>10. NoQuickZoom => Covered'
      BY <2>2, <2>4, <2>9 DEF Covered
    <2>11. final' \subseteq Screen /\ calc_status' # "COMPLETED"  BY <1>2, <2>1
    <2>. QED  BY <2>2, <2>4, <2>5, <2>7, <2>9, <2>10, <2>11 DEF WInv
  <1>. QED  BY <1>1, <1>5, <1>7, <1>8, <1>9

LEMMA OtherWhole ==
    ASSUME IInv, WInv,
           UNCHANGED <<image_vars, list_vars, pass_vars, calc_interrupted, pc, screen_vars>>
    PROVE  WInv'
  <1>1. TwoPasses' = TwoPasses /\ Quick' = Quick /\ Here' = Here /\ ResumePoint' = ResumePoint
    BY DEF image_vars, pass_vars, TwoPasses, Quick, Here, ResumePoint
  <1>2. (Listed' <=> Listed) /\ TodoList' = TodoList /\ (ItemOut' <=> ItemOut)
    BY DEF image_vars, list_vars, Listed, TodoList, StartedWorkList, ItemOut
  <1>3. Flow'  BY <1>1 DEF WInv, Flow, image_vars, list_vars, pass_vars, screen_vars
  <1>4. QuickInv'  BY <1>1 DEF WInv, QuickInv, image_vars, screen_vars
  <1>5. ItemOut => ItemInv'
    BY <1>1 DEF WInv, ItemInv, CursorInv, FirstPass, list_vars, pass_vars, screen_vars
  <1>6. Listed /\ NoQuickZoom => Covered'
    BY <1>1, <1>2 DEF WInv, Covered, screen_vars, list_vars
  <1>7. final' = final /\ calc_status' = calc_status  BY DEF image_vars, screen_vars
  <1>. QED  BY <1>1, <1>2, <1>3, <1>4, <1>5, <1>6, <1>7 DEF WInv

-----------------------------------------------------------------------------
LEMMA InitWhole == Init => WInv
  <1>. SUFFICES ASSUME Init  PROVE WInv
    OBVIOUS
  <1>1. ~Listed /\ ~ItemOut  BY DEF Init, Listed, ItemOut
  <1>2. Flow  BY DEF Init, Flow
  <1>3. QuickInv  BY DEF Init, QuickInv, Quick
  <1>. QED  BY <1>1, <1>2, <1>3 DEF Init, WInv

LEMMA NextWhole == ASSUME ~Yields, IInv, WInv, [Next]_vars  PROVE WInv'
  <1>1. CASE UNCHANGED vars  BY <1>1, OtherWhole DEF vars, input_vars
  <1>2. CASE PressKey  BY <1>2, OtherWhole DEF PressKey
  <1>3. CASE WaitForKey  BY <1>1, <1>3 DEF WaitForKey
  <1>4. CASE Engine
    BY <1>4, MenuKeyWhole, CalcFractWhole, StartItemWhole, ContinueItemWhole, CalcPixelWhole,
       NextRowWhole, RunTailWhole, FirstPassDoneWhole, LastPassDoneWhole, DriveOrbitPlotWhole,
       UiPollWhole
    DEF Engine
  <1>. QED  BY <1>1, <1>2, <1>3, <1>4 DEF Next

THEOREM EngineWhole == ASSUME ~Yields  PROVE Spec => [](IInv /\ WInv)
  <1>1. Init => IInv /\ WInv  BY InitIInv, InitWhole
  <1>2. IInv /\ WInv /\ [Next]_vars => (IInv /\ WInv)'  BY NextIInv, NextWhole
  <1>. QED  BY <1>1, <1>2, PTL DEF Spec

-----------------------------------------------------------------------------
\* What follows of it, state by state and step by step.

\* The entries of a fine list are windows of the screen.
LEMMA ListOnScreen ==
    ASSUME NEW two, NEW quick, NEW done, NEW l \in Lists, FineList(two, quick, done, l),
           NEW k \in 1 .. Len(l)
    PROVE  ScreenWindow(l[k])
  <1>1. Proper(two, l[k])  BY DEF FineList, Fine
  <1>2. l[k].start \in Screen /\ l[k].stop \in Screen /\ l[k].begin \in Rect(l[k])
    BY <1>1 DEF Proper
  <1>3. l[k].begin.x \in l[k].start.x .. l[k].stop.x /\ l[k].begin.y \in l[k].start.y .. l[k].stop.y
    BY <1>2 DEF Rect
  <1>. QED  BY <1>2, <1>3 DEF ScreenWindow

LEMMA CurrentList ==
    ASSUME WInv, pc \in {"turn", "calc", "run_tail", "ui_poll"}, work_list_started
    PROVE  /\ Listed /\ TodoList = work_list
           /\ FineList(TwoPasses, Quick, final, work_list)
  <1>1. Listed /\ TodoList = work_list  BY DEF Listed, TodoList, StartedWorkList
  <1>. QED  BY <1>1 DEF WInv

\* The lists of a step are those of the step before, or the one that is worked off.
LEMMA ListsOfStep ==
    ASSUME ~Yields, WInv, [Next]_vars
    PROVE  /\ \/ work_list' = work_list \/ work_list' = <<>>
              \/ pc' \in {"turn", "calc", "run_tail", "ui_poll"} /\ work_list_started'
           /\ resume_data' = resume_data \/ resume_data' = <<>> \/ resume_data' = work_list
  <1>1. CASE UNCHANGED vars \/ PressKey \/ WaitForKey \/ MenuKey \/ ContinueItem \/ NextRow
    BY <1>1 DEF PressKey, WaitForKey, MenuKey, ContinueItem, NextRow, vars, image_vars, list_vars
  <1>2. CASE CalcFract  BY <1>2 DEF CalcFract
  <1>3. CASE StartItem  BY <1>3 DEF StartItem
  <1>4. CASE CalcPixel
    BY <1>4 DEF CalcPixel, SkipPixel, PixelSlice, PixelOrbit, MandelbrotInterrupted,
                PixelInterrupted, PixelDone, image_vars, list_vars
  <1>5. CASE RunTail
    <2>1. work_list_started  BY <1>5 DEF RunTail, WInv, Flow
    <2>. QED  BY <1>5, <2>1 DEF RunTail, image_vars
  <1>6. ASSUME NEW l, FinishItem(l), pc = "calc", work_list_started' = work_list_started
        PROVE  work_list' = <<>> \/ (pc' = "ui_poll" /\ work_list_started')
    <2>1. work_list_started  BY <1>6 DEF WInv, Flow
    <2>. QED  BY <1>6, <2>1 DEF FinishItem
  <1>7. CASE FirstPassDone  BY <1>6, <1>7 DEF FirstPassDone, PassDone
  <1>8. CASE LastPassDone  BY <1>6, <1>8 DEF LastPassDone, PassDone
  <1>9. CASE DriveOrbitPlot  BY <1>9, DriveOrbitPlotWhole
  <1>10. CASE UiPoll  BY <1>10 DEF UiPoll, Suspend
  <1>. QED
    BY <1>1, <1>2, <1>3, <1>4, <1>5, <1>7, <1>8, <1>9, <1>10 DEF Next, Engine

LEMMA NextOnScreen ==
    ASSUME ~Yields, IInv, WInv, OnScreen, [Next]_vars, IInv', WInv'
    PROVE  OnScreen'
  <1>1. work_list \in Lists /\ work_list' \in Lists  BY Types DEF IInv, TypeOK, Lists
  <1>2. Len(<<>>) = 0  OBVIOUS
  <1>3. ASSUME NEW k \in 1 .. Len(work_list')  PROVE ScreenWindow(work_list'[k])
    <2>1. CASE work_list' = work_list  BY <1>3, <2>1 DEF OnScreen
    <2>2. CASE work_list' = <<>>  BY <1>2, <1>3, <2>2
    <2>3. CASE pc' \in {"turn", "calc", "run_tail", "ui_poll"} /\ work_list_started'
      <3>1. FineList(TwoPasses, Quick, final, work_list)'
        BY <2>3 DEF WInv, Listed, TodoList, StartedWorkList
      <3>. QED  BY <1>1, <1>3, <3>1, ListOnScreen
    <2>. QED  BY <2>1, <2>2, <2>3, ListsOfStep
  <1>4. ASSUME NEW k \in 1 .. Len(resume_data')  PROVE ScreenWindow(resume_data'[k])
    <2>1. resume_data' = resume_data \/ resume_data' = <<>> \/ resume_data' = work_list
      BY ListsOfStep
    <2>. QED  BY <1>2, <1>4, <2>1 DEF OnScreen
  <1>5. final' \subseteq Screen  BY DEF WInv
  <1>. QED  BY <1>3, <1>4, <1>5 DEF OnScreen

LEMMA InitOnScreen == Init => OnScreen
  BY DEF Init, OnScreen

LEMMA NextFinalStays ==
    ASSUME ~Yields, IInv, WInv, [Next]_vars, pc \notin {"menu", "start"}
    PROVE  final \subseteq final'
  <1>1. CASE SkipPixel \/ MandelbrotInterrupted
    BY <1>1 DEF SkipPixel, MandelbrotInterrupted, screen_vars
  <1>2. ASSUME NEW polled \in BOOLEAN, PixelDone(polled)  PROVE final \subseteq final'
    <2>1. /\ ItemOut /\ cursor.row <= win.i_stop.y /\ cursor.col <= win.i_stop.x
          /\ final' = Plotted(final, Here) \ CopyTargets(Here)
      BY <1>2 DEF PixelDone, AtPixel, ItemOut
    <2>. QED  BY <2>1, PlotAdds
  <1>3. CASE CalcPixel
    BY <1>1, <1>2, <1>3 DEF CalcPixel, PixelSlice, PixelOrbit, PixelInterrupted
  <1>4. ~MenuKey /\ ~CalcFract  BY DEF MenuKey, CalcFract
  <1>. QED
    BY <1>3, <1>4 DEF Next, Engine, PressKey, WaitForKey, StartItem, ContinueItem, NextRow, RunTail,
       FirstPassDone, LastPassDone, DriveOrbitPlot, UiPoll, vars, screen_vars

LEMMA WholeSaves ==
    ASSUME IInv, WInv, NoQuickZoom  PROVE ResumableMeansSaved
  <1>. DEFINE l == IF resume_data = <<>> THEN <<WholeScreen>> ELSE resume_data
  <1>. SUFFICES ASSUME calc_status = "RESUMABLE", pc = "menu"
                PROVE  Screen \subseteq final \cup Pending(l)
    BY DEF ResumableMeansSaved
  <1>1. Listed /\ ~ItemOut /\ TodoList = l  BY DEF Listed, ItemOut, TodoList
  <1>2. l \in Lists
    <2>1. <<WholeScreen>> \in Lists  BY WholeScreenType, MaxCalcWorkAssumption DEF Lists
    <2>. QED  BY <2>1, Types
  <1>. HIDE DEF l
  <1>3. FineList(TwoPasses, Quick, final, l)  BY <1>1 DEF WInv
  <1>4. Screen \subseteq final \cup OpenList(TwoPasses, l)  BY <1>1 DEF WInv, Covered
  <1>. QED  BY <1>2, <1>3, <1>4, PendingList

LEMMA WholeKept ==
    ASSUME IInv, WInv, NoQuickZoom  PROVE NoPixelLost
  <1>. SUFFICES ASSUME work_list_started, pc \notin {"menu", "start"}
                PROVE  Screen \subseteq final \cup Pending(work_list)
                          \cup (IF work_item_active THEN Remaining(win, Here) ELSE {})
    BY DEF NoPixelLost
  <1>1. pc \in {"turn", "calc", "run_tail", "ui_poll"}  BY DEF IInv, TypeOK
  <1>2. Listed /\ TodoList = work_list /\ FineList(TwoPasses, Quick, final, work_list)
    BY <1>1, CurrentList
  <1>3. OpenList(TwoPasses, work_list) \subseteq Pending(work_list)
    BY <1>2, Types, PendingList
  <1>4. Covered  BY <1>2 DEF WInv
  <1>5. CASE ItemOut
    <2>1. Remaining(win, Here) = OpenFrom(TwoPasses, win, Here) /\ work_item_active
      BY <1>5, Item, RemainingIs
    <2>. QED  BY <1>2, <1>3, <1>4, <1>5, <2>1 DEF Covered
  <1>6. CASE ~ItemOut  BY <1>2, <1>3, <1>4, <1>6 DEF Covered
  <1>. QED  BY <1>5, <1>6

LEMMA TailSaves ==
    ASSUME IInv, WInv, RunTail, Interrupted
    PROVE  Remaining(win, Here) \subseteq final' \cup Pending(work_list')
  <1>. DEFINE m == InterruptedEntry
  <1>1. ItemOut /\ pc = "run_tail" /\ work_list' = AddWorkList(work_list, m)
    BY DEF RunTail, ItemOut
  <1>2. m \in Entries /\ Fine(TwoPasses, Quick, final, m)
        /\ OpenFrom(TwoPasses, win, Here) \subseteq Open(TwoPasses, m)
        /\ \A k \in 1 .. Len(work_list) : Beside(TwoPasses, m, work_list[k])
    BY <1>1, Item, InterruptedWhole
  <1>3. ~ListFull(work_list)
    <2>1. Len(work_list) < MaxCalcWork  BY <1>1, Item DEF IInv, RoomForItem
    <2>2. Len(work_list) \in Nat /\ MaxCalcWork \in Nat  BY Types DEF Lists
    <2>. QED  BY <2>1, <2>2 DEF ListFull
  <1>. HIDE DEF m
  <1>4. /\ FineList(TwoPasses, Quick, final, AddWorkList(work_list, m))
        /\ OpenList(TwoPasses, work_list) \cup Open(TwoPasses, m)
              \subseteq OpenList(TwoPasses, AddWorkList(work_list, m))
    <2>1. work_list \in Seq(Entries)  BY Types DEF Lists
    <2>. QED  BY <1>1, <1>2, <1>3, <2>1, Item, AddFine
  <1>5. AddWorkList(work_list, m) \in Lists
    BY <1>2, Types, AddWorkListType DEF Lists
  <1>6. OpenList(TwoPasses, work_list') \subseteq Pending(work_list')
    BY <1>1, <1>4, <1>5, PendingList
  <1>7. Remaining(win, Here) = OpenFrom(TwoPasses, win, Here)
    BY <1>1, Item, RemainingIs
  <1>. QED  BY <1>1, <1>2, <1>4, <1>6, <1>7

-----------------------------------------------------------------------------
\* The steps of the engine are steps of ImageCalc.

LEMMA NextImage ==
    ASSUME ~Yields, NoQuickZoom, IInv, WInv, [Next]_vars, WInv'
    PROVE  [Image!Next]_(Image!vars)
  <1>. USE DEF Image!vars
  <1>1. Flow /\ final \subseteq Screen  BY DEF WInv
  <1>2. ASSUME calc_status' = calc_status, final' = final  PROVE [Image!Next]_(Image!vars)
    BY <1>2
  <1>3. CASE UNCHANGED vars \/ PressKey \/ WaitForKey
    BY <1>2, <1>3 DEF PressKey, WaitForKey, vars, image_vars, screen_vars
  <1>4. CASE MenuKey
    <2>1. pc = "menu" /\ (NoCommand \/ Redraw \/ Zoom \/ MoreIterations)  BY <1>4 DEF MenuKey
    <2>2. calc_status \in {"RESUMABLE", "COMPLETED"}  BY <1>1, <2>1 DEF Flow
    <2>3. CASE NoCommand  BY <1>2, <2>3 DEF NoCommand
    <2>4. CASE Redraw \/ Zoom \/ MoreIterations
      <3>1. Image!Command  BY <2>2, <2>4 DEF Redraw, Zoom, MoreIterations, Image!Command
      <3>. QED  BY <3>1 DEF Image!Next
    <2>. QED  BY <2>1, <2>3, <2>4
  <1>5. CASE CalcFract
    <2>1. pc = "start" \/ calc_status = "RESUMABLE"  BY <1>5 DEF CalcFract
    <2>2. calc_status' = calc_status  BY <1>5 DEF CalcFract
    <2>3. CASE calc_status = "RESUMABLE"
      <3>1. final' = final  BY <1>5, <2>3 DEF CalcFract
      <3>. QED  BY <1>2, <2>2, <3>1
    <2>4. CASE calc_status # "RESUMABLE"
      <3>1. calc_status = "PARAMS_CHANGED" /\ final' = {}
        BY <1>1, <1>5, <2>1, <2>4 DEF Flow, CalcFract
      <3>2. Image!Clear  BY <2>2, <3>1 DEF Image!Clear
      <3>. QED  BY <3>2 DEF Image!Next, Image!Advance
    <2>. QED  BY <2>3, <2>4
  <1>6. CASE StartItem
    <2>1. pc = "turn" /\ calc_status' = "IN_PROGRESS" /\ final' = final
      BY <1>6 DEF StartItem, screen_vars
    <2>2. calc_status # "COMPLETED" /\ (calc_status = "PARAMS_CHANGED" => final = {})
      BY <1>1, <2>1 DEF Flow
    <2>3. CASE calc_status = "IN_PROGRESS"  BY <1>2, <2>1, <2>3
    <2>4. CASE calc_status # "IN_PROGRESS"
      <3>1. calc_status \in Statuses  BY DEF IInv, TypeOK
      <3>2. Image!Begin  BY <2>1, <2>2, <2>4, <3>1 DEF Statuses, Image!Begin
      <3>. QED  BY <3>2 DEF Image!Next, Image!Advance
    <2>. QED  BY <2>3, <2>4
  <1>7. CASE CalcPixel
    <2>1. pc = "calc" /\ calc_status' = calc_status
      BY <1>7 DEF CalcPixel, SkipPixel, PixelSlice, PixelOrbit, MandelbrotInterrupted,
                  PixelInterrupted, PixelDone, AtPixel, image_vars
    <2>2. calc_status = "IN_PROGRESS"  BY <1>1, <2>1 DEF Flow
    <2>3. final \subseteq final'  BY <2>1, NextFinalStays
    <2>4. final' \subseteq Screen  BY DEF WInv
    <2>5. CASE final = Screen
      <3>1. final' = final  BY <2>3, <2>4, <2>5
      <3>. QED  BY <1>2, <2>1, <3>1
    <2>6. CASE final # Screen
      <3>1. Image!Plot  BY <2>1, <2>2, <2>3, <2>4, <2>6 DEF Image!Plot
      <3>. QED  BY <3>1 DEF Image!Next, Image!Advance
    <2>. QED  BY <2>5, <2>6
  <1>8. CASE ContinueItem \/ NextRow \/ RunTail \/ DriveOrbitPlot
    BY <1>2, <1>8 DEF ContinueItem, NextRow, RunTail, DriveOrbitPlot, image_vars, screen_vars
  <1>9. ASSUME calc_status = "IN_PROGRESS", final' = final,
               calc_status' \in {"IN_PROGRESS", "COMPLETED", "RESUMABLE"}
        PROVE  [Image!Next]_(Image!vars)
    <2>1. CASE calc_status' = "IN_PROGRESS"  BY <1>2, <1>9, <2>1
    <2>2. CASE calc_status' = "COMPLETED"
      <3>1. final' = Screen  BY <2>2 DEF WInv, NoQuickZoom
      <3>2. Image!Finish  BY <1>9, <2>2, <3>1 DEF Image!Finish
      <3>. QED  BY <3>2 DEF Image!Next, Image!Advance
    <2>3. CASE calc_status' = "RESUMABLE"
      <3>1. Image!Interrupt  BY <1>9, <2>3 DEF Image!Interrupt
      <3>. QED  BY <3>1 DEF Image!Next
    <2>. QED  BY <1>9, <2>1, <2>2, <2>3
  <1>10. CASE FirstPassDone \/ LastPassDone \/ UiPoll
    <2>1. pc \in {"calc", "ui_poll"} /\ final' = final
      BY <1>10 DEF FirstPassDone, LastPassDone, PassDone, UiPoll, screen_vars
    <2>2. calc_status = "IN_PROGRESS"  BY <1>1, <2>1 DEF Flow
    <2>3. calc_status' \in {"IN_PROGRESS", "COMPLETED", "RESUMABLE"}
      BY <1>10, <2>2 DEF FirstPassDone, LastPassDone, FinishItem, UiPoll, Suspend
    <2>. QED  BY <1>9, <2>1, <2>2, <2>3
  <1>. QED
    BY <1>3, <1>4, <1>5, <1>6, <1>7, <1>8, <1>10 DEF Next, Engine

-----------------------------------------------------------------------------
\* The theorems.  ~Yields: calc_type is calc_mandelbrot_type, which does not return to the
\* loop from within a pixel; with Yields some of them are false (an item is lost).

\* Whatever is cut, merged, interrupted and resumed, every entry of g_work_list and of the
\* resume data is a window of the screen that contains its begin point, and no mirror image
\* of a plot falls outside the screen (set_symmetry, sym_plot*, one_or_two_pass.cpp).
THEOREM EngineOnScreen == ASSUME ~Yields  PROVE Spec => []OnScreen
  <1>1. Init => IInv /\ WInv /\ OnScreen  BY InitIInv, InitWhole, InitOnScreen
  <1>2. IInv /\ WInv /\ OnScreen /\ [Next]_vars => (IInv /\ WInv /\ OnScreen)'
    BY NextIInv, NextWhole, NextOnScreen
  <1>. QED  BY <1>1, <1>2, PTL DEF Spec

\* As long as an image is calculated a pixel that shows its colour keeps it: the first pass
\* guesses no pixel that is final, and no mirror image falls on a pixel of another colour
\* (standard_calc's copies, sym_plot2, sym_plot2y, sym_plot2j, sym_plot4).
THEOREM EngineFinalStays == ASSUME ~Yields  PROVE Spec => FinalStays
  <1>1. IInv /\ WInv /\ [Next]_vars => [pc \notin {"menu", "start"} => final \subseteq final']_vars
    BY NextFinalStays
  <1>. QED  BY <1>1, EngineWhole, PTL DEF Spec, FinalStays

\* What OnePass::run and TwoPass::run put on the list when a key interrupts them covers all
\* that is left of the item, its mirror images and its second pass included.
THEOREM EngineInterruptSaves == ASSUME ~Yields  PROVE Spec => InterruptSavesItem
  <1>1. IInv /\ WInv /\ [Next]_vars
           => [RunTail /\ Interrupted
                  => Remaining(win, Here) \subseteq final' \cup Pending(work_list')]_vars
    BY TailSaves
  <1>. QED  BY <1>1, EngineWhole, PTL DEF Spec, InterruptSavesItem

\* At every moment of a calculation each pixel of the screen is final, or waits on the work
\* list, or is ahead of the cursor in the current item (StandardFractal::iterate, tidy_work_list).
THEOREM EngineNoPixelLost == ASSUME ~Yields, NoQuickZoom  PROVE Spec => []NoPixelLost
  <1>1. IInv /\ WInv => NoPixelLost  BY WholeKept
  <1>. QED  BY <1>1, EngineWhole, PTL

\* What a suspended image lacks is in the resume data (StandardFractal::suspend).
THEOREM EngineResumable == ASSUME ~Yields, NoQuickZoom  PROVE Spec => []ResumableMeansSaved
  <1>1. IInv /\ WInv => ResumableMeansSaved  BY WholeSaves
  <1>. QED  BY <1>1, EngineWhole, PTL

\* An image that is called completed is: the claim that standard_fractal_type breaks.
THEOREM EngineCompleted == ASSUME ~Yields, NoQuickZoom  PROVE Spec => []CompletedMeansDone
  <1>1. IInv /\ WInv => CompletedMeansDone  BY DEF WInv, CompletedMeansDone
  <1>. QED  BY <1>1, EngineWhole, PTL

\* The engine implements the image the menu loop relies on, its fairness apart: every step of
\* it is one of ImageCalc, or none.
THEOREM EngineImplementsImage ==
    ASSUME ~Yields, NoQuickZoom  PROVE Spec => Image!Init /\ [][Image!Next]_(Image!vars)
  <1>1. Init => Image!Init  BY DEF Init, Image!Init
  <1>2. IInv /\ WInv /\ [Next]_vars /\ (IInv /\ WInv)' => [Image!Next]_(Image!vars)
    BY NextImage
  <1>. QED  BY <1>1, <1>2, EngineWhole, PTL DEF Spec

=============================================================================
