---------------------------- MODULE StandardEngine ----------------------------
(***************************************************************************)
(* The standard escape-time engine in its one-pass and two-pass modes: the *)
(* StandardFractal object and its OnePass and TwoPass traversals, driven   *)
(* by the loop of ui/standard_fractal.cpp, which polls the keyboard at     *)
(* several places and suspends the image when a key is waiting; the menu   *)
(* loop, which starts or resumes an image; and the user, who types.        *)
(*                                                                         *)
(* A key may arrive between any two steps, so every call of                *)
(* calc_interrupted() is a step of its own.                                *)
(***************************************************************************)
EXTENDS SetSymmetry, FiniteSets

CONSTANTS CalcMode,     \* g_std_calc_mode: "ONE_PASS" or "TWO_PASS"
          Yields,       \* calc_type is standard_fractal_type, which returns to the
                        \* loop in the middle of its work; calc_mandelbrot_type does not
          Commands,     \* what the user may ask for between calculations
          Kept,         \* the pixels that have not the inside colour
          MaxKeys,      \* bound: keys the user types
          MaxSlices     \* bound: returns to the loop from within one pixel

ASSUME EngineAssumption == /\ CalcMode \in {"ONE_PASS", "TWO_PASS"}
                           /\ Yields \in BOOLEAN
                           /\ Commands \subseteq {"redraw", "zoom", "more_iterations"}
                           /\ Kept \subseteq Screen
                           /\ \A p \in Kept : SameColour(p) \cap Screen \subseteq Kept
                           /\ MaxKeys \in Nat /\ MaxSlices \in Nat

VARIABLES
    calc_status,        \* g_calc_status
    quick_calc,         \* g_quick_calc: only calculate pixels of the inside colour
    resuming,           \* g_resuming
    resume_data,        \* the list in g_resume_data, <<>> when there is none
    work_list,          \* g_work_list
    work_list_started,  \* m_work_list_started
    work_item_active,   \* m_work_item_active
    win,                \* the window of the item: g_start_pt, g_stop_pt, ...
    cursor,             \* m_row, m_col, m_resume_row, m_resume_col of the pass
    slices,             \* returns to the loop from within the current pixel
    orbit_plot_pending, \* m_orbit_plot_pending
    pc,                 \* where the thread of control is
    key,                \* the keyboard queue of the driver, at most one key
    calc_interrupted,   \* s_calc_interrupted
    show_orbit,         \* g_show_orbit
    keys_left,          \* keys the user may still type
    final,              \* the pixels that show the colour they end up with
    blank               \* the pixels not plotted since the screen was cleared

image_vars == <<calc_status, resuming, resume_data, quick_calc>>
list_vars  == <<work_list, work_list_started, work_item_active, win>>
pass_vars  == <<cursor, slices, orbit_plot_pending>>
input_vars == <<key, calc_interrupted, show_orbit>>
screen_vars == <<final, blank>>
vars == <<image_vars, list_vars, pass_vars, input_vars, pc, keys_left, screen_vars>>

Statuses == {"PARAMS_CHANGED", "IN_PROGRESS", "RESUMABLE", "COMPLETED"}
Keys     == {"none", "orbit", "other"}      \* "orbit" is 'o' or 'O'

NewCursor(at) == [row |-> at.y, col |-> at.x, resume_row |-> 0, resume_col |-> 0]

Init ==
    /\ calc_status = "PARAMS_CHANGED" /\ quick_calc = FALSE
    /\ final = {} /\ blank = Screen
    /\ resuming = FALSE /\ resume_data = <<>>
    /\ work_list = <<>> /\ work_list_started = FALSE /\ work_item_active = FALSE
    /\ win = Window(WholeScreen) /\ cursor = NewCursor(Pt(0, 0)) /\ slices = 0
    /\ orbit_plot_pending = FALSE /\ pc = "start"
    /\ key = "none" /\ calc_interrupted = FALSE /\ show_orbit = FALSE
    /\ keys_left = MaxKeys

-----------------------------------------------------------------------------
\* The keyboard.

PressKey == /\ keys_left > 0 /\ key = "none"
            /\ keys_left' = keys_left - 1
            /\ key' \in Keys \ {"none"}
            /\ UNCHANGED <<image_vars, list_vars, pass_vars, calc_interrupted, show_orbit, pc, screen_vars>>

\* What calc_interrupted() answers, and what it does: 'o' is taken from the
\* queue and toggles the orbit display, any other key stays there and interrupts.
Interrupted == calc_interrupted \/ key = "other"

PollKeyboard == /\ calc_interrupted' = Interrupted
                /\ key' = IF key = "orbit" THEN "none" ELSE key
                /\ show_orbit' = IF key = "orbit" THEN ~show_orbit ELSE show_orbit

-----------------------------------------------------------------------------
\* The menu loop.

\* A completed quick calculation is over when the next key is looked at.
StillQuick == quick_calc /\ calc_status # "COMPLETED"

\* Another key: the image is left alone, to be resumed if it is not complete.
NoCommand == /\ quick_calc' = StillQuick
             /\ UNCHANGED <<calc_status, pc, final>>

\* Options that change the image, another fractal type, ...
Redraw == /\ "redraw" \in Commands
          /\ quick_calc' = FALSE
          /\ calc_status' = "PARAMS_CHANGED" /\ pc' = "start" /\ UNCHANGED final

\* ENTER with a zoom box that is no pan.
Zoom == /\ "zoom" \in Commands
        /\ quick_calc' = StillQuick
        /\ calc_status' = "PARAMS_CHANGED" /\ pc' = "start" /\ UNCHANGED final

\* The iteration limit of a completed image is raised: only the pixels of the
\* inside colour can change.
MoreIterations == /\ "more_iterations" \in Commands /\ calc_status = "COMPLETED"
                  /\ quick_calc' = TRUE
                  /\ calc_status' = "RESUMABLE" /\ pc' = "start"
                  /\ final' = final \cap Kept

MenuKey == /\ pc = "menu" /\ key # "none"
           /\ key' = "none"
           /\ NoCommand \/ Redraw \/ Zoom \/ MoreIterations
           /\ UNCHANGED <<resuming, resume_data, list_vars, pass_vars, calc_interrupted,
                          show_orbit, keys_left, blank>>

\* Nothing to resume and nothing typed: the menu loop waits for a key.
WaitForKey == /\ pc = "menu" /\ key = "none" /\ calc_status = "COMPLETED"
              /\ UNCHANGED vars

\* calc_fract: after a command, or to resume when nothing is typed.  A new image
\* begins on a cleared screen.
CalcFract ==
    /\ \/ pc = "start"
       \/ pc = "menu" /\ calc_status = "RESUMABLE" /\ key = "none"
    /\ resuming' = (calc_status = "RESUMABLE")
    /\ resume_data' = IF resuming' THEN resume_data ELSE <<>>
    /\ final' = IF resuming' THEN final ELSE {}
    /\ blank' = IF resuming' THEN blank ELSE Screen
    /\ show_orbit' = (resuming' /\ show_orbit)
    /\ calc_interrupted' = FALSE
    /\ work_list_started' = FALSE /\ work_item_active' = FALSE
    /\ slices' = 0 /\ orbit_plot_pending' = FALSE
    /\ pc' = "turn"
    /\ UNCHANGED <<calc_status, quick_calc, work_list, win, cursor, key, keys_left>>

-----------------------------------------------------------------------------
\* StandardFractal::iterate: take an item and run its pass.

\* The list start_work_list leaves: the saved one, or the whole screen.
StartedWorkList == IF work_list_started THEN work_list
                   ELSE IF resuming /\ resume_data # <<>> THEN resume_data
                   ELSE <<WholeScreen>>

StartItem ==
    /\ pc = "turn" /\ ~work_item_active
    /\ LET list == StartedWorkList
           cut  == SetSymmetry(Window(Head(list)), PopWorkListFront(list))
       IN  /\ win' = cut.win
           /\ work_list' = cut.list
           /\ cursor' = NewCursor(cut.win.begin)
    /\ work_list_started' = TRUE /\ work_item_active' = TRUE
    /\ resume_data' = <<>>
    /\ calc_status' = "IN_PROGRESS"
    /\ pc' = "calc"
    /\ UNCHANGED <<resuming, quick_calc, slices, orbit_plot_pending, input_vars, keys_left,
                   screen_vars>>

ContinueItem == /\ pc = "turn" /\ work_item_active /\ ~orbit_plot_pending
                /\ pc' = "calc"
                /\ UNCHANGED <<image_vars, list_vars, pass_vars, input_vars, keys_left, screen_vars>>

-----------------------------------------------------------------------------
\* OneOrTwoPass::standard_calc, at the pixel under the cursor.

Here == Pt(cursor.col, cursor.row)

\* A quick calculation forces one pass.
TwoPasses == CalcMode = "TWO_PASS" /\ ~quick_calc
FirstPass == TwoPasses /\ win.pass = 0

Even(n) == n % 2 = 0

AtPixel == pc = "calc" /\ cursor.row <= win.i_stop.y /\ cursor.col <= win.i_stop.x

\* On the second pass of two the even points are done.
PassedAlways(p) == TwoPasses /\ Even(p.y) /\ Even(p.x)           \* mutant
Passed(p) == TwoPasses /\ ~FirstPass /\ Even(p.y) /\ Even(p.x)

\* get_color(p) # g_inside_color: so it is on a cleared screen (the inside colour
\* is not the background's), and of a pixel of Kept; what more iterations make
\* of the others is open.
LooksOutside(p)  == p \in blank \cup (final \cap Kept)
MayLookOutside(p) == p \in blank \cup final

QuickCalcOn == quick_calc /\ ~resuming
MaySkip(p)      == Passed(p) \/ (QuickCalcOn /\ MayLookOutside(p))
MayCalculate(p) == ~Passed(p) /\ ~(QuickCalcOn /\ LooksOutside(p))

\* The first pass copies an even point over its right and lower neighbours.
CopiesBelow(p) == FirstPass /\ Even(p.y)                         \* mutant
CopiesDown(p)  == FirstPass /\ Even(p.y) /\ p.y < win.i_stop.y
CopiesRight(p) == FirstPass /\ Even(p.x) /\ p.x < win.i_stop.x
Copies(p) == {c \in {Pt(p.x, p.y + 1), Pt(p.x + 1, p.y), Pt(p.x + 1, p.y + 1)} :
                 (c.y > p.y => CopiesDown(p)) /\ (c.x > p.x => CopiesRight(p))}

\* g_plot of the colour of p at p: the mirror images get the same colour.
Plotted(done, p) == (done \ Targets(win, p)) \cup (Targets(win, p) \cap SameColour(p))

\* g_plot of the colour of p elsewhere: a guess.
CopyTargets(p) == UNION {Targets(win, c) : c \in Copies(p)}

\* The cursor moves past a calculated pixel, and past the copy beside it.
MovePast(p) == cursor' = [cursor EXCEPT !.col = IF CopiesRight(p) THEN @ + 2 ELSE @ + 1]

StopAfterPixel ==                                               \* mutant
    /\ cursor' = [cursor EXCEPT !.resume_row = cursor.row, !.resume_col = cursor.col + 1]
    /\ pc' = "run_tail"

\* standard_calc returns -1 from within calc_type.
StopAtPixel == /\ cursor' = [cursor EXCEPT !.resume_row = cursor.row, !.resume_col = cursor.col]
               /\ pc' = "run_tail"

SkipPixel == /\ AtPixel /\ MaySkip(Here)
             /\ cursor' = [cursor EXCEPT !.col = @ + 1]
             /\ UNCHANGED <<image_vars, list_vars, slices, orbit_plot_pending, input_vars,
                            pc, keys_left, screen_vars>>

\* The orbit is so long that calculate_standard_pixel looks at the keyboard and
\* returns, interrupted or not.
PixelSlice == /\ AtPixel /\ MayCalculate(Here) /\ Yields /\ slices < MaxSlices
              /\ PollKeyboard
              /\ slices' = slices + 1
              /\ StopAtPixel
              /\ UNCHANGED <<image_vars, list_vars, orbit_plot_pending, keys_left, screen_vars>>

\* The orbit is displayed: the pixel waits for the loop to draw it.
PixelOrbit == /\ AtPixel /\ MayCalculate(Here) /\ Yields /\ show_orbit /\ slices < MaxSlices
              /\ orbit_plot_pending' = TRUE
              /\ slices' = slices + 1
              /\ StopAtPixel
              /\ UNCHANGED <<image_vars, list_vars, input_vars, keys_left, screen_vars>>

\* calc_mandelbrot_type looks at the keyboard before it calculates.
MandelbrotInterrupted == /\ AtPixel /\ MayCalculate(Here) /\ ~Yields
                         /\ Interrupted /\ PollKeyboard
                         /\ StopAtPixel
                         /\ UNCHANGED <<image_vars, list_vars, slices, orbit_plot_pending,
                                        keys_left, screen_vars>>

\* standard_fractal_type looks at the keyboard after it has plotted.
PixelInterrupted == /\ AtPixel /\ MayCalculate(Here) /\ Yields
                    /\ Interrupted /\ PollKeyboard
                    /\ final' = Plotted(final, Here)
                    /\ blank' = blank \ Targets(win, Here)
                    /\ slices' = 0
                    /\ StopAtPixel
                    /\ UNCHANGED <<image_vars, list_vars, orbit_plot_pending, keys_left>>

\* The pixel is done and calc_type returns its colour.  It may have looked at
\* the keyboard; if so, standard_fractal_type makes the pass return after it.
PixelDone(polled) ==
    /\ AtPixel /\ MayCalculate(Here)
    /\ IF polled THEN ~Interrupted /\ PollKeyboard ELSE UNCHANGED input_vars
    /\ final' = Plotted(final, Here) \ CopyTargets(Here)
    /\ blank' = (blank \ Targets(win, Here)) \ CopyTargets(Here)
    /\ resuming' = FALSE
    /\ slices' = 0
    /\ MovePast(Here)
    /\ pc' = IF polled /\ Yields THEN "run_tail" ELSE "calc"
    /\ UNCHANGED <<calc_status, resume_data, quick_calc, list_vars, orbit_plot_pending, keys_left>>

NextRow == /\ pc = "calc" /\ cursor.row <= win.i_stop.y /\ cursor.col > win.i_stop.x
           /\ cursor' = [cursor EXCEPT !.col = win.start.x,
                                       !.row = IF FirstPass /\ Even(@) THEN @ + 2 ELSE @ + 1]
           /\ UNCHANGED <<image_vars, list_vars, slices, orbit_plot_pending, input_vars,
                          pc, keys_left, screen_vars>>

-----------------------------------------------------------------------------
\* OnePass::run and TwoPass::run, when standard_calc has returned.

StopRowOfHalf == win.i_stop.y                                   \* mutant
StopRowAdded == IF win.i_stop.y # win.stop.y                    \* mutant
                THEN win.stop.y + (cursor.resume_row - win.start.y)
                ELSE win.stop.y
\* The rows that remain, when the bottom ones mirror the top ones.
StopRowForResume == IF win.i_stop.y # win.stop.y
                    THEN win.stop.y - (cursor.resume_row - win.start.y)
                    ELSE win.stop.y

ResumePoint == Pt(cursor.resume_col, cursor.resume_row)

\* What an interrupted pass puts on the work list.
InterruptedEntry ==
    IF FirstPass
    THEN Entry(win.start, win.stop, ResumePoint, 0, win.symmetry)
    ELSE Entry(Pt(win.start.x, cursor.resume_row), Pt(win.stop.x, StopRowForResume),
               ResumePoint, win.pass, win.symmetry)

\* standard_calc returned -1: only an interruption is put on the list.
RunTail == /\ pc = "run_tail"
           /\ PollKeyboard
           /\ work_list' = IF Interrupted THEN AddWorkList(work_list, InterruptedEntry)
                           ELSE work_list
           /\ pc' = IF orbit_plot_pending THEN "turn" ELSE "ui_poll"
           /\ UNCHANGED <<image_vars, work_list_started, work_item_active, win, pass_vars,
                          keys_left, screen_vars>>

PassDone == pc = "calc" /\ cursor.row > win.i_stop.y

\* The item is done with work_list = list; an empty list finishes the image.
FinishItem(list) == /\ work_list' = list
                    /\ work_item_active' = FALSE
                    /\ calc_status' = IF list = <<>> THEN "COMPLETED" ELSE calc_status
                    /\ pc' = IF list = <<>> THEN "menu" ELSE "ui_poll"

\* The second pass runs at once, or waits until the first passes are done.
FirstPassDone ==
    /\ PassDone /\ FirstPass
    /\ IF work_list = <<>>
       THEN /\ win' = [win EXCEPT !.pass = 1, !.begin = win.start]
            /\ cursor' = [cursor EXCEPT !.row = win.start.y, !.col = win.start.x]
            /\ UNCHANGED <<calc_status, work_list, work_item_active, pc>>
       ELSE /\ FinishItem(AddWorkList(work_list, Entry(win.start, win.stop, win.start, 1,
                                                       win.symmetry)))
            /\ UNCHANGED <<win, cursor>>
    /\ UNCHANGED <<resuming, resume_data, quick_calc, work_list_started, slices,
                   orbit_plot_pending, input_vars, keys_left, screen_vars>>

LastPassDone == /\ PassDone /\ ~FirstPass
                /\ FinishItem(work_list)
                /\ UNCHANGED <<resuming, resume_data, quick_calc, work_list_started, win,
                               pass_vars, input_vars, keys_left, screen_vars>>

-----------------------------------------------------------------------------
\* The loop of ui/standard_fractal.cpp, around iterate.

DriveOrbitPlotAgain ==                                          \* mutant
    /\ pc = "turn" /\ orbit_plot_pending
    /\ PollKeyboard \/ UNCHANGED input_vars
    /\ pc' = "ui_poll"
    /\ UNCHANGED <<image_vars, list_vars, pass_vars, keys_left, screen_vars>>

\* drive_orbit_plot: draw the orbit; the delay after it may look at the keyboard.
DriveOrbitPlot == /\ pc = "turn" /\ orbit_plot_pending
                  /\ orbit_plot_pending' = FALSE
                  /\ PollKeyboard \/ UNCHANGED input_vars
                  /\ pc' = "ui_poll"
                  /\ UNCHANGED <<image_vars, list_vars, cursor, slices, keys_left, screen_vars>>

SuspendFront ==                                                 \* mutant
    /\ resume_data' = IF work_list = <<>> THEN resume_data ELSE <<Head(work_list)>>
    /\ calc_status' = IF work_list = <<>> THEN "COMPLETED" ELSE "RESUMABLE"
    /\ work_item_active' = FALSE
    /\ pc' = "menu"

SuspendWithItem ==                                              \* mutant
    /\ resume_data' = Append(work_list, Entry(win.start, win.stop, win.start, win.pass,
                                              win.symmetry))
    /\ calc_status' = "RESUMABLE"
    /\ work_item_active' = FALSE
    /\ pc' = "menu"

\* StandardFractal::suspend: save what is on the work list, if anything is.
Suspend == /\ resume_data' = IF work_list = <<>> THEN resume_data ELSE work_list
           /\ calc_status' = IF work_list = <<>> THEN "COMPLETED" ELSE "RESUMABLE"
           /\ work_item_active' = FALSE
           /\ pc' = "menu"

UiPoll == /\ pc = "ui_poll"
          /\ PollKeyboard
          /\ IF Interrupted
             THEN Suspend
             ELSE pc' = "turn" /\ UNCHANGED <<resume_data, calc_status, work_item_active>>
          /\ UNCHANGED <<resuming, quick_calc, work_list, work_list_started, win, pass_vars,
                         keys_left, screen_vars>>

-----------------------------------------------------------------------------
CalcPixel == \/ SkipPixel \/ PixelSlice \/ PixelOrbit
             \/ MandelbrotInterrupted \/ PixelInterrupted
             \/ \E polled \in BOOLEAN : PixelDone(polled)

Engine == \/ MenuKey \/ CalcFract
          \/ StartItem \/ ContinueItem
          \/ CalcPixel \/ NextRow
          \/ RunTail \/ FirstPassDone \/ LastPassDone
          \/ DriveOrbitPlot \/ UiPoll

Next == PressKey \/ WaitForKey \/ Engine

Spec == Init /\ [][Next]_vars

\* The thread of the program keeps running; the user need not type.
FairSpec == Spec /\ WF_vars(Engine)

-----------------------------------------------------------------------------
\* What is still to be done.

\* Row by row, p is q or comes after it.
AtOrAfter(p, q) == p.y > q.y \/ (p.y = q.y /\ p.x >= q.x)

\* The pixels the passes of window w still calculate when they stand at point at.
Due(w, at) ==
    LET half == [x : w.start.x .. w.i_stop.x, y : w.start.y .. w.i_stop.y]
        ahead == {p \in half : AtOrAfter(p, at)}
        odd == {p \in half : ~(Even(p.x) /\ Even(p.y))}
    IN  CASE ~TwoPasses -> ahead
          [] TwoPasses /\ w.pass = 0 -> ahead \cup odd
          [] TwoPasses /\ w.pass # 0 -> ahead \cap odd

\* The pixels these calculations give their colour.
Remaining(w, at) == UNION {Targets(w, p) \cap SameColour(p) : p \in Due(w, at)}

\* The pixels a list of entries stands for, once it is worked off.
PendingOf(e) == LET cut == SetSymmetry(Window(e), <<>>)
                IN  Remaining(cut.win, cut.win.begin)
                    \cup UNION {[x : f.start.x .. f.stop.x, y : f.start.y .. f.stop.y] :
                                    f \in {cut.list[k] : k \in 1 .. Len(cut.list)}}
Pending(list) == UNION {PendingOf(list[k]) : k \in 1 .. Len(list)}

-----------------------------------------------------------------------------
TypeOK ==
    /\ calc_status \in Statuses /\ resuming \in BOOLEAN
    /\ resume_data \in Seq(Entries) /\ Len(resume_data) <= MaxCalcWork
    /\ work_list \in Seq(Entries) /\ Len(work_list) <= MaxCalcWork
    /\ work_list_started \in BOOLEAN /\ work_item_active \in BOOLEAN
    /\ win \in [start : Points, stop : Points, i_stop : Points, begin : Points,
                pass : Int, symmetry : [x : Decision, y : Decision], plot : Plots]
    /\ cursor \in [row : Int, col : Int, resume_row : Int, resume_col : Int]
    /\ slices \in 0 .. MaxSlices /\ orbit_plot_pending \in BOOLEAN
    /\ pc \in {"menu", "start", "turn", "calc", "run_tail", "ui_poll"}
    /\ key \in Keys /\ calc_interrupted \in BOOLEAN /\ show_orbit \in BOOLEAN
    /\ keys_left \in 0 .. MaxKeys /\ final \subseteq Points
    /\ blank \subseteq Screen /\ quick_calc \in BOOLEAN

\* An entry is a window of the screen and begins within it (work_list.h: "screen
\* window for this entry", "start point within window").
ScreenWindow(e) == /\ e.start \in Screen /\ e.stop \in Screen
                   /\ e.begin.x \in e.start.x .. e.stop.x
                   /\ e.begin.y \in e.start.y .. e.stop.y

\* Whatever is cut, merged, interrupted and resumed, the entries stay windows of
\* the screen, and no plot or mirror image falls outside it.
OnScreen == /\ \A k \in 1 .. Len(work_list) : ScreenWindow(work_list[k])
            /\ \A k \in 1 .. Len(resume_data) : ScreenWindow(resume_data[k])
            /\ final \subseteq Screen

\* While an item is being worked on and not yet back on the list there is a
\* free place for it, so the result of add_work_list, which run() ignores, is
\* never TRUE (one_or_two_pass.cpp:32, 54, 61, 74; the splits leave room).
RoomForItem == /\ work_item_active
               /\ pc \in {"calc", "run_tail"} \/ ~calc_interrupted
               => Len(work_list) < MaxCalcWork

\* g_calc_status says completed (4, calcfrac.h) only of an image every pixel of
\* which shows the colour calculated for it or for its mirror image.
CompletedMeansDone == calc_status = "COMPLETED" => final = Screen

\* What a suspended image lacks can be recovered from the resume data
\* (resume.h: "store whatever status info it needs to be able to resume later").
ResumableMeansSaved ==
    calc_status = "RESUMABLE" /\ pc = "menu" =>
        Screen \subseteq final \cup Pending(IF resume_data = <<>> THEN <<WholeScreen>>
                                         ELSE resume_data)

\* At every moment of the calculation each pixel is final, or waits on the list,
\* or is ahead of the cursor in the current item.
NoPixelLost ==
    work_list_started /\ pc \notin {"menu", "start"} =>
        Screen \subseteq final \cup Pending(work_list)
            \cup (IF work_item_active THEN Remaining(win, Here) ELSE {})

\* An interrupted pass puts on the list all that is left of its item.
InterruptSavesItem ==
    [][RunTail /\ Interrupted => Remaining(win, Here) \subseteq final' \cup Pending(work_list')]_vars

\* A colour that is final is never overwritten by a guess or by a wrong mirror
\* image, until the user asks for another image.
FinalStays == [][pc \notin {"menu", "start"} => final \subseteq final']_vars

\* The menu loop sees an image that is calculated, interrupted and resumed: what
\* ImageCalc promises it, fairness included.
Image == INSTANCE ImageCalc WITH Pixels <- Screen, status <- calc_status, shown <- final
ImplementsImage == Image!Spec

\* When the user stops typing, the image is completed and stays so.
ImageCompletes == <>[](calc_status = "COMPLETED")

=============================================================================
