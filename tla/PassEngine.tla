------------------------------- MODULE PassEngine -------------------------------
(***************************************************************************)
(* What the guessing passes share (engine/StandardFractal.cpp,             *)
(* ui/standard_fractal.cpp): the items of the work list, the screen they   *)
(* read and paint, the calculation of a pixel that notices a key, and the  *)
(* way from an interrupted image to the menu and back.  Unlike one and two *)
(* passes they calculate whole pixels, and yield after an item or a box.   *)
(***************************************************************************)
EXTENDS WorkList, FiniteSets

CONSTANTS Images,           \* what there is to calculate: records of the fields
                            \*   dots, the size of the screen,
                            \*   colors, what calc_type finds, also just outside of it,
                            \*   list, the work list it begins with,
                            \*   modes, of {"tesseral", "boundary", "diffusion", "guess", "three"},
                            \*   fills, g_fill_color: "auto" (-1, that of the edges), "none" (0)
          MaxInterrupts     \* bound: how many keys interrupt the image

BK_COLOR == 0

VARIABLES dots,         \* g_logical_screen.x_dots, y_dots
          picture,      \* the colours calc_type finds
          std_calc_mode, fill_color,
          screen,       \* the colours on the screen
          calculated,   \* the pixels of the screen that were ever calculated
          stray,        \* a pixel outside the screen was plotted
          list, win,    \* the work list and the item that is calculated
          pc,           \* loop | pass | yield | poll | menu | done | hung
          interrupted,  \* s_calc_interrupted
          interrupts

image_vars == <<dots, picture, std_calc_mode, fill_color>>
paint_vars == <<screen, calculated, stray>>
key_vars == <<interrupted, interrupts>>
engine_vars == <<image_vars, paint_vars, list, win, pc, key_vars>>

-----------------------------------------------------------------------------
\* The screen.  Points are <<x, y>>.

Pixels == DOMAIN screen

\* get_color: 0 outside the screen.
get_color(p) == IF p \in Pixels THEN screen[p] ELSE 0

Rectangle(x1, x2, y1, y2) == (x1 .. x2) \X (y1 .. y2)
InWindow(p) == /\ p[1] \in win.start.x .. win.stop.x
               /\ p[2] \in win.start.y .. win.stop.y

\* calc_type: the colour of a pixel.
Color(p) == picture[p]

\* What the screen is after the points of ps have been calculated and plotted.
Calculated(ps) == [p \in Pixels |-> IF p \in ps THEN Color(p) ELSE screen[p]]
Noted(ps) == /\ calculated' = calculated \cup (ps \cap Pixels)
             /\ stray' = (stray \/ ~(ps \subseteq Pixels))
Calculate(ps) == screen' = Calculated(ps) /\ Noted(ps)

\* What the screen is when ps are filled with a color after that.
Paint(before, ps, color) ==
    screen' = [p \in Pixels |-> IF p \in ps THEN color ELSE before[p]]

-----------------------------------------------------------------------------
\* Keys.  calc_type polls now and then: a key may be there, or be overlooked.

Interrupt == /\ interrupted \/ interrupts < MaxInterrupts
             /\ interrupted' = TRUE
             /\ interrupts' = IF interrupted THEN interrupts ELSE interrupts + 1

NoKey == UNCHANGED key_vars

-----------------------------------------------------------------------------
\* StandardFractal::run_current_work_item.

\* An item is taken from the list; the pass begins with what it says.
TakeItem(mode) ==
    /\ pc = "loop" /\ std_calc_mode = mode
    /\ win' = Head(list)
    /\ list' = PopWorkListFront(list)
    /\ pc' = "pass"
    /\ UNCHANGED <<image_vars, paint_vars, key_vars>>

Running(mode) == pc = "pass" /\ std_calc_mode = mode

\* The pass has come to its end, with rest (or nothing) put back on the list;
\* with an empty list that is the end of the image, and the keys are not polled.
ItemEnds(rest) == /\ list' = rest
                  /\ pc' = IF rest = <<>> THEN "done" ELSE "poll"
                  /\ UNCHANGED win

Back(begin, pass) ==
    AddWorkList(list, Entry(win.start, win.stop, begin, pass, win.symmetry))

\* The loop of standard_fractal() polls the keys between two calls of iterate().
PollNothing ==
    /\ pc \in {"poll", "yield"} /\ ~interrupted
    /\ pc' = IF pc = "poll" THEN "loop" ELSE "pass"
    /\ UNCHANGED <<image_vars, paint_vars, list, win, key_vars>>

\* StandardFractal::suspend with no item, or with one that saved puts back: with
\* nothing on the list the image is called complete.
PollKey(saved) ==
    /\ Interrupt
    /\ list' = saved
    /\ pc' = IF saved = <<>> THEN "done" ELSE "menu"
    /\ UNCHANGED <<image_vars, paint_vars, win>>
SuspendBetweenItems == pc = "poll" /\ PollKey(list)

\* The calculation is continued from the menu, whenever the user likes to.
Resume == /\ pc = "menu"
          /\ pc' = "loop"
          /\ interrupted' = FALSE
          /\ UNCHANGED <<image_vars, paint_vars, list, win, interrupts>>

Finished == pc \in {"done", "hung"} /\ UNCHANGED engine_vars

NoItem == Entry(Pt(0, 0), Pt(0, 0), Pt(0, 0), 0, DecidedNo)

EngineInit ==
    /\ \E image \in Images :
          /\ dots = image.dots
          /\ picture = image.colors
          /\ list = image.list
          /\ screen = [p \in Rectangle(0, image.dots.x - 1, 0, image.dots.y - 1) |-> BK_COLOR]
          /\ std_calc_mode \in image.modes
          /\ fill_color \in image.fills
    /\ calculated = {} /\ stray = FALSE
    /\ win = NoItem
    /\ pc = "loop"
    /\ interrupted = FALSE /\ interrupts = 0
=============================================================================
