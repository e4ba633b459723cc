----------------------------- MODULE StandardPixel -----------------------------
(***************************************************************************)
(* One pixel of the standard engine: calculate_standard_pixel iterates an  *)
(* orbit and may return to the loop of ui/standard_fractal.cpp in the      *)
(* middle of it, to let the keyboard be looked at, an orbit point be drawn *)
(* over the image or the orbit be scrubbed.  It is called again for the    *)
(* same pixel and goes on where it was.  The pass is a row of pixels, in   *)
(* one of the modes that can return (one pass, two passes).                *)
(***************************************************************************)
EXTENDS Integers, Sequences

CONSTANTS
    NPixels,            \* the pixels of the row
    Escape,             \* for each the iteration at which its orbit escapes
    Limit,              \* g_max_iterations, as the user set it
    CheckFreq,          \* m_check_freq: iterations between two looks at the keyboard
    StarTrail,          \* g_inside_method is STAR_TRAIL, which iterates TrailLimit times
    TrailLimit,
    Distance,           \* g_distance_estimator is on
    Places,             \* finished pixels over which an orbit point may be drawn
    KeysTyped,          \* the kinds of key the user types: "orbit" and "other"
    MaxKeys             \* bound: how many

ASSUME PixelAssumption == /\ NPixels \in Nat \ {0}
                          /\ Escape \in [1 .. NPixels -> Nat \ {0}]
                          /\ Limit \in Nat \ {0, 1} /\ TrailLimit \in Nat \ {0, 1}
                          /\ CheckFreq \in Nat \ {0}
                          /\ StarTrail \in BOOLEAN /\ Distance \in BOOLEAN
                          /\ KeysTyped \subseteq {"orbit", "other"} /\ MaxKeys \in Nat

VARIABLES
    max_iterations,     \* g_max_iterations
    col,                \* m_col of the pass
    pixel,              \* the m_standard_pixel_ members and what is with them
    colors,             \* the iterations each pixel was coloured by, 0 when it was not
    overlay,            \* the orbit over the image: OrbitPlot
    plot_pending,       \* m_orbit_plot_pending
    scrub_pending,      \* m_overlay_scrub_pending
    show_orbit,         \* g_show_orbit
    key,                \* the keyboard queue of the driver
    calc_interrupted,   \* s_calc_interrupted
    item_saved,         \* the row is back on the work list
    calc_status,        \* g_calc_status
    limit_lost,         \* history: PixelInterrupted has lost the limit of the image
    pc,                 \* where the thread of control is
    keys_left           \* keys the user may still type

pass_vars   == <<max_iterations, col, pixel, colors>>
input_vars  == <<key, calc_interrupted, show_orbit, overlay>>
return_vars == <<plot_pending, scrub_pending>>
image_vars  == <<item_saved, calc_status, limit_lost>>
vars == <<pass_vars, input_vars, return_vars, image_vars, pc, keys_left>>

\* clear_standard_pixel.
ClearedPixel == [active |-> FALSE, save_max_it |-> 0, color_iter |-> 0, started |-> FALSE,
                 checked |-> FALSE, calc_completed |-> FALSE, calc_result |-> FALSE,
                 plotted |-> FALSE, complete |-> FALSE, scrubbed |-> FALSE,
                 iterated |-> 0,        \* history: calls of orbit_calc
                 derived |-> 0]         \* history: updates of the derivative

NoOverlay == [saved |-> <<>>, save_flag |-> FALSE, over |-> [p \in Places |-> FALSE]]

Init ==
    /\ max_iterations = Limit /\ col = 1 /\ pixel = ClearedPixel
    /\ colors = [p \in 1 .. NPixels |-> 0]
    /\ overlay = NoOverlay /\ plot_pending = FALSE /\ scrub_pending = FALSE
    /\ show_orbit \in BOOLEAN               \* g_start_show_orbit
    /\ key = "none" /\ calc_interrupted = FALSE /\ keys_left = MaxKeys
    /\ item_saved = FALSE /\ calc_status = "IN_PROGRESS" /\ limit_lost = FALSE /\ pc = "loop"

-----------------------------------------------------------------------------
\* The orbit over the image.  A point inverts the colour (g_orbit_color), so it
\* keeps what it covers.

Drawn(o, place) == [saved |-> Append(o.saved, <<place, o.over[place]>>),
                    save_flag |-> TRUE,
                    over |-> [o.over EXCEPT ![place] = ~@]]

\* First drawn, first restored.
Newest(saved, place) ==                                         \* mutant
    LET at == {k \in 1 .. Len(saved) : saved[k][1] = place}
    IN  saved[CHOOSE k \in at : \A j \in at : k >= j][2]

\* OrbitPlot::scrub: last drawn, first restored, so the oldest value of a place wins.
Oldest(saved, place) ==
    LET at == {k \in 1 .. Len(saved) : saved[k][1] = place}
    IN  saved[CHOOSE k \in at : \A j \in at : k <= j][2]

Scrubbed(o) ==
    [saved |-> <<>>, save_flag |-> FALSE,
     over |-> [p \in Places |-> IF o.save_flag /\ \E k \in 1 .. Len(o.saved) : o.saved[k][1] = p
                                THEN Oldest(o.saved, p) ELSE o.over[p]]]

-----------------------------------------------------------------------------
\* The keyboard.

PressKey == /\ keys_left > 0 /\ key = "none"
            /\ key' \in KeysTyped
            /\ keys_left' = keys_left - 1
            /\ UNCHANGED <<pass_vars, calc_interrupted, show_orbit, overlay, return_vars,
                           image_vars, pc>>

\* dispatch_pending_keyboard_input: the orbit handler scrubs the orbit whatever the
\* key, and takes 'o'; any other key goes back to the queue and interrupts.
Interrupted == calc_interrupted \/ key = "other"

Dispatch == /\ calc_interrupted' = Interrupted
            /\ key' = IF key = "orbit" THEN "none" ELSE key
            /\ show_orbit' = IF key = "orbit" THEN ~show_orbit ELSE show_orbit
            /\ overlay' = IF key # "none" /\ show_orbit THEN Scrubbed(overlay) ELSE overlay

-----------------------------------------------------------------------------
\* calculate_standard_pixel.

\* It returns -1, to run() of the pass.
Return == pc' = "tail"

\* iterate() calls it for the pixel under the cursor: a new pixel is set up, a
\* pixel in progress goes on.
CallPixel ==
    /\ pc = "loop" /\ ~plot_pending /\ ~scrub_pending /\ col <= NPixels
    /\ pixel' = IF pixel.active THEN pixel
                ELSE [pixel EXCEPT !.active = TRUE, !.save_max_it = max_iterations,
                                   !.color_iter = 0, !.started = FALSE, !.checked = FALSE,
                                   !.calc_completed = FALSE, !.calc_result = FALSE,
                                   !.plotted = FALSE, !.iterated = 0, !.derived = 0]
    /\ max_iterations' = IF StarTrail THEN TrailLimit ELSE max_iterations
    /\ overlay' = IF pixel.active THEN overlay ELSE [overlay EXCEPT !.save_flag = FALSE]
    /\ pc' = "pixel"
    /\ UNCHANGED <<col, colors, key, calc_interrupted, show_orbit, return_vars, image_vars,
                   keys_left>>

\* At the head of the loop over the iterations.
Iterating == pc = "pixel" /\ ~pixel.complete

NextIteration ==
    /\ Iterating /\ ~pixel.started
    /\ LET n == pixel.color_iter + 1
           last == n >= max_iterations
       IN  pixel' = [pixel EXCEPT !.color_iter = n, !.checked = FALSE,
                                  !.calc_completed = FALSE, !.calc_result = FALSE,
                                  !.started = ~last, !.complete = last]
    /\ UNCHANGED <<max_iterations, col, colors, input_vars, return_vars, image_vars, pc,
                   keys_left>>

LooksAtKeyboard == Iterating /\ pixel.started /\ ~pixel.checked
                   /\ pixel.color_iter % CheckFreq = 0

\* A key interrupts the pixel: clear_standard_pixel comes before the iteration
\* limit is restored from it.
PixelInterrupted ==
    /\ LooksAtKeyboard /\ Interrupted /\ Dispatch
    /\ pixel' = ClearedPixel
    /\ max_iterations' = ClearedPixel.save_max_it
    /\ limit_lost' = TRUE
    /\ scrub_pending' = FALSE
    /\ Return
    /\ UNCHANGED <<col, colors, plot_pending, item_saved, calc_status, keys_left>>

\* No key: the pixel returns all the same, to let the loop run.
PixelSlice ==
    /\ LooksAtKeyboard /\ ~Interrupted /\ Dispatch
    /\ pixel' = [pixel EXCEPT !.checked = TRUE]
    /\ Return
    /\ UNCHANGED <<max_iterations, col, colors, return_vars, image_vars, keys_left>>

\* orbit_calc, unless this iteration has had it, after the derivative.
OrbitCalcAgain(p) ==                                            \* mutant
    [p EXCEPT !.derived = IF Distance THEN @ + 1 ELSE @,
              !.iterated = @ + 1,
              !.calc_result = (p.iterated + 1 >= Escape[col]),
              !.calc_completed = TRUE]
OrbitCalc(p) ==
    [p EXCEPT !.derived = IF Distance THEN @ + 1 ELSE @,
              !.iterated = IF p.calc_completed THEN @ ELSE @ + 1,
              !.calc_result = IF p.calc_completed THEN @ ELSE p.iterated + 1 >= Escape[col],
              !.calc_completed = TRUE]

\* A star trail goes on, except under the distance estimator.
Escapes(p) == p.calc_result /\ (Distance \/ ~StarTrail)

Calculates == Iterating /\ pixel.started /\ ~LooksAtKeyboard

\* The orbit leaves: the loop over the iterations is left.
LeaveOrbit ==
    /\ Calculates
    /\ LET p == OrbitCalc(pixel)
       IN  Escapes(p) /\ pixel' = [p EXCEPT !.complete = TRUE]
    /\ UNCHANGED <<max_iterations, col, colors, input_vars, return_vars, image_vars, pc,
                   keys_left>>

\* queue_overlay_orbit_plot: the point of this iteration is to be drawn.
QueueOrbitPlot ==
    /\ Calculates /\ show_orbit /\ ~pixel.plotted
    /\ LET p == OrbitCalc(pixel)
       IN  ~Escapes(p) /\ pixel' = p
    /\ overlay' = IF overlay.save_flag THEN overlay ELSE [overlay EXCEPT !.saved = <<>>]
    /\ plot_pending' = TRUE
    /\ Return
    /\ UNCHANGED <<max_iterations, col, colors, key, calc_interrupted, show_orbit,
                   scrub_pending, image_vars, keys_left>>

EndIteration ==
    /\ Calculates /\ (show_orbit => pixel.plotted)
    /\ LET p == OrbitCalc(pixel)
       IN  /\ ~Escapes(p)
           /\ pixel' = [p EXCEPT !.plotted = FALSE, !.calc_completed = FALSE,
                                 !.calc_result = FALSE, !.started = FALSE]
    /\ UNCHANGED <<max_iterations, col, colors, input_vars, return_vars, image_vars, pc,
                   keys_left>>

Completed == pc = "pixel" /\ pixel.complete

\* scrub_overlay_orbit: the loop is asked to remove the orbit, once.
ScrubsAgain == show_orbit                                       \* mutant
NeedsScrub == show_orbit /\ ~pixel.scrubbed

QueueScrub == /\ Completed /\ NeedsScrub
              /\ scrub_pending' = TRUE
              /\ Return
              /\ UNCHANGED <<pass_vars, input_vars, plot_pending, image_vars, keys_left>>

\* The pixel is plotted.  After enough iterations the keyboard is looked at: a key
\* makes the pass repeat the pixel, and no key makes it return after it.
NextCol(looks) == IF looks /\ Interrupted THEN col ELSE col + 1

PlotPixel(looks) ==
    /\ Completed /\ ~NeedsScrub
    /\ colors' = [colors EXCEPT ![col] = pixel.color_iter]
    /\ max_iterations' = pixel.save_max_it
    /\ pixel' = ClearedPixel /\ scrub_pending' = FALSE
    /\ IF looks THEN Dispatch ELSE UNCHANGED input_vars
    /\ col' = NextCol(looks)
    /\ pc' = IF looks THEN "tail" ELSE "loop"
    /\ UNCHANGED <<plot_pending, image_vars, keys_left>>

-----------------------------------------------------------------------------
\* The end of run(), and the loop of ui/standard_fractal.cpp.

RunTail == /\ pc = "tail"
           /\ Dispatch
           /\ item_saved' = (item_saved \/ Interrupted)
           /\ pc' = IF plot_pending \/ scrub_pending THEN "loop" ELSE "poll"
           /\ UNCHANGED <<pass_vars, return_vars, calc_status, limit_lost, keys_left>>

\* drive_orbit_plot and complete_pending_orbit_plot: the point is drawn, or is off the
\* screen; then comes the delay, which ends early when a key is there.
DrawnUnmarked == [pixel EXCEPT !.plotted = FALSE]               \* mutant
MarkedPlotted == [pixel EXCEPT !.plotted = TRUE]

DriveOrbitPlot(places) ==
    /\ pc = "loop" /\ plot_pending
    /\ LET o == IF places = {} THEN overlay ELSE Drawn(overlay, CHOOSE p \in places : TRUE)
       IN  \/ overlay' = o /\ UNCHANGED <<key, calc_interrupted, show_orbit>>
           \/ /\ places # {} /\ key # "none"
              /\ overlay' = IF show_orbit THEN Scrubbed(o) ELSE o
              /\ calc_interrupted' = Interrupted
              /\ key' = IF key = "orbit" THEN "none" ELSE key
              /\ show_orbit' = IF key = "orbit" THEN ~show_orbit ELSE show_orbit
    /\ plot_pending' = FALSE
    /\ pixel' = MarkedPlotted
    /\ pc' = "poll"
    /\ UNCHANGED <<max_iterations, col, colors, scrub_pending, image_vars, keys_left>>

\* scrub_orbit and complete_overlay_scrub.
DriveScrub == /\ pc = "loop" /\ ~plot_pending /\ scrub_pending
              /\ overlay' = Scrubbed(overlay)
              /\ pixel' = [pixel EXCEPT !.scrubbed = TRUE]
              /\ scrub_pending' = FALSE
              /\ pc' = "poll"
              /\ UNCHANGED <<max_iterations, col, colors, key, calc_interrupted, show_orbit,
                             plot_pending, image_vars, keys_left>>

\* The loop suspends the image or goes on.
UiPoll == /\ pc = "poll"
          /\ Dispatch
          /\ IF Interrupted
             THEN /\ pixel' = ClearedPixel /\ scrub_pending' = FALSE
                  /\ calc_status' = IF item_saved THEN "RESUMABLE" ELSE "COMPLETED"
                  /\ pc' = "menu"
             ELSE pc' = "loop" /\ UNCHANGED <<pixel, scrub_pending, calc_status>>
          /\ UNCHANGED <<max_iterations, col, colors, plot_pending, item_saved, limit_lost,
                         keys_left>>

\* The last pixel of the row completes the image.
Complete == /\ pc = "loop" /\ ~plot_pending /\ ~scrub_pending /\ col > NPixels
            /\ calc_status' = "COMPLETED" /\ pc' = "menu"
            /\ UNCHANGED <<pass_vars, input_vars, return_vars, item_saved, limit_lost, keys_left>>

\* The menu loop takes the key and resumes the image, here at the pixel it had reached
\* (where the saved entry begins is the subject of StandardEngine).
Resume == /\ pc = "menu" /\ calc_status = "RESUMABLE"
          /\ key' = "none" /\ calc_interrupted' = FALSE
          /\ overlay' = [overlay EXCEPT !.save_flag = FALSE]
          /\ item_saved' = FALSE /\ calc_status' = "IN_PROGRESS" /\ pc' = "loop"
          /\ UNCHANGED <<pass_vars, show_orbit, return_vars, limit_lost, keys_left>>

\* A completed image waits for a key that has no part in this module.
Idle == pc = "menu" /\ calc_status = "COMPLETED" /\ UNCHANGED vars

-----------------------------------------------------------------------------
CalcPixel == \/ NextIteration \/ PixelInterrupted \/ PixelSlice
             \/ LeaveOrbit \/ QueueOrbitPlot \/ EndIteration \/ QueueScrub
             \/ \E looks \in BOOLEAN : PlotPixel(looks)

Drive == \/ \E place \in Places : DriveOrbitPlot({place})
         \/ DriveOrbitPlot({})

Engine == \/ CallPixel \/ CalcPixel \/ RunTail \/ Drive \/ DriveScrub
          \/ UiPoll \/ Complete \/ Resume

Next == PressKey \/ Idle \/ Engine

Spec == Init /\ [][Next]_vars

\* The thread of the program keeps running; the user need not type.
FairSpec == Spec /\ WF_vars(Engine)

-----------------------------------------------------------------------------
PixelFields == [active : BOOLEAN, save_max_it : Nat, color_iter : Nat, started : BOOLEAN,
                checked : BOOLEAN, calc_completed : BOOLEAN, calc_result : BOOLEAN,
                plotted : BOOLEAN, complete : BOOLEAN, scrubbed : BOOLEAN,
                iterated : Nat, derived : Nat]

TypeOK ==
    /\ max_iterations \in Nat /\ col \in 1 .. NPixels + 1
    /\ pixel \in PixelFields /\ colors \in [1 .. NPixels -> Nat]
    /\ overlay \in [saved : Seq(Places \X BOOLEAN), save_flag : BOOLEAN,
                    over : [Places -> BOOLEAN]]
    /\ plot_pending \in BOOLEAN /\ scrub_pending \in BOOLEAN /\ show_orbit \in BOOLEAN
    /\ key \in {"none", "orbit", "other"} /\ calc_interrupted \in BOOLEAN
    /\ item_saved \in BOOLEAN /\ calc_status \in {"IN_PROGRESS", "RESUMABLE", "COMPLETED"}
    /\ limit_lost \in BOOLEAN
    /\ pc \in {"loop", "pixel", "tail", "poll", "menu"} /\ keys_left \in 0 .. MaxKeys

\* The iteration at which p leaves the loop when nothing disturbs it.
Undisturbed(p, limit) ==
    LET most == IF StarTrail THEN TrailLimit ELSE limit
        goes_on == StarTrail /\ ~Distance
    IN  CASE most <= 1 -> 1
          [] most > 1 /\ (goes_on \/ Escape[p] >= most) -> most
          [] OTHER -> Escape[p]

\* However often a pixel returned to the loop, had its orbit drawn, or was begun again
\* because the pass or the loop found a key, it is plotted by the iterations that an
\* undisturbed calculation takes under the limit the user set, and every iteration
\* called orbit_calc once.  Excepted from the first are the pixels plotted after a pixel
\* has found a key itself: calculate_standard_pixel then loses the limit
\* (calcfrac.cpp:1387) and they stop at iteration 1, unless each is a star trail, which
\* brings its own limit.
PlottedAsUndisturbed ==
    [][\A looks \in BOOLEAN : PlotPixel(looks) =>
          /\ (limit_lost => StarTrail) => pixel.color_iter = Undisturbed(col, Limit)
          /\ pixel.iterated \in {pixel.color_iter - 1, pixel.color_iter}]_vars

\* An orbit drawn over the image has been scrubbed when the image is left
\* (inversion-of-control.md:262-264).
NoOrbitLeft == pc = "menu" => \A p \in Places : ~overlay.over[p]

\* It has when the orbits stay displayed all the time, whatever points cover each other
\* and whenever the orbit is interrupted.
OrbitScrubbed == []show_orbit => []NoOrbitLeft

\* A pixel returns for its own reason only, and one reason at a time: what is pending
\* belongs to a pixel in progress whose iteration has been calculated.
PendingOfPixel == /\ ~(plot_pending /\ scrub_pending)
                  /\ plot_pending => pixel.active /\ pixel.calc_completed /\ ~pixel.plotted
                  /\ scrub_pending => pixel.active /\ pixel.complete /\ ~pixel.scrubbed

\* The same with the types of everything around the pixel: the overlay among them, whose
\* points are drawn, saved and scrubbed in returns of their own.
PixelInv == TypeOK /\ PendingOfPixel

\* When the user stops typing, every pixel is plotted, however many orbits are shown.
RowCompletes == <>[](calc_status = "COMPLETED")

=============================================================================
