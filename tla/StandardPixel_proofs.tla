-------------------------- MODULE StandardPixel_proofs --------------------------
(***************************************************************************)
(* For every row of pixels, every place where an orbit escapes, every      *)
(* limit and every period of looking at the keyboard: a pixel that returns *)
(* to the loop in the middle of its orbit is plotted as if it had not,     *)
(* while the image has the limit the user set, and its orbit is gone from  *)
(* the image when it is.                                                   *)
(***************************************************************************)
EXTENDS StandardPixel, WellFoundedInduction, TLAPS

\* The iterations a pixel makes at most.
Most(limit) == IF StarTrail THEN TrailLimit ELSE limit

\* A star trail does not stop at the bailout.
GoesOn == StarTrail /\ ~Distance

\* How far the orbit of column c is in p: the history variable iterated has counted
\* the calls of orbit_calc, and none of them has left the loop yet.
Underway(p, c) ==
    /\ p.iterated = IF p.started /\ ~p.calc_completed THEN p.color_iter - 1 ELSE p.color_iter
    /\ p.started => 1 <= p.color_iter /\ p.color_iter < Most(p.save_max_it)
    /\ p.color_iter = 0 \/ p.color_iter < Most(p.save_max_it)
    /\ p.calc_completed => (p.calc_result <=> p.iterated >= Escape[c])
    /\ GoesOn \/ p.iterated < Escape[c]

Finished(p, c) ==
    /\ p.color_iter = Undisturbed(c, p.save_max_it)
    /\ p.iterated \in {p.color_iter - 1, p.color_iter}

\* Where a pixel is, for the whole of the state.
InStep == IF pixel.active
          THEN /\ col \in 1 .. NPixels
               /\ IF pixel.complete THEN Finished(pixel, col) ELSE Underway(pixel, col)
               /\ ~StarTrail \/ pc = "pixel" => max_iterations = Most(pixel.save_max_it)
          ELSE pixel = ClearedPixel

\* Where the thread of control can be while a pixel calculates or asks for something.
Control == /\ pc = "pixel" => pixel.active /\ ~plot_pending /\ ~scrub_pending
           /\ plot_pending \/ scrub_pending => pc \in {"tail", "loop"}

Types == /\ pixel \in PixelFields /\ max_iterations \in Nat /\ col \in 1 .. NPixels + 1
         /\ plot_pending \in BOOLEAN /\ scrub_pending \in BOOLEAN

IInv == Types /\ PendingOfPixel /\ Control /\ InStep

-----------------------------------------------------------------------------
\* A cleared pixel is a pixel.
LEMMA ClearedType == ClearedPixel \in PixelFields
BY DEF ClearedPixel, PixelFields

\* orbit_calc runs once in an iteration; when the orbit escapes the pixel has made
\* the iterations of an undisturbed one, and otherwise it is still under way.
LEMMA OrbitCalcStep ==
    ASSUME NEW p \in PixelFields, col \in 1 .. NPixels, Underway(p, col), p.started
    PROVE  /\ OrbitCalc(p) \in PixelFields
           /\ OrbitCalc(p).save_max_it = p.save_max_it
           /\ OrbitCalc(p).color_iter = p.color_iter
           /\ OrbitCalc(p).active = p.active /\ OrbitCalc(p).complete = p.complete
           /\ OrbitCalc(p).started /\ OrbitCalc(p).calc_completed
           /\ OrbitCalc(p).plotted = p.plotted
           /\ OrbitCalc(p).iterated = p.color_iter
           /\ Escapes(OrbitCalc(p)) => p.color_iter = Undisturbed(col, p.save_max_it)
           /\ ~Escapes(OrbitCalc(p)) => Underway(OrbitCalc(p), col)
<1> DEFINE n == IF p.calc_completed THEN p.iterated ELSE p.iterated + 1
           r == IF p.calc_completed THEN p.calc_result ELSE p.iterated + 1 >= Escape[col]
           d == IF Distance THEN p.derived + 1 ELSE p.derived
           q == OrbitCalc(p)
<1>0. /\ Escape[col] \in Nat \ {0} /\ TrailLimit \in Nat \ {0, 1} /\ StarTrail \in BOOLEAN
      /\ Distance \in BOOLEAN
  BY PixelAssumption
<1>1. /\ p.iterated \in Nat /\ p.color_iter \in Nat /\ p.derived \in Nat
      /\ p.calc_result \in BOOLEAN /\ p.calc_completed \in BOOLEAN /\ p.save_max_it \in Nat
  BY DEF PixelFields
<1>2. q = [p EXCEPT !.derived = d, !.iterated = n, !.calc_result = r,
                    !.calc_completed = TRUE]
  BY <1>1 DEF OrbitCalc, PixelFields
<1>3. n = p.color_iter /\ (r <=> n >= Escape[col]) /\ d \in Nat /\ r \in BOOLEAN /\ n \in Nat
  <2>1. CASE p.calc_completed
    BY <1>0, <1>1, <2>1 DEF Underway
  <2>2. CASE ~p.calc_completed
    BY <1>0, <1>1, <2>2 DEF Underway
  <2> QED BY <2>1, <2>2
<1>4. 1 <= n /\ n < Most(p.save_max_it) /\ Most(p.save_max_it) \in Nat
  BY <1>0, <1>1, <1>3 DEF Underway, Most
<1>5. /\ q \in PixelFields /\ q.iterated = n /\ q.calc_result = r /\ q.calc_completed
      /\ q.save_max_it = p.save_max_it /\ q.color_iter = p.color_iter
      /\ q.active = p.active /\ q.complete = p.complete /\ q.started = p.started
      /\ q.plotted = p.plotted
  <2> HIDE DEF n, r, d, q
  <2> QED BY <1>2, <1>3 DEF PixelFields
<1>6. ASSUME r, ~GoesOn
      PROVE  p.color_iter = Undisturbed(col, p.save_max_it)
  <2>1. n = Escape[col]
    BY <1>0, <1>1, <1>3, <1>6 DEF Underway
  <2>2. /\ Most(p.save_max_it) > 1 /\ ~(Escape[col] >= Most(p.save_max_it))
    BY <1>0, <1>4, <2>1
  <2> QED BY <1>0, <1>3, <1>4, <1>6, <2>1, <2>2 DEF Undisturbed, Most, GoesOn
<1>7. Escapes(q) <=> (r /\ ~GoesOn)
  BY <1>0, <1>5 DEF Escapes, GoesOn
<1>8. ASSUME ~(r /\ ~GoesOn)
      PROVE  Underway(q, col)
  <2> HIDE DEF n, r, d, q
  <2> QED BY <1>0, <1>1, <1>3, <1>4, <1>5, <1>8 DEF Underway
<1> HIDE DEF n, r, d, q
<1>9. /\ q \in PixelFields /\ q.save_max_it = p.save_max_it /\ q.color_iter = p.color_iter
      /\ q.active = p.active /\ q.complete = p.complete /\ q.started /\ q.calc_completed
      /\ q.plotted = p.plotted /\ q.iterated = p.color_iter
      /\ Escapes(q) => p.color_iter = Undisturbed(col, p.save_max_it)
      /\ ~Escapes(q) => Underway(q, col)
  BY <1>3, <1>5, <1>6, <1>7, <1>8
<1> QED BY <1>9 DEF q

\* A pixel that has made the last iteration it may make was not due to stop earlier.
LEMMA LastIteration ==
    ASSUME NEW p \in PixelFields, col \in 1 .. NPixels, Underway(p, col), ~p.started,
           p.color_iter + 1 >= Most(p.save_max_it)
    PROVE  p.color_iter + 1 = Undisturbed(col, p.save_max_it)
<1>0. /\ Escape[col] \in Nat \ {0} /\ TrailLimit \in Nat \ {0, 1} /\ StarTrail \in BOOLEAN
      /\ Distance \in BOOLEAN
  BY PixelAssumption
<1>1. /\ p.color_iter \in Nat /\ p.save_max_it \in Nat /\ p.iterated = p.color_iter
      /\ Most(p.save_max_it) \in Nat
  BY <1>0 DEF PixelFields, Underway, Most
<1>2. CASE Most(p.save_max_it) <= 1
  <2>1. p.color_iter + 1 = 1
    BY <1>1, <1>2 DEF Underway
  <2> QED BY <1>1, <1>2, <2>1 DEF Undisturbed, Most
<1>3. CASE Most(p.save_max_it) > 1
  <2>1. p.color_iter + 1 = Most(p.save_max_it)
    BY <1>1, <1>3 DEF Underway
  <2>2. GoesOn \/ Escape[col] >= Most(p.save_max_it)
    BY <1>0, <1>1, <2>1 DEF Underway
  <2> QED BY <1>1, <1>3, <2>1, <2>2 DEF Undisturbed, Most, GoesOn
<1> QED BY <1>1, <1>2, <1>3

-----------------------------------------------------------------------------
LEMMA InitIInv == Init => IInv
<1> SUFFICES ASSUME Init
             PROVE  IInv
  OBVIOUS
<1>1. /\ pixel = ClearedPixel /\ max_iterations = Limit /\ col = 1
      /\ plot_pending = FALSE /\ scrub_pending = FALSE /\ pc = "loop"
  BY DEF Init
<1>2. ~ClearedPixel.active
  BY DEF ClearedPixel
<1>3. Types
  <2>1. Limit \in Nat /\ 1 \in 1 .. NPixels + 1
    BY PixelAssumption
  <2>2. pixel \in PixelFields
    BY <1>1, ClearedType
  <2> QED BY <1>1, <2>1, <2>2 DEF Types
<1>4. PendingOfPixel /\ Control
  BY <1>1 DEF PendingOfPixel, Control
<1>5. InStep
  BY <1>1, <1>2 DEF InStep
<1> QED BY <1>3, <1>4, <1>5 DEF IInv

\* Every step keeps the invariant, whatever the user types and whenever the loop runs.
LEMMA NextIInv == IInv /\ [Next]_vars => IInv'
<1> SUFFICES ASSUME IInv, [Next]_vars
             PROVE  IInv'
  OBVIOUS
<1> USE DEF IInv, PendingOfPixel
<1>0. /\ Types /\ Control /\ InStep /\ NPixels \in Nat \ {0}
      /\ Escape \in [1 .. NPixels -> Nat \ {0}]
      /\ TrailLimit \in Nat \ {0, 1} /\ StarTrail \in BOOLEAN /\ Distance \in BOOLEAN
  BY PixelAssumption
<1>a. /\ ClearedPixel \in PixelFields /\ ~ClearedPixel.active
      /\ ClearedPixel.save_max_it \in Nat
  BY ClearedType DEF ClearedPixel, PixelFields
<1>b. ASSUME Calculates
      PROVE  /\ pixel.active /\ pixel.started /\ ~pixel.complete /\ pc = "pixel"
             /\ Underway(pixel, col) /\ col \in 1 .. NPixels /\ pixel \in PixelFields
             /\ ~plot_pending /\ ~scrub_pending
             /\ max_iterations = Most(pixel.save_max_it)
  BY <1>0, <1>b DEF Calculates, Iterating, Types, Control, InStep
<1>1. CASE UNCHANGED vars
  BY <1>0, <1>1 DEF vars, pass_vars, return_vars, input_vars, image_vars, Types, Control,
                    InStep
<1>2. CASE PressKey
  BY <1>0, <1>2 DEF PressKey, pass_vars, return_vars, image_vars, Types, Control, InStep
<1>3. CASE CallPixel
  <2>1. CASE pixel.active
    BY <1>0, <1>3, <2>1 DEF CallPixel, return_vars, Types, Control, InStep, Most
  <2>2. CASE ~pixel.active
    <3>1. pixel = ClearedPixel
      BY <1>0, <2>2 DEF InStep
    <3>2. pixel' = [ClearedPixel EXCEPT !.active = TRUE, !.save_max_it = max_iterations,
                                        !.color_iter = 0, !.started = FALSE,
                                        !.checked = FALSE, !.calc_completed = FALSE,
                                        !.calc_result = FALSE, !.plotted = FALSE,
                                        !.iterated = 0, !.derived = 0]
      BY <1>3, <2>2, <3>1 DEF CallPixel
    <3>3. /\ pixel' \in PixelFields /\ pixel'.active /\ ~pixel'.complete /\ ~pixel'.started
          /\ pixel'.color_iter = 0 /\ pixel'.iterated = 0 /\ ~pixel'.calc_completed
          /\ pixel'.save_max_it = max_iterations
      BY <1>0, <1>a, <3>2 DEF Types, ClearedPixel, PixelFields
    <3>4. /\ col' = col /\ col \in 1 .. NPixels /\ pc' = "pixel"
          /\ ~plot_pending' /\ ~scrub_pending' /\ plot_pending' \in BOOLEAN
          /\ scrub_pending' \in BOOLEAN
          /\ max_iterations' = Most(max_iterations)
      BY <1>0, <1>3 DEF CallPixel, Most, Types, return_vars
    <3>5. Underway(pixel', col')
      BY <1>0, <3>3, <3>4 DEF Underway
    <3> QED BY <1>0, <3>3, <3>4, <3>5 DEF Types, Control, InStep, Most
  <2> QED BY <2>1, <2>2
<1>4. CASE NextIteration
  <2>1. /\ pixel.active /\ ~pixel.started /\ ~pixel.complete /\ Underway(pixel, col)
        /\ col \in 1 .. NPixels /\ max_iterations = Most(pixel.save_max_it)
        /\ pixel \in PixelFields /\ pc = "pixel"
    BY <1>0, <1>4 DEF NextIteration, Iterating, Types, Control, InStep
  <2> DEFINE last == pixel.color_iter + 1 >= max_iterations
  <2>2. /\ pixel.color_iter \in Nat /\ pixel.save_max_it \in Nat /\ max_iterations \in Nat
        /\ last \in BOOLEAN
    BY <1>0, <2>1 DEF PixelFields, Types
  <2>3. pixel' = [pixel EXCEPT !.color_iter = pixel.color_iter + 1, !.checked = FALSE,
                               !.calc_completed = FALSE, !.calc_result = FALSE,
                               !.started = ~last, !.complete = last]
    BY <1>4 DEF NextIteration
  <2>4. /\ pixel' \in PixelFields /\ pixel'.active /\ (pixel'.complete <=> last)
        /\ (pixel'.started <=> ~last) /\ pixel'.color_iter = pixel.color_iter + 1
        /\ ~pixel'.calc_completed /\ pixel'.iterated = pixel.iterated
        /\ pixel'.save_max_it = pixel.save_max_it
    <3>1. pixel.color_iter + 1 \in Nat
      BY <2>2
    <3>2. CASE last
      <4>1. pixel' = [pixel EXCEPT !.color_iter = pixel.color_iter + 1, !.checked = FALSE,
                                   !.calc_completed = FALSE, !.calc_result = FALSE,
                                   !.started = FALSE, !.complete = TRUE]
        <5>1. (~last) = FALSE /\ last = TRUE
          BY <3>2
        <5> HIDE DEF last
        <5> QED BY <2>3, <5>1
      <4> QED BY <2>1, <3>1, <3>2, <4>1 DEF PixelFields
    <3>3. CASE ~last
      <4>1. pixel' = [pixel EXCEPT !.color_iter = pixel.color_iter + 1, !.checked = FALSE,
                                   !.calc_completed = FALSE, !.calc_result = FALSE,
                                   !.started = TRUE, !.complete = FALSE]
        <5>1. (~last) = TRUE /\ last = FALSE
          BY <3>3
        <5> HIDE DEF last
        <5> QED BY <2>3, <5>1
      <4> QED BY <2>1, <3>1, <3>3, <4>1 DEF PixelFields
    <3> QED BY <3>2, <3>3
  <2>5. CASE last
    <3>1. pixel'.color_iter = Undisturbed(col, pixel'.save_max_it)
      BY <2>1, <2>4, <2>5, LastIteration
    <3>2. pixel'.iterated = pixel'.color_iter - 1
      BY <2>1, <2>2, <2>4 DEF Underway
    <3> QED BY <1>0, <1>4, <2>1, <2>2, <2>4, <2>5, <3>1, <3>2
            DEF NextIteration, return_vars, Types, Control, InStep, Finished
  <2>6. CASE ~last
    <3>1. Underway(pixel', col)
      BY <1>0, <2>1, <2>2, <2>4, <2>6 DEF Underway
    <3> QED BY <1>0, <1>4, <2>1, <2>2, <2>4, <2>6, <3>1
            DEF NextIteration, return_vars, Types, Control, InStep
  <2> QED BY <2>5, <2>6
<1>5. CASE PixelInterrupted
  <2>1. pc' = "tail" /\ pixel' = ClearedPixel /\ max_iterations' = ClearedPixel.save_max_it
        /\ ~scrub_pending' /\ scrub_pending' \in BOOLEAN /\ plot_pending' = plot_pending
        /\ ~plot_pending /\ col' = col
    BY <1>0, <1>5 DEF PixelInterrupted, LooksAtKeyboard, Iterating, Return, Control
  <2> QED BY <1>0, <1>a, <2>1 DEF Types, Control, InStep
<1>6. CASE PixelSlice
  <2>1. /\ pixel.active /\ pixel.started /\ ~pixel.complete /\ Underway(pixel, col)
        /\ pixel \in PixelFields /\ ~plot_pending /\ ~scrub_pending
        /\ max_iterations = Most(pixel.save_max_it) /\ col \in 1 .. NPixels
    BY <1>0, <1>6 DEF PixelSlice, LooksAtKeyboard, Iterating, Types, Control, InStep
  <2>2. /\ pixel' = [pixel EXCEPT !.checked = TRUE] /\ pc' = "tail" /\ col' = col
        /\ UNCHANGED <<max_iterations, plot_pending, scrub_pending>>
    BY <1>6 DEF PixelSlice, Return, return_vars
  <2>3. /\ pixel' \in PixelFields /\ pixel'.active /\ ~pixel'.complete
        /\ pixel'.save_max_it = pixel.save_max_it
    BY <2>1, <2>2 DEF PixelFields
  <2>4. Underway(pixel', col)
    BY <2>1, <2>2 DEF PixelFields, Underway
  <2> QED BY <1>0, <2>1, <2>2, <2>3, <2>4 DEF Types, Control, InStep
<1>7. CASE LeaveOrbit
  <2>1. /\ Calculates /\ Escapes(OrbitCalc(pixel))
        /\ pixel' = [OrbitCalc(pixel) EXCEPT !.complete = TRUE]
        /\ UNCHANGED <<max_iterations, col, pc, plot_pending, scrub_pending>>
    BY <1>7 DEF LeaveOrbit, return_vars
  <2> DEFINE q == OrbitCalc(pixel)
  <2>2. /\ q \in PixelFields /\ q.save_max_it = pixel.save_max_it /\ q.active
        /\ q.iterated = pixel.color_iter /\ q.color_iter = pixel.color_iter
        /\ q.color_iter = Undisturbed(col, pixel.save_max_it)
    BY <1>b, <2>1, OrbitCalcStep
  <2>3. /\ pixel' \in PixelFields /\ pixel'.active /\ pixel'.complete
        /\ pixel'.save_max_it = pixel.save_max_it /\ Finished(pixel', col)
    <3> HIDE DEF q
    <3>1. pixel' = [q EXCEPT !.complete = TRUE]
      BY <2>1 DEF q
    <3> QED BY <2>2, <3>1 DEF PixelFields, Finished
  <2> QED BY <1>0, <1>b, <2>1, <2>3 DEF Types, Control, InStep
<1>8. CASE QueueOrbitPlot
  <2>1. /\ Calculates /\ ~Escapes(OrbitCalc(pixel)) /\ pixel' = OrbitCalc(pixel)
        /\ pc' = "tail" /\ plot_pending' = TRUE /\ ~pixel.plotted
        /\ UNCHANGED <<max_iterations, col, scrub_pending>>
    BY <1>8 DEF QueueOrbitPlot, Return
  <2>2. /\ pixel' \in PixelFields /\ pixel'.save_max_it = pixel.save_max_it
        /\ pixel'.active /\ pixel'.calc_completed /\ ~pixel'.complete
        /\ Underway(pixel', col) /\ ~pixel'.plotted
    BY <1>b, <2>1, OrbitCalcStep
  <2> QED BY <1>0, <1>b, <2>1, <2>2 DEF Types, Control, InStep
<1>9. CASE EndIteration
  <2> DEFINE q == OrbitCalc(pixel)
  <2>1. /\ Calculates /\ ~Escapes(q)
        /\ pixel' = [q EXCEPT !.plotted = FALSE, !.calc_completed = FALSE,
                              !.calc_result = FALSE, !.started = FALSE]
        /\ UNCHANGED <<max_iterations, col, pc, plot_pending, scrub_pending>>
    BY <1>9 DEF EndIteration, return_vars
  <2>2. /\ q \in PixelFields /\ q.save_max_it = pixel.save_max_it /\ q.active
        /\ ~q.complete /\ q.color_iter = pixel.color_iter /\ q.iterated = pixel.color_iter
        /\ q.started /\ Underway(q, col)
    BY <1>b, <2>1, OrbitCalcStep
  <2>3. /\ pixel' \in PixelFields /\ pixel'.active /\ ~pixel'.complete
        /\ pixel'.save_max_it = pixel.save_max_it /\ Underway(pixel', col)
    <3> HIDE DEF q
    <3> QED BY <2>1, <2>2 DEF PixelFields, Underway
  <2> QED BY <1>0, <1>b, <2>1, <2>3 DEF Types, Control, InStep
<1>10. CASE QueueScrub
  BY <1>0, <1>10 DEF QueueScrub, Completed, NeedsScrub, Return, pass_vars, Types, Control,
                     InStep
<1>11. ASSUME NEW looks \in BOOLEAN, PlotPixel(looks)
       PROVE  IInv'
  <2>1. /\ pc = "pixel" /\ pixel' = ClearedPixel /\ ~scrub_pending' /\ scrub_pending' \in BOOLEAN
        /\ plot_pending' = plot_pending /\ max_iterations' = pixel.save_max_it
        /\ col' \in {col, col + 1} /\ pc' \in {"tail", "loop"}
    BY <1>11 DEF PlotPixel, Completed, NextCol
  <2>2. ~plot_pending /\ col \in 1 .. NPixels /\ pixel.save_max_it \in Nat
    BY <1>0, <2>1 DEF Types, Control, InStep, PixelFields
  <2> QED BY <1>0, <1>a, <2>1, <2>2 DEF Types, Control, InStep
<1>12. CASE RunTail
  BY <1>0, <1>12 DEF RunTail, pass_vars, return_vars, Types, Control, InStep
<1>13. ASSUME NEW places, DriveOrbitPlot(places)
       PROVE  IInv'
  <2>1. /\ plot_pending /\ pc' = "poll" /\ ~plot_pending' /\ plot_pending' \in BOOLEAN
        /\ pixel' = [pixel EXCEPT !.plotted = TRUE]
        /\ UNCHANGED <<max_iterations, col, scrub_pending>>
    BY <1>13 DEF DriveOrbitPlot, MarkedPlotted
  <2>2. pixel.active /\ pixel \in PixelFields /\ ~scrub_pending
    BY <1>0, <2>1 DEF Types
  <2>3. /\ pixel' \in PixelFields /\ pixel'.active /\ pixel'.complete = pixel.complete
        /\ pixel'.save_max_it = pixel.save_max_it
        /\ Underway(pixel, col) => Underway(pixel', col)
        /\ Finished(pixel, col) => Finished(pixel', col)
    BY <2>1, <2>2 DEF PixelFields, Underway, Finished
  <2> QED BY <1>0, <2>1, <2>2, <2>3 DEF Types, Control, InStep
<1>14. CASE DriveScrub
  <2>1. /\ scrub_pending /\ ~plot_pending /\ pc' = "poll" /\ ~scrub_pending'
        /\ scrub_pending' \in BOOLEAN
        /\ pixel' = [pixel EXCEPT !.scrubbed = TRUE]
        /\ UNCHANGED <<max_iterations, col, plot_pending>>
    BY <1>14 DEF DriveScrub
  <2>2. pixel.active /\ pixel \in PixelFields
    BY <1>0, <2>1 DEF Types
  <2>3. /\ pixel' \in PixelFields /\ pixel'.active /\ pixel'.complete = pixel.complete
        /\ pixel'.save_max_it = pixel.save_max_it
        /\ Underway(pixel, col) => Underway(pixel', col)
        /\ Finished(pixel, col) => Finished(pixel', col)
    BY <2>1, <2>2 DEF PixelFields, Underway, Finished
  <2> QED BY <1>0, <2>1, <2>2, <2>3 DEF Types, Control, InStep
<1>15. CASE UiPoll
  <2>1. pc = "poll" /\ pc' \in {"menu", "loop"} /\ UNCHANGED <<max_iterations, col, plot_pending>>
    BY <1>15 DEF UiPoll
  <2>2. ~plot_pending /\ ~scrub_pending
    BY <1>0, <2>1 DEF Control
  <2>3. CASE pixel' = ClearedPixel /\ scrub_pending' = FALSE
    BY <1>0, <1>a, <2>1, <2>2, <2>3 DEF Types, Control, InStep
  <2>4. CASE UNCHANGED <<pixel, scrub_pending>>
    BY <1>0, <2>1, <2>2, <2>4 DEF Types, Control, InStep
  <2> QED BY <1>15, <2>3, <2>4 DEF UiPoll
<1>16. CASE Complete
  BY <1>0, <1>16 DEF Complete, pass_vars, return_vars, Types, Control, InStep
<1>17. CASE Resume
  BY <1>0, <1>17 DEF Resume, pass_vars, return_vars, Types, Control, InStep
<1>18. CASE Idle
  BY <1>1, <1>18 DEF Idle
<1> QED
  BY <1>1, <1>2, <1>3, <1>4, <1>5, <1>6, <1>7, <1>8, <1>9, <1>10, <1>11, <1>12, <1>13,
     <1>14, <1>15, <1>16, <1>17, <1>18
  DEF Next, Engine, CalcPixel, Drive

\* The invariant of every state the engine reaches.
THEOREM PixelIInv == Spec => []IInv
<1>1. Init => IInv
  BY InitIInv
<1>2. IInv /\ [Next]_vars => IInv'
  BY NextIInv
<1> QED BY <1>1, <1>2, PTL DEF Spec

\* The limit is the user's: the global one, and the one a pixel in progress keeps to
\* restore it from.  A star trail replaces the global one.
LimitKept == /\ max_iterations = Limit
             /\ pixel.active => pixel.save_max_it = Limit

LimitInv == limit_lost \/ StarTrail \/ LimitKept

\* What is lost stays lost.
LEMMA StaysLost == limit_lost /\ [Next]_vars => limit_lost'
<1>1. limit_lost /\ UNCHANGED vars => limit_lost'
  BY DEF vars, image_vars
<1>2. limit_lost /\ Next => limit_lost'
  BY DEF Next, Engine, CalcPixel, Drive, vars, image_vars, PressKey, Idle, CallPixel, NextIteration,
         PixelInterrupted, PixelSlice, LeaveOrbit, QueueOrbitPlot, EndIteration, QueueScrub,
         PlotPixel, RunTail, DriveOrbitPlot, DriveScrub, UiPoll, Complete, Resume
<1> QED BY <1>1, <1>2

\* Only an interruption within a pixel loses the limit.
LEMMA NextLimit == IInv /\ LimitInv /\ [Next]_vars => LimitInv'
<1> SUFFICES ASSUME IInv, LimitKept, ~limit_lost', ~StarTrail, [Next]_vars
             PROVE  LimitKept'
  BY StaysLost DEF LimitInv
<1> USE DEF LimitKept
<1>0. /\ pixel \in PixelFields /\ ~ClearedPixel.active
      /\ pc = "pixel" => pixel.active /\ pixel.save_max_it = Limit
  BY DEF IInv, Types, Control, ClearedPixel
<1>1. CASE UNCHANGED vars \/ PressKey \/ Idle \/ QueueScrub \/ RunTail \/ Complete \/ Resume
  <2>1. UNCHANGED pass_vars
    BY <1>1 DEF vars, PressKey, Idle, QueueScrub, RunTail, Complete, Resume
  <2> QED BY <2>1 DEF pass_vars
<1>2. CASE CallPixel
  <2>1. max_iterations' = Limit
    BY <1>2 DEF CallPixel
  <2>2. CASE pixel.active
    BY <1>2, <2>1, <2>2 DEF CallPixel
  <2>3. CASE ~pixel.active
    <3>1. pixel'.save_max_it = max_iterations
      BY <1>0, <1>2, <2>3 DEF CallPixel, PixelFields
    <3> QED BY <2>1, <3>1
  <2> QED BY <2>2, <2>3
<1>3. CASE NextIteration \/ PixelSlice
  <2>1. pixel'.save_max_it = pixel.save_max_it /\ pc = "pixel" /\ UNCHANGED max_iterations
    BY <1>0, <1>3 DEF NextIteration, PixelSlice, LooksAtKeyboard, Iterating, PixelFields
  <2> QED BY <1>0, <2>1
<1>4. CASE PixelInterrupted
  BY <1>4 DEF PixelInterrupted
<1>5. CASE LeaveOrbit \/ QueueOrbitPlot \/ EndIteration
  <2>1. pc = "pixel" /\ UNCHANGED max_iterations
    BY <1>5 DEF LeaveOrbit, QueueOrbitPlot, EndIteration, Calculates, Iterating
  <2> DEFINE q == OrbitCalc(pixel)
  <2>2. q.save_max_it = pixel.save_max_it /\ q \in PixelFields
    <3>1. pixel.active /\ pixel.started /\ ~pixel.complete
      BY <1>0, <1>5, <2>1 DEF LeaveOrbit, QueueOrbitPlot, EndIteration, Calculates, Iterating
    <3>2. col \in 1 .. NPixels /\ Underway(pixel, col)
      BY <3>1 DEF IInv, InStep
    <3> QED BY <1>0, <3>1, <3>2, OrbitCalcStep
  <2>3. pixel' \in {q, [q EXCEPT !.complete = TRUE],
                    [q EXCEPT !.plotted = FALSE, !.calc_completed = FALSE,
                              !.calc_result = FALSE, !.started = FALSE]}
    BY <1>5 DEF LeaveOrbit, QueueOrbitPlot, EndIteration
  <2> HIDE DEF q
  <2>4. pixel'.save_max_it = pixel.save_max_it
    BY <2>2, <2>3 DEF PixelFields
  <2> QED BY <1>0, <2>1, <2>4
<1>6. ASSUME NEW looks \in BOOLEAN, PlotPixel(looks)
      PROVE  LimitKept'
  BY <1>0, <1>6 DEF PlotPixel, Completed
<1>7. ASSUME NEW places, DriveOrbitPlot(places)
      PROVE  LimitKept'
  BY <1>0, <1>7 DEF DriveOrbitPlot, MarkedPlotted, PixelFields
<1>8. CASE DriveScrub
  BY <1>0, <1>8 DEF DriveScrub, PixelFields
<1>9. CASE UiPoll
  BY <1>0, <1>9 DEF UiPoll
<1> QED
  BY <1>1, <1>2, <1>3, <1>4, <1>5, <1>6, <1>7, <1>8, <1>9
  DEF Next, Engine, CalcPixel, Drive

\* While the image has the limit the user set, returning to the loop, displaying the orbit
\* and starting over after a key that the pass or the loop found leave no trace in the
\* iterations calculate_standard_pixel colours the pixel by.
THEOREM PixelPlottedAsUndisturbed == Spec => PlottedAsUndisturbed
<1> DEFINE Right == \A looks \in BOOLEAN : PlotPixel(looks) =>
                       /\ (limit_lost => StarTrail) => pixel.color_iter = Undisturbed(col, Limit)
                       /\ pixel.iterated \in {pixel.color_iter - 1, pixel.color_iter}
<1>1. IInv /\ LimitInv => Right
  <2> SUFFICES ASSUME IInv, LimitInv, NEW looks \in BOOLEAN, PlotPixel(looks)
               PROVE  /\ (limit_lost => StarTrail) => pixel.color_iter = Undisturbed(col, Limit)
                      /\ pixel.iterated \in {pixel.color_iter - 1, pixel.color_iter}
    OBVIOUS
  <2>1. pixel.active /\ Finished(pixel, col)
    BY DEF IInv, Control, InStep, PlotPixel, Completed
  <2>2. CASE StarTrail
    BY <2>1, <2>2 DEF Finished, Undisturbed
  <2>3. CASE limit_lost /\ ~StarTrail
    BY <2>1, <2>3 DEF Finished
  <2>4. CASE ~limit_lost /\ ~StarTrail
    BY <2>1, <2>4 DEF Finished, LimitInv, LimitKept
  <2> QED BY <2>2, <2>3, <2>4
<1>2. IInv /\ LimitInv /\ [Next]_vars => [Right]_vars
  BY <1>1
<1>3. Init => LimitInv
  BY DEF Init, LimitInv, LimitKept, ClearedPixel
<1>4. Spec => [](IInv /\ LimitInv)
  BY <1>3, NextLimit, InitIInv, NextIInv, PTL DEF Spec
<1>5. PlottedAsUndisturbed <=> [][Right]_vars
  BY DEF PlottedAsUndisturbed
<1> HIDE DEF Right
<1> QED BY <1>2, <1>4, <1>5, PTL DEF Spec

-----------------------------------------------------------------------------
\* The types of what the pixel leaves alone.
Overlays == [saved : Seq(Places \X BOOLEAN), save_flag : BOOLEAN, over : [Places -> BOOLEAN]]

InputTypes == overlay \in Overlays /\ show_orbit \in BOOLEAN
              /\ key \in {"none", "orbit", "other"} /\ calc_interrupted \in BOOLEAN

LoopTypes == /\ item_saved \in BOOLEAN /\ calc_status \in {"IN_PROGRESS", "RESUMABLE", "COMPLETED"}
             /\ limit_lost \in BOOLEAN
             /\ pc \in {"loop", "pixel", "tail", "poll", "menu"} /\ keys_left \in 0 .. MaxKeys

RestTypes == InputTypes /\ LoopTypes /\ colors \in [1 .. NPixels -> Nat]

\* A set of numbers that is not empty has a least one.
LEMMA Least == ASSUME NEW A \in SUBSET Nat, A # {} PROVE \E k \in A : \A j \in A : k <= j
<1> DEFINE R == {ss \in Nat \X Nat : ss[1] < ss[2]}
<1>1. IsWellFoundedOn(R, Nat)
  BY NatLessThanWellFounded DEF OpToRel
<1>2. PICK k \in A : \A j \in A : ~(<<j, k>> \in R)
  <2> HIDE DEF R
  <2> QED BY <1>1, WFMin
<1>3. ASSUME NEW j \in A PROVE k <= j
  <2>1. ~(j < k)
    BY <1>2
  <2> QED BY <2>1
<1> QED BY <1>3

\* An overlay that is drawn into, and one that is scrubbed, is an overlay.
LEMMA DrawnType == ASSUME NEW o \in Overlays, NEW place \in Places PROVE Drawn(o, place) \in Overlays
<1>1. o.over[place] \in BOOLEAN /\ [o.over EXCEPT ![place] = ~@] \in [Places -> BOOLEAN]
  BY DEF Overlays
<1>2. Append(o.saved, <<place, o.over[place]>>) \in Seq(Places \X BOOLEAN)
  BY <1>1 DEF Overlays
<1> QED BY <1>1, <1>2 DEF Drawn, Overlays

LEMMA OldestType ==
    ASSUME NEW saved \in Seq(Places \X BOOLEAN), NEW p \in Places, NEW k \in 1 .. Len(saved), saved[k][1] = p
    PROVE  Oldest(saved, p) \in BOOLEAN
<1> DEFINE at == {i \in 1 .. Len(saved) : saved[i][1] = p}
<1>1. at \in SUBSET Nat /\ at # {}
  BY DEF at
<1>2. \E i \in at : \A j \in at : i <= j
  BY <1>1, Least
<1>3. (CHOOSE i \in at : \A j \in at : i <= j) \in at
  BY <1>2
<1>4. \A i \in at : saved[i][2] \in BOOLEAN
  BY DEF at
<1>5. Oldest(saved, p) = saved[CHOOSE i \in at : \A j \in at : i <= j][2]
  BY DEF Oldest
<1> QED BY <1>3, <1>4, <1>5

LEMMA ScrubbedType == ASSUME NEW o \in Overlays PROVE Scrubbed(o) \in Overlays
<1> DEFINE covers(p) == o.save_flag /\ \E k \in 1 .. Len(o.saved) : o.saved[k][1] = p
           over == [p \in Places |-> IF covers(p) THEN Oldest(o.saved, p) ELSE o.over[p]]
<1>1. ASSUME NEW p \in Places PROVE (IF covers(p) THEN Oldest(o.saved, p) ELSE o.over[p]) \in BOOLEAN
  <2>1. o.saved \in Seq(Places \X BOOLEAN) /\ o.over[p] \in BOOLEAN
    BY DEF Overlays
  <2>2. CASE covers(p)
    <3>1. PICK k \in 1 .. Len(o.saved) : o.saved[k][1] = p
      BY <2>2
    <3> QED BY <2>1, <2>2, <3>1, OldestType
  <2>3. CASE ~covers(p)
    BY <2>1, <2>3
  <2> QED BY <2>2, <2>3
<1>2. over \in [Places -> BOOLEAN]
  BY <1>1
<1>3. Scrubbed(o) = [saved |-> <<>>, save_flag |-> FALSE, over |-> over]
  BY DEF Scrubbed
<1> HIDE DEF over
<1> QED BY <1>2, <1>3 DEF Overlays

\* The handlers leave the keyboard and the overlay well formed.
LEMMA DispatchTypes == ASSUME InputTypes, Dispatch PROVE InputTypes'
<1>1. overlay' = overlay \/ overlay' = Scrubbed(overlay)
  BY DEF Dispatch
<1>2. overlay' \in Overlays
  BY <1>1, ScrubbedType DEF InputTypes
<1>3. /\ calc_interrupted' = (calc_interrupted \/ key = "other")
      /\ key' = IF key = "orbit" THEN "none" ELSE key
      /\ show_orbit' = IF key = "orbit" THEN ~show_orbit ELSE show_orbit
  BY DEF Dispatch, Interrupted
<1>4. key' \in {"none", "orbit", "other"} /\ calc_interrupted' \in BOOLEAN
  BY <1>3 DEF InputTypes
<1>5. show_orbit' \in BOOLEAN
  BY <1>3 DEF InputTypes
<1> QED BY <1>2, <1>4, <1>5 DEF InputTypes

LEMMA InitTypes == Init => RestTypes
<1> SUFFICES ASSUME Init PROVE RestTypes
  OBVIOUS
<1>1. NoOverlay \in Overlays
  BY DEF NoOverlay, Overlays
<1>2. InputTypes
  BY <1>1 DEF Init, InputTypes
<1>3. LoopTypes
  <2>1. keys_left = MaxKeys /\ MaxKeys \in Nat
    BY PixelAssumption DEF Init
  <2>2. keys_left \in 0 .. MaxKeys
    BY <2>1
  <2> QED BY <2>2 DEF Init, LoopTypes
<1>4. colors \in [1 .. NPixels -> Nat]
  BY DEF Init
<1> QED BY <1>2, <1>3, <1>4 DEF RestTypes

LEMMA NextTypes == IInv /\ RestTypes /\ [Next]_vars => RestTypes'
<1> SUFFICES ASSUME IInv, RestTypes, [Next]_vars PROVE RestTypes'
  OBVIOUS
<1> USE DEF RestTypes
<1>0. NPixels \in Nat /\ MaxKeys \in Nat /\ KeysTyped \subseteq {"orbit", "other"}
  BY PixelAssumption
<1>1. CASE UNCHANGED vars \/ Idle \/ QueueScrub \/ NextIteration \/ LeaveOrbit \/ EndIteration \/ Complete
  <2>1. UNCHANGED <<input_vars, item_saved, limit_lost, colors, keys_left>>
    BY <1>1 DEF Idle, QueueScrub, NextIteration, LeaveOrbit, EndIteration, Complete, vars, pass_vars,
                image_vars
  <2>2. calc_status' \in {calc_status, "COMPLETED"} /\ pc' \in {pc, "tail", "menu"}
    BY <1>1 DEF Idle, QueueScrub, NextIteration, LeaveOrbit, EndIteration, Complete, vars, image_vars, Return
  <2> QED BY <2>1, <2>2 DEF InputTypes, LoopTypes, input_vars
<1>2. CASE PressKey
  BY <1>0, <1>2 DEF PressKey, pass_vars, image_vars, InputTypes, LoopTypes
<1>3. CASE CallPixel \/ QueueOrbitPlot
  <2>1. overlay' \in {overlay, [overlay EXCEPT !.save_flag = FALSE], [overlay EXCEPT !.saved = <<>>]}
    BY <1>3 DEF CallPixel, QueueOrbitPlot
  <2>2. overlay' \in Overlays
    <3>1. overlay \in Overlays
      BY DEF InputTypes
    <3>2. [overlay EXCEPT !.save_flag = FALSE] \in Overlays
      BY <3>1 DEF Overlays
    <3>3. [overlay EXCEPT !.saved = <<>>] \in Overlays
      <4>1. <<>> \in Seq(Places \X BOOLEAN)
        OBVIOUS
      <4> QED BY <3>1, <4>1 DEF Overlays
    <3> QED BY <2>1, <3>1, <3>2, <3>3
  <2>3. UNCHANGED <<key, calc_interrupted, show_orbit, image_vars, keys_left, colors>> /\ pc' \in {"pixel", "tail"}
    BY <1>3 DEF CallPixel, QueueOrbitPlot, Return
  <2> QED BY <2>2, <2>3 DEF InputTypes, LoopTypes, image_vars
<1>4. CASE PixelInterrupted \/ PixelSlice
  <2>1. /\ Dispatch /\ pc' = "tail" /\ UNCHANGED <<item_saved, calc_status, keys_left, colors>>
        /\ limit_lost' \in {limit_lost, TRUE}
    BY <1>4 DEF PixelInterrupted, PixelSlice, Return, image_vars
  <2>2. InputTypes'
    BY <2>1, DispatchTypes
  <2> QED BY <2>1, <2>2 DEF LoopTypes
<1>5. ASSUME NEW looks \in BOOLEAN, PlotPixel(looks) PROVE RestTypes'
  <2>1. /\ Dispatch \/ UNCHANGED input_vars
        /\ pc' \in {"tail", "loop"} /\ UNCHANGED <<image_vars, keys_left>>
        /\ colors' = [colors EXCEPT ![col] = pixel.color_iter]
    BY <1>5 DEF PlotPixel
  <2>2. InputTypes'
    BY <2>1, DispatchTypes DEF input_vars, InputTypes
  <2>3. colors' \in [1 .. NPixels -> Nat]
    BY <2>1 DEF IInv, Types, PixelFields
  <2> QED BY <2>1, <2>2, <2>3 DEF LoopTypes, image_vars
<1>6. CASE RunTail \/ UiPoll
  <2>1. /\ Dispatch /\ UNCHANGED <<limit_lost, keys_left, colors>> /\ pc' \in {"loop", "poll", "menu"}
        /\ item_saved' = item_saved \/ item_saved' = (item_saved \/ Interrupted)
        /\ calc_status' \in {calc_status, "RESUMABLE", "COMPLETED"}
    BY <1>6 DEF RunTail, UiPoll, pass_vars
  <2>2. InputTypes'
    BY <2>1, DispatchTypes
  <2>3. item_saved' \in BOOLEAN
    BY <2>1 DEF LoopTypes
  <2> QED BY <2>1, <2>2, <2>3 DEF LoopTypes
<1>7. ASSUME NEW places \in SUBSET Places, DriveOrbitPlot(places) PROVE RestTypes'
  <2> DEFINE o == IF places = {} THEN overlay ELSE Drawn(overlay, CHOOSE p \in places : TRUE)
  <2>1. o \in Overlays
    <3>1. CASE places = {}
      BY <3>1 DEF InputTypes
    <3>2. CASE places # {}
      <4>1. (CHOOSE p \in places : TRUE) \in Places
        BY <3>2
      <4> QED BY <3>2, <4>1, DrawnType DEF InputTypes
    <3> QED BY <3>1, <3>2
  <2>2. /\ pc' = "poll" /\ UNCHANGED <<image_vars, keys_left, colors>>
        /\ \/ overlay' = o /\ UNCHANGED <<key, calc_interrupted, show_orbit>>
           \/ /\ overlay' = IF show_orbit THEN Scrubbed(o) ELSE o
              /\ calc_interrupted' = Interrupted
              /\ key' = IF key = "orbit" THEN "none" ELSE key
              /\ show_orbit' = IF key = "orbit" THEN ~show_orbit ELSE show_orbit
    BY <1>7 DEF DriveOrbitPlot
  <2> HIDE DEF o
  <2>3. overlay' \in Overlays
    BY <2>1, <2>2, ScrubbedType
  <2>4. key' \in {"none", "orbit", "other"} /\ calc_interrupted' \in BOOLEAN
    BY <2>2 DEF InputTypes, Interrupted
  <2>5. show_orbit' \in BOOLEAN
    BY <2>2 DEF InputTypes
  <2> QED BY <2>2, <2>3, <2>4, <2>5 DEF InputTypes, LoopTypes, image_vars
<1>8. CASE DriveScrub
  <2>1. overlay' = Scrubbed(overlay) /\ pc' = "poll"
        /\ UNCHANGED <<key, calc_interrupted, show_orbit, image_vars, keys_left, colors>>
    BY <1>8 DEF DriveScrub
  <2>2. overlay' \in Overlays
    BY <2>1, ScrubbedType DEF InputTypes
  <2> QED BY <2>1, <2>2 DEF InputTypes, LoopTypes, image_vars
<1>9. CASE Resume
  <2>1. /\ key' = "none" /\ calc_interrupted' = FALSE /\ item_saved' = FALSE
        /\ calc_status' = "IN_PROGRESS" /\ pc' = "loop"
        /\ overlay' = [overlay EXCEPT !.save_flag = FALSE]
        /\ UNCHANGED <<colors, show_orbit, limit_lost, keys_left>>
    BY <1>9 DEF Resume, pass_vars
  <2>2. overlay' \in Overlays
    BY <2>1 DEF InputTypes, Overlays
  <2> QED BY <2>1, <2>2 DEF InputTypes, LoopTypes
<1>10. ASSUME Drive PROVE RestTypes'
  BY <1>7, <1>10 DEF Drive
<1> QED
  BY <1>1, <1>2, <1>3, <1>4, <1>5, <1>6, <1>8, <1>9, <1>10 DEF Next, Engine, CalcPixel

\* Whatever the user types and however often the orbit is drawn and scrubbed, the pixel,
\* the overlay and the loop around them keep their types, and what is pending belongs to
\* the pixel in progress.
THEOREM PixelAlwaysInv == Spec => []PixelInv
<1>1. Init => IInv /\ RestTypes
  BY InitIInv, InitTypes
<1>2. IInv /\ RestTypes /\ [Next]_vars => (IInv /\ RestTypes)'
  BY NextIInv, NextTypes
<1>3. IInv /\ RestTypes => PixelInv
  BY DEF IInv, Types, RestTypes, InputTypes, LoopTypes, Overlays, TypeOK, PixelInv
<1> QED BY <1>1, <1>2, <1>3, PTL DEF Spec

-----------------------------------------------------------------------------
\* The orbit over the image, while the orbits stay displayed.

\* The first value saved of a place is the one without a point.
FirstPlain(saved) == \A k \in 1 .. Len(saved) : (\A j \in 1 .. k - 1 : saved[j][1] # saved[k][1]) => ~saved[k][2]

Saves(saved, p) == \E k \in 1 .. Len(saved) : saved[k][1] = p

\* What has to be restored is saved.
Restores(o) == /\ \A p \in Places : o.over[p] => o.save_flag /\ Saves(o.saved, p)
               /\ o.save_flag => FirstPlain(o.saved)

NothingOver(o) == \A p \in Places : ~o.over[p]

\* Nothing is drawn outside a pixel, nor after its orbit was scrubbed; a key that interrupts waits
\* until the menu loop takes it.
OrbitInv == /\ Restores(overlay) /\ NoOrbitLeft
            /\ calc_interrupted => key = "other"
            /\ ~pixel.active \/ pixel.scrubbed => NothingOver(overlay)
            /\ pixel.scrubbed => pixel.complete
            /\ plot_pending => ~pixel.complete /\ (overlay.save_flag \/ overlay.saved = <<>>)

\* OrbitPlot::scrub removes every point, however they cover each other.
LEMMA ScrubbedPlain ==
    ASSUME NEW o \in Overlays, Restores(o)
    PROVE  NothingOver(Scrubbed(o)) /\ Restores(Scrubbed(o)) /\ Scrubbed(o).saved = <<>>
<1>1. ASSUME NEW p \in Places, o.save_flag, Saves(o.saved, p) PROVE ~Oldest(o.saved, p)
  <2> DEFINE at == {k \in 1 .. Len(o.saved) : o.saved[k][1] = p}
             first == CHOOSE k \in at : \A j \in at : k <= j
  <2>1. at \in SUBSET Nat /\ at # {}
    BY <1>1 DEF Saves
  <2>2. \E k \in at : \A j \in at : k <= j
    BY <2>1, Least
  <2>3. first \in at /\ \A j \in at : first <= j
    BY <2>2
  <2>4. Oldest(o.saved, p) = o.saved[first][2]
    BY DEF Oldest
  <2> HIDE DEF first
  <2>5. \A j \in 1 .. first - 1 : o.saved[j][1] # o.saved[first][1]
    <3> SUFFICES ASSUME NEW j \in 1 .. first - 1, o.saved[j][1] = o.saved[first][1] PROVE FALSE
      OBVIOUS
    <3>1. first \in 1 .. Len(o.saved) /\ o.saved[first][1] = p /\ Len(o.saved) \in Nat
      BY <2>3 DEF Overlays
    <3>2. j \in at
      BY <3>1
    <3> QED BY <2>3, <3>1, <3>2
  <2>6. first \in 1 .. Len(o.saved)
    BY <2>3
  <2>7. FirstPlain(o.saved)
    BY <1>1 DEF Restores
  <2> QED BY <2>4, <2>5, <2>6, <2>7 DEF FirstPlain
<1>2. ASSUME NEW p \in Places PROVE ~Scrubbed(o).over[p]
  <2>1. Scrubbed(o).over[p] = IF o.save_flag /\ Saves(o.saved, p) THEN Oldest(o.saved, p) ELSE o.over[p]
    BY DEF Scrubbed, Saves
  <2>2. ~(o.save_flag /\ Saves(o.saved, p)) => ~o.over[p]
    BY DEF Restores
  <2> QED BY <1>1, <2>1, <2>2
<1>3. Scrubbed(o).saved = <<>> /\ ~Scrubbed(o).save_flag
  BY DEF Scrubbed
<1>4. NothingOver(Scrubbed(o))
  BY <1>2 DEF NothingOver
<1> QED BY <1>3, <1>4 DEF Restores, NothingOver

\* A point that is drawn keeps what it covers.
LEMMA DrawnRestores ==
    ASSUME NEW o \in Overlays, Restores(o), NEW place \in Places, o.save_flag \/ o.saved = <<>>
    PROVE  Restores(Drawn(o, place))
<1> DEFINE d == Drawn(o, place)
<1>1. /\ o.saved \in Seq(Places \X BOOLEAN) /\ o.over \in [Places -> BOOLEAN]
      /\ Len(o.saved) \in Nat
  BY DEF Overlays
<1>2. /\ d.saved = Append(o.saved, <<place, o.over[place]>>) /\ d.save_flag
      /\ d.over = [o.over EXCEPT ![place] = ~@]
  BY DEF Drawn
<1> HIDE DEF d
<1>3. /\ Len(d.saved) = Len(o.saved) + 1 /\ d.saved[Len(o.saved) + 1] = <<place, o.over[place]>>
      /\ \A k \in 1 .. Len(o.saved) : d.saved[k] = o.saved[k]
  BY <1>1, <1>2
<1>4. FirstPlain(o.saved)
  BY DEF Restores, FirstPlain
<1>5. ASSUME NEW p \in Places, d.over[p] PROVE Saves(d.saved, p)
  <2>1. CASE p = place
    BY <1>1, <1>3, <2>1 DEF Saves
  <2>2. CASE p # place
    <3>1. o.over[p]
      BY <1>1, <1>2, <1>5, <2>2
    <3>2. PICK k \in 1 .. Len(o.saved) : o.saved[k][1] = p
      BY <3>1 DEF Restores, Saves
    <3> QED BY <1>1, <1>3, <3>2 DEF Saves
  <2> QED BY <2>1, <2>2
<1>6. ASSUME NEW k \in 1 .. Len(d.saved), \A j \in 1 .. k - 1 : d.saved[j][1] # d.saved[k][1]
      PROVE  ~d.saved[k][2]
  <2>1. CASE k \in 1 .. Len(o.saved)
    <3>1. ASSUME NEW j \in 1 .. k - 1 PROVE o.saved[j][1] # o.saved[k][1]
      <4>1. j \in 1 .. Len(o.saved) /\ d.saved[j][1] # d.saved[k][1]
        BY <1>1, <1>6, <2>1, <3>1
      <4>2. d.saved[j] = o.saved[j] /\ d.saved[k] = o.saved[k]
        BY <1>3, <2>1, <4>1
      <4> QED BY <4>1, <4>2
    <3> QED BY <1>3, <1>4, <2>1, <3>1 DEF FirstPlain
  <2>2. CASE k = Len(o.saved) + 1
    <3>1. \A j \in 1 .. Len(o.saved) : o.saved[j][1] # place
      BY <1>1, <1>3, <1>6, <2>2
    <3>2. ~o.over[place]
      BY <3>1 DEF Restores, Saves
    <3>3. d.saved[k][2] = o.over[place]
      BY <1>3, <2>2
    <3> QED BY <3>2, <3>3
  <2> QED BY <1>1, <1>3, <2>1, <2>2
<1>7. FirstPlain(d.saved)
  BY <1>6 DEF FirstPlain
<1>8. Restores(d)
  BY <1>2, <1>5, <1>7 DEF Restores
<1> QED BY <1>8 DEF d

\* The handlers scrub the orbit for a key that interrupts.
LEMMA DispatchOrbit ==
    ASSUME InputTypes, Restores(overlay), calc_interrupted => key = "other", show_orbit, show_orbit', Dispatch
    PROVE  /\ Restores(overlay') /\ (calc_interrupted' => key' = "other")
           /\ Interrupted => NothingOver(overlay')
           /\ NothingOver(overlay) => NothingOver(overlay')
           /\ overlay.save_flag \/ overlay.saved = <<>> => overlay'.save_flag \/ overlay'.saved = <<>>
<1>1. /\ calc_interrupted' = (calc_interrupted \/ key = "other")
      /\ key' = IF key = "orbit" THEN "none" ELSE key
      /\ show_orbit' = IF key = "orbit" THEN ~show_orbit ELSE show_orbit
      /\ overlay' = IF key # "none" THEN Scrubbed(overlay) ELSE overlay
      /\ Interrupted <=> calc_interrupted \/ key = "other"
  BY DEF Dispatch, Interrupted
<1>2. key # "orbit"
  BY <1>1
<1>3. overlay \in Overlays
  BY DEF InputTypes
<1>4. NothingOver(Scrubbed(overlay)) /\ Restores(Scrubbed(overlay)) /\ Scrubbed(overlay).saved = <<>>
  BY <1>3, ScrubbedPlain
<1> QED BY <1>1, <1>2, <1>4

\* What orbit_calc leaves alone.
LEMMA OrbitCalcFields ==
    ASSUME NEW p \in PixelFields
    PROVE  /\ OrbitCalc(p).active = p.active /\ OrbitCalc(p).scrubbed = p.scrubbed
           /\ OrbitCalc(p).complete = p.complete /\ OrbitCalc(p) \in PixelFields
<1> DEFINE n == IF p.calc_completed THEN p.iterated ELSE p.iterated + 1
           r == IF p.calc_completed THEN p.calc_result ELSE p.iterated + 1 >= Escape[col]
           d == IF Distance THEN p.derived + 1 ELSE p.derived
<1>0. p.iterated \in Nat /\ p.derived \in Nat /\ p.calc_result \in BOOLEAN
  BY DEF PixelFields
<1>1. n \in Nat /\ r \in BOOLEAN /\ d \in Nat
  <2>1. n \in Nat /\ d \in Nat
    BY <1>0
  <2>2. (p.iterated + 1 >= Escape[col]) \in BOOLEAN
    OBVIOUS
  <2>3. r \in BOOLEAN
    <3>1. CASE p.calc_completed
      BY <1>0, <3>1, Zenon
    <3>2. CASE ~p.calc_completed
      BY <2>2, <3>2, Zenon
    <3> QED BY <3>1, <3>2
  <2> QED BY <2>1, <2>3
<1>2. OrbitCalc(p) = [p EXCEPT !.derived = d, !.iterated = n, !.calc_result = r, !.calc_completed = TRUE]
  BY DEF OrbitCalc, PixelFields
<1> HIDE DEF n, r, d
<1> QED BY <1>1, <1>2 DEF PixelFields

LEMMA InitOrbit == Init => OrbitInv
BY DEF Init, OrbitInv, Restores, NoOrbitLeft, NothingOver, NoOverlay, ClearedPixel, Saves, FirstPlain

LEMMA NextOrbit ==
    ASSUME IInv, RestTypes, OrbitInv, show_orbit, show_orbit', [Next]_vars
    PROVE  OrbitInv'
<1>0. /\ overlay \in Overlays /\ pixel \in PixelFields /\ PendingOfPixel /\ Control /\ InStep
      /\ InputTypes
  BY DEF IInv, Types, RestTypes, InputTypes
<1>1. CASE UNCHANGED vars \/ Idle \/ PressKey
  <2>1. UNCHANGED <<pass_vars, calc_interrupted, overlay, return_vars, pc>>
    BY <1>1 DEF Idle, PressKey, vars, input_vars
  <2>2. calc_interrupted' => key' = "other"
    BY <1>1 DEF Idle, PressKey, vars, input_vars, OrbitInv
  <2> QED BY <2>1, <2>2 DEF OrbitInv, NoOrbitLeft, pass_vars, return_vars
<1>2. CASE CallPixel
  <2>1. /\ overlay' = IF pixel.active THEN overlay ELSE [overlay EXCEPT !.save_flag = FALSE]
        /\ UNCHANGED <<key, calc_interrupted, plot_pending>> /\ ~plot_pending /\ pc' = "pixel"
    BY <1>2 DEF CallPixel, return_vars
  <2>2. CASE pixel.active
    <3>1. pixel' = pixel
      BY <1>2, <2>2 DEF CallPixel
    <3> QED BY <2>1, <2>2, <3>1 DEF OrbitInv, NoOrbitLeft
  <2>3. CASE ~pixel.active
    <3>1. pixel = ClearedPixel
      BY <1>0, <2>3 DEF InStep
    <3>2. pixel'.active /\ ~pixel'.scrubbed
      BY <1>2, <2>3, <3>1 DEF CallPixel, ClearedPixel
    <3>3. overlay'.over = overlay.over /\ ~overlay'.save_flag
      BY <1>0, <2>1, <2>3 DEF Overlays
    <3>4. NothingOver(overlay)
      BY <2>3 DEF OrbitInv
    <3> QED BY <2>1, <3>2, <3>3, <3>4 DEF OrbitInv, NoOrbitLeft, Restores, NothingOver
  <2> QED BY <2>2, <2>3
<1>3. CASE NextIteration \/ LeaveOrbit \/ EndIteration
  <2>1. /\ UNCHANGED <<input_vars, plot_pending, pc>> /\ pc = "pixel" /\ ~pixel.complete
    BY <1>3 DEF NextIteration, LeaveOrbit, EndIteration, Iterating, Calculates, return_vars
  <2>2. pixel.active /\ ~pixel.scrubbed /\ ~plot_pending
    BY <1>0, <2>1 DEF OrbitInv, Control
  <2>3. /\ OrbitCalc(pixel).active /\ ~OrbitCalc(pixel).scrubbed /\ OrbitCalc(pixel) \in PixelFields
    BY <1>0, <2>2, OrbitCalcFields
  <2>4. pixel'.active /\ ~pixel'.scrubbed
    BY <1>0, <1>3, <2>2, <2>3 DEF NextIteration, LeaveOrbit, EndIteration, PixelFields
  <2> QED BY <2>1, <2>2, <2>4 DEF OrbitInv, NoOrbitLeft, input_vars
<1>4. CASE QueueOrbitPlot
  <2>1. /\ overlay' = IF overlay.save_flag THEN overlay ELSE [overlay EXCEPT !.saved = <<>>]
        /\ UNCHANGED <<key, calc_interrupted>> /\ pc' = "tail" /\ pc = "pixel" /\ ~pixel.complete
        /\ pixel' = OrbitCalc(pixel)
    BY <1>4 DEF QueueOrbitPlot, Return, Calculates, Iterating
  <2>2. pixel.active /\ ~pixel.scrubbed
    BY <1>0, <2>1 DEF OrbitInv, Control
  <2>3. /\ OrbitCalc(pixel).active /\ ~OrbitCalc(pixel).scrubbed /\ ~OrbitCalc(pixel).complete
    BY <1>0, <2>1, <2>2, OrbitCalcFields
  <2>4. /\ overlay'.over = overlay.over /\ overlay'.save_flag = overlay.save_flag
        /\ overlay.save_flag => overlay' = overlay
        /\ ~overlay.save_flag => overlay'.saved = <<>>
    BY <1>0, <2>1 DEF Overlays
  <2>5. Restores(overlay')
    <3>1. Restores(overlay)
      BY DEF OrbitInv
    <3> QED BY <2>4, <3>1 DEF Restores
  <2> QED BY <2>1, <2>3, <2>4, <2>5 DEF OrbitInv, NoOrbitLeft
<1>5. CASE PixelInterrupted \/ PixelSlice \/ RunTail \/ UiPoll
  <2>1. Dispatch
    BY <1>5 DEF PixelInterrupted, PixelSlice, RunTail, UiPoll
  <2>2. /\ Restores(overlay') /\ (calc_interrupted' => key' = "other")
        /\ Interrupted => NothingOver(overlay')
        /\ NothingOver(overlay) => NothingOver(overlay')
        /\ overlay.save_flag \/ overlay.saved = <<>> => overlay'.save_flag \/ overlay'.saved = <<>>
    BY <1>0, <2>1, DispatchOrbit DEF OrbitInv
  <2>3. CASE PixelInterrupted \/ PixelSlice
    <3>1. pc = "pixel" /\ ~plot_pending /\ pixel.active
      BY <1>0, <2>3 DEF PixelInterrupted, PixelSlice, LooksAtKeyboard, Iterating, Control
    <3>2. /\ ~plot_pending' /\ pc' = "tail"
          /\ \/ pixel' = ClearedPixel /\ Interrupted
             \/ pixel' = [pixel EXCEPT !.checked = TRUE]
      BY <2>3, <3>1 DEF PixelInterrupted, PixelSlice, Return, return_vars
    <3>3. CASE pixel' = ClearedPixel /\ Interrupted
      BY <2>2, <3>2, <3>3 DEF OrbitInv, NoOrbitLeft, ClearedPixel
    <3>4. CASE pixel' = [pixel EXCEPT !.checked = TRUE]
      <4>1. /\ pixel'.active = pixel.active /\ pixel'.scrubbed = pixel.scrubbed
            /\ pixel'.complete = pixel.complete
        BY <1>0, <3>4 DEF PixelFields
      <4> QED BY <2>2, <3>1, <3>2, <4>1 DEF OrbitInv, NoOrbitLeft
    <3> QED BY <3>2, <3>3, <3>4
  <2>4. CASE RunTail
    <3>1. pixel' = pixel /\ plot_pending' = plot_pending /\ pc' \in {"loop", "poll"}
      BY <2>4 DEF RunTail, pass_vars, return_vars
    <3> QED BY <2>2, <3>1 DEF OrbitInv, NoOrbitLeft
  <2>5. CASE UiPoll
    <3>1. ~plot_pending /\ ~plot_pending'
      BY <1>0, <2>5 DEF UiPoll, Control
    <3>2. CASE Interrupted
      <4>1. pixel' = ClearedPixel
        BY <2>5, <3>2 DEF UiPoll
      <4> QED BY <2>2, <3>1, <3>2, <4>1 DEF OrbitInv, NoOrbitLeft, NothingOver, ClearedPixel
    <3>3. CASE ~Interrupted
      <4>1. pixel' = pixel /\ pc' = "loop"
        BY <2>5, <3>3 DEF UiPoll
      <4> QED BY <2>2, <3>1, <4>1 DEF OrbitInv, NoOrbitLeft
    <3> QED BY <3>2, <3>3
  <2> QED BY <1>5, <2>3, <2>4, <2>5
<1>6. CASE QueueScrub
  <2>1. UNCHANGED <<pixel, input_vars, plot_pending>> /\ pc' = "tail"
    BY <1>6 DEF QueueScrub, Return, pass_vars
  <2> QED BY <2>1 DEF OrbitInv, NoOrbitLeft, input_vars
<1>7. ASSUME NEW looks \in BOOLEAN, PlotPixel(looks) PROVE OrbitInv'
  <2>1. /\ pc = "pixel" /\ pixel.scrubbed /\ pixel' = ClearedPixel
        /\ plot_pending' = plot_pending /\ pc' \in {"tail", "loop"}
        /\ Dispatch \/ UNCHANGED input_vars
    BY <1>7 DEF PlotPixel, Completed, NeedsScrub
  <2>2. ~plot_pending /\ NothingOver(overlay)
    BY <1>0, <2>1 DEF OrbitInv, Control
  <2>3. Restores(overlay') /\ (calc_interrupted' => key' = "other") /\ NothingOver(overlay')
    BY <1>0, <2>1, <2>2, DispatchOrbit DEF OrbitInv, input_vars
  <2> QED BY <2>1, <2>2, <2>3 DEF OrbitInv, NoOrbitLeft, ClearedPixel
<1>8. ASSUME NEW places \in SUBSET Places, DriveOrbitPlot(places) PROVE OrbitInv'
  <2> DEFINE o == IF places = {} THEN overlay ELSE Drawn(overlay, CHOOSE p \in places : TRUE)
  <2>1. o \in Overlays /\ Restores(o)
    <3>1. CASE places = {}
      BY <1>0, <3>1 DEF OrbitInv
    <3>2. CASE places # {}
      <4>1. (CHOOSE p \in places : TRUE) \in Places
        BY <3>2
      <4>2. Restores(overlay) /\ (overlay.save_flag \/ overlay.saved = <<>>)
        BY <1>8 DEF OrbitInv, DriveOrbitPlot
      <4> QED BY <1>0, <3>2, <4>1, <4>2, DrawnType, DrawnRestores
    <3> QED BY <3>1, <3>2
  <2>2. /\ pc' = "poll" /\ ~plot_pending' /\ pixel' = [pixel EXCEPT !.plotted = TRUE] /\ plot_pending
        /\ \/ overlay' = o /\ UNCHANGED <<key, calc_interrupted>>
           \/ /\ overlay' = Scrubbed(o) /\ key # "none"
              /\ calc_interrupted' = Interrupted
              /\ key' = IF key = "orbit" THEN "none" ELSE key
              /\ show_orbit' = IF key = "orbit" THEN ~show_orbit ELSE show_orbit
    BY <1>8 DEF DriveOrbitPlot, MarkedPlotted
  <2> HIDE DEF o
  <2>3. /\ pixel'.active = pixel.active /\ pixel'.scrubbed = pixel.scrubbed
        /\ pixel'.complete = pixel.complete
    BY <1>0, <2>2 DEF PixelFields
  <2>4. pixel.active /\ ~pixel.scrubbed
    BY <1>0, <2>2 DEF PendingOfPixel, OrbitInv
  <2>5. calc_interrupted' => key' = "other"
    BY <2>2 DEF Interrupted, OrbitInv
  <2>6. Restores(overlay')
    BY <2>1, <2>2, ScrubbedPlain
  <2> QED BY <2>2, <2>3, <2>4, <2>5, <2>6 DEF OrbitInv, NoOrbitLeft
<1>9. CASE DriveScrub
  <2>1. /\ overlay' = Scrubbed(overlay) /\ pixel' = [pixel EXCEPT !.scrubbed = TRUE]
        /\ UNCHANGED <<key, calc_interrupted, plot_pending>> /\ ~plot_pending /\ pc' = "poll"
        /\ scrub_pending
    BY <1>9 DEF DriveScrub
  <2>2. pixel'.complete = pixel.complete /\ pixel.complete
    BY <1>0, <2>1 DEF PixelFields, PendingOfPixel
  <2>3. NothingOver(overlay') /\ Restores(overlay')
    BY <1>0, <2>1, ScrubbedPlain DEF OrbitInv
  <2> QED BY <2>1, <2>2, <2>3 DEF OrbitInv, NoOrbitLeft
<1>10. CASE Complete
  <2>1. /\ UNCHANGED <<pixel, input_vars, plot_pending>> /\ ~plot_pending /\ col > NPixels
    BY <1>10 DEF Complete, pass_vars, return_vars
  <2>2. ~pixel.active
    BY <1>0, <2>1, PixelAssumption DEF InStep
  <2>3. NothingOver(overlay)
    BY <2>2 DEF OrbitInv
  <2> QED BY <2>1, <2>3 DEF OrbitInv, NoOrbitLeft, NothingOver, input_vars
<1>11. CASE Resume
  <2>1. /\ UNCHANGED <<pixel, plot_pending>> /\ ~calc_interrupted' /\ pc = "menu" /\ pc' = "loop"
        /\ overlay' = [overlay EXCEPT !.save_flag = FALSE]
    BY <1>11 DEF Resume, pass_vars, return_vars
  <2>2. ~plot_pending
    BY <1>0, <2>1 DEF Control
  <2>3. NothingOver(overlay)
    BY <2>1 DEF OrbitInv, NoOrbitLeft, NothingOver
  <2>4. overlay'.over = overlay.over /\ ~overlay'.save_flag
    BY <1>0, <2>1 DEF Overlays
  <2> QED BY <2>1, <2>2, <2>3, <2>4 DEF OrbitInv, NoOrbitLeft, Restores, NothingOver
<1>12. CASE Drive
  BY <1>8, <1>12 DEF Drive
<1> QED
  BY <1>1, <1>2, <1>3, <1>4, <1>5, <1>6, <1>7, <1>9, <1>10, <1>11, <1>12 DEF Next, Engine, CalcPixel

\* As long as the user leaves the orbits displayed no point of an orbit stays over the image
\* when it is left, whatever points cover each other and wherever an orbit is
\* interrupted (OrbitPlot::scrub, scrub_overlay_orbit, the keyboard handler of the orbit).
THEOREM PixelOrbitScrubbed == Spec => OrbitScrubbed
<1>1. Init => IInv /\ RestTypes /\ OrbitInv
  BY InitIInv, InitTypes, InitOrbit
<1>2. (IInv /\ RestTypes) /\ OrbitInv /\ show_orbit /\ show_orbit' /\ [Next]_vars => (IInv /\ RestTypes /\ OrbitInv)'
  BY NextIInv, NextTypes, NextOrbit
<1>3. OrbitInv => NoOrbitLeft
  BY DEF OrbitInv
<1> QED BY <1>1, <1>2, <1>3, PTL DEF Spec, OrbitScrubbed

=============================================================================
