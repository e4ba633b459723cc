---------------------------- MODULE GuessingPasses ----------------------------
(***************************************************************************)
(* The passes that paint pixels they have not calculated, under the one    *)
(* engine that runs them: what the image may look like in the end.         *)
(***************************************************************************)
EXTENDS Tesseral, BoundaryTrace, Diffusion, SolidGuess

vars == <<engine_vars, tess_vars, boundary_vars, diffusion_vars, guess_vars>>

Init == EngineInit /\ TesseralInit /\ BoundaryInit /\ DiffusionInit /\ GuessInit

Engine == PollNothing \/ SuspendBetweenItems \/ Resume \/ Finished

Next == \/ TesseralNext /\ UNCHANGED <<boundary_vars, diffusion_vars, guess_vars>>
        \/ BoundaryNext /\ UNCHANGED <<tess_vars, diffusion_vars, guess_vars>>
        \/ DiffusionNext /\ UNCHANGED <<tess_vars, boundary_vars, guess_vars>>
        \/ GuessNext /\ UNCHANGED <<tess_vars, boundary_vars, diffusion_vars>>
        \/ Engine /\ UNCHANGED <<tess_vars, boundary_vars, diffusion_vars, guess_vars>>

\* A single thread calculates, and the user continues what was interrupted.
Spec == Init /\ [][Next]_vars /\ WF_vars(Next)

-----------------------------------------------------------------------------
Done == pc = "done"
Right(p) == screen[p] = picture[p]
Pass(modes) == std_calc_mode \in modes

\* The variables have their types.
TypeOK ==
    /\ std_calc_mode \in {"tesseral", "boundary", "diffusion", "guess", "three"}
    /\ fill_color \in {"auto", "none"}
    /\ pc \in {"loop", "pass", "yield", "poll", "menu", "done", "hung"}
    /\ interrupted \in BOOLEAN /\ stray \in BOOLEAN /\ edges_left \in BOOLEAN
    /\ interrupts \in 0 .. MaxInterrupts
    /\ calculated \subseteq Pixels
    /\ \A p \in Pixels : screen[p] \in 0 .. 255
    /\ \A n \in DOMAIN list : list[n].pass \in Nat
    /\ stage \in {"rebuild", "top", "bot", "lft", "rgt", "boxes"}
    /\ at \in {"scan", "trace", "fill", "forced"} /\ matches_found \in 0 .. 4
    /\ going_to \in 0 .. 3 /\ coming_from \in 0 .. 3
    /\ counter \in Nat /\ tile \in Nat
    /\ step \in {"top", "below", "row", "block", "calc", "fix", "one", "over"}
    /\ noskip \subseteq AllBlocks

\* However often a pass is interrupted, continued from the little it saves and put
\* back on the list, no pixel is left blank at the end.  Excepted are a tesseral pass
\* interrupted before it has all the edges, which resumes as if it had them, and
\* what is not to be filled.
AllPainted == Done /\ ~edges_left /\ fill_color # "none" =>
                  \A p \in Pixels : screen[p] # BK_COLOR

\* The pixels about ps that are reached without crossing the colour c.
Neighbours(p) == {<<p[1] - 1, p[2]>>, <<p[1] + 1, p[2]>>, <<p[1], p[2] - 1>>, <<p[1], p[2] + 1>>}
                    \cap Pixels
RECURSIVE Enclosed(_, _)
Enclosed(ps, c) ==
    LET more == {q \in UNION {Neighbours(p) : p \in ps} : picture[q] # c} \ ps
    IN  IF more = {} THEN ps ELSE Enclosed(ps \cup more, c)
OnBorder(p) == p[1] \in {0, dots.x - 1} \/ p[2] \in {0, dots.y - 1}

\* The tesseral pass and the boundary trace paint a pixel wrongly only where they
\* cannot know: as part of an island, all around which the picture has the colour
\* they have given it.
OnlyIslandsMissed ==
    Done /\ Pass({"tesseral", "boundary"}) =>
        \A p \in Pixels : screen[p] \in {picture[p], BK_COLOR}
                          \/ \A q \in Enclosed({p}, screen[p]) : ~OnBorder(q)

\* The diffusion scan, and three passes that have come to their follow-up, end with
\* every pixel as it was calculated.
ExactInTheEnd == Done /\ (Pass({"diffusion"}) \/ follow_up = "begun") => \A p \in Pixels : Right(p)

\* With solid guessing the right column and the bottom row are calculated, as are the
\* corners of the largest blocks, and what is guessed in the middle of four pixels
\* is of the colour of all four, the ones that were corrected meanwhile too.
Between(p) == {q \in Pixels : q[1] - p[1] \in {-1, 1} /\ q[2] - p[2] \in {-1, 1}}
GuessesFit ==
    Done /\ Pass({"guess"}) =>
        \A p \in Pixels \ calculated :
            /\ p[1] # dots.x - 1 /\ p[2] # dots.y - 1
            /\ p[1] % m_max_block # 0 \/ p[2] % m_max_block # 0
            /\ p[1] % 2 = 1 /\ p[2] % 2 = 1 => \A q \in Between(p) : screen[q] = screen[p]

\* A calculated pixel keeps its colour, whatever is filled, fixed or repainted after
\* it.  (The diffusion scan, and the first of the guessing passes, paint over
\* pixels that they come back to, or ought to.)
CalculatedStays ==
    [][ Pass({"tesseral", "boundary"}) \/ (Pass({"guess"}) /\ pc = "pass" /\ work_pass > 0)
          => \A p \in calculated : Right(p) => screen'[p] = screen[p] ]_vars

\* Nothing outside of the item is painted; only solid guessing may, as it makes its
\* window larger to the left and above.
PaintsInWindow ==
    [][ Pass({"guess", "three"}) \/ \A p \in Pixels : screen'[p] = screen[p] \/ InWindow(p) ]_vars

\* No pixel outside of the screen is plotted, no place outside of m_stack is filled,
\* and the fill of the boundary trace finds the end of a hole to its left.
StaysOnScreen == ~stray /\ pc # "hung"

\* Wherever a pass is interrupted, it goes on with sound indices: tiles cut off at the
\* edges, boxes packed into bits and rows saved in lines all stay within their tables.
ScreenInv == TypeOK /\ StaysOnScreen

\* The image is completed in the end.
Completes == <>Done
=============================================================================
