------------------------------- MODULE SolidGuess -------------------------------
(***************************************************************************)
(* Solid guessing (engine/solid_guess.cpp): the corners of large blocks    *)
(* are calculated, and a quarter of a block is guessed where all about it  *)
(* has one colour.  Every pass halves the blocks, skips those that showed  *)
(* nothing new in the first, and goes back to a guess that a later         *)
(* calculation makes doubtful.  Three passes are the first of these passes *)
(* and then every pixel (engine/StandardFractal.cpp).                      *)
(***************************************************************************)
EXTENDS PassEngine, SequencesExt

CONSTANT RowsPerBlock   \* 300: images of fewer rows have blocks of 4

ASSUME GuessAssumption == RowsPerBlock \in Nat \ {0}

VARIABLES step,         \* top | below | row | block | calc | fix | one | over
          work_pass,    \* g_work_pass
          row,          \* g_current_row
          cell,         \* the block at hand and what is known of those about it
          noskip,       \* m_prefix: the blocks that the passes may not skip
          m_stack,      \* the upper and, after it, the lower line of a row of blocks
          follow_up     \* of three passes: no | due (START_THREE_PASS_FOLLOWUP done) | begun

guess_vars == <<step, work_pass, row, cell, noskip, m_stack, follow_up>>

-----------------------------------------------------------------------------
\* Blocks.

m_max_block == CHOOSE b \in {4, 8, 16, 32} :
    /\ dots.y < RowsPerBlock * (b \div 4)
    /\ b = 4 \/ dots.y >= RowsPerBlock * (b \div 8)
Aligned(n) == n - (n % m_max_block)

block_size == m_max_block \div 2^work_pass
m_half_block == block_size \div 2

first_pass == work_pass = 0
three_pass == std_calc_mode = "three" /\ follow_up = "no"

StartX == Aligned(win.start.x)
StopX == win.stop.x
StopY == win.stop.y
Below(y) == IF y > win.start.y THEN y ELSE win.start.y

\* The top left corners of a line of the largest blocks.
Corners(y) == {p \in Rectangle(StartX, StopX, y, y) : p[1] % m_max_block = 0}

AllBlocks == (0 .. dots.x \div m_max_block) \X (0 .. dots.y \div m_max_block)
BlockAt(x, y) == <<x \div m_max_block, y \div m_max_block>>

\* A block may be skipped if nothing was calculated in it or in the eight around
\* it, and if it is not the last of its row.
Dilated == {b \in AllBlocks : \/ b[1] = StopX \div m_max_block
                              \/ ((b[1] - 1 .. b[1] + 1) \X (b[2] - 1 .. b[2] + 1)) \cap noskip # {}}

\* plot_block: all of a quarter but its first pixel, which is plotted already.
Quarter(x, y) ==
    {p \in Rectangle(x, x + m_half_block - 1, y, y + m_half_block - 1) :
        p # <<x, y>> /\ p[1] <= StopX /\ p[2] <= StopY}

NoCell == [x |-> 0]

-----------------------------------------------------------------------------
\* guess_row.  c<column><row> is the colour at a corner (odd digits: half a block
\* off) of the block whose top left corner is c22; -1 is unknown.

AtRight(x, colour) == IF x <= StopX THEN colour ELSE -1
HalfAbove == IF row > 0 THEN row - m_half_block ELSE 0

RowCell ==
    LET here == get_color(<<StartX, row>>)
        above == get_color(<<StartX, HalfAbove>>)
    IN  [x |-> StartX, c12 |-> here, c13 |-> here, c22 |-> here,
         c24 |-> IF row + block_size <= StopY THEN get_color(<<StartX, row + block_size>>) ELSE -1,
         c21 |-> above, c31 |-> above, c41 |-> 0, c42 |-> 0, c44 |-> 0,
         c23 |-> 0, c32 |-> 0, c33 |-> 0,
         guessed12 |-> FALSE, guessed13 |-> FALSE,
         guessed23 |-> FALSE, guessed32 |-> FALSE, guessed33 |-> FALSE,
         news |-> FALSE, prev11 |-> -1, fixes |-> <<>>]

\* A block that is skipped: the colour of this one does for the next.
SkippedCell(c) == [c EXCEPT !.x = @ + m_max_block, !.c12 = c.c22, !.c13 = c.c22, !.c24 = c.c22,
                            !.c21 = c.c22, !.c31 = c.c22, !.prev11 = c.c22,
                            !.guessed12 = FALSE, !.guessed13 = FALSE]

\* What is known about a block; the three quarters are guessed to be as c22.
LoadedCell(c) ==
    LET half == c.x + m_half_block
        next == c.x + block_size
        right(ok) == IF ok THEN c.c22 ELSE -1
        low == row + m_half_block <= StopY
    IN  [c EXCEPT
            !.c31 = IF half > StopX THEN -1
                    ELSE IF row > 0 THEN get_color(<<half, row - m_half_block>>) ELSE @,
            !.c41 = AtRight(next, get_color(<<next, HalfAbove>>)),
            !.c42 = AtRight(next, get_color(<<next, row>>)),
            !.c44 = IF row + block_size > StopY THEN -1
                    ELSE AtRight(next, get_color(<<next, row + block_size>>)),
            !.c23 = right(low), !.c32 = right(half <= StopX), !.c33 = right(low /\ half <= StopX),
            !.guessed23 = low, !.guessed32 = half <= StopX, !.guessed33 = low /\ half <= StopX,
            !.guessed13 = @ /\ low, !.news = FALSE]

\* The next of the three that has to be calculated after all.
NeedBetween33 == cell.guessed33 /\ {cell.c42, cell.c24, cell.c32, cell.c23} # {cell.c33}   \* mutant
Need33 == cell.guessed33 /\ {cell.c44, cell.c42, cell.c24, cell.c32, cell.c23} # {cell.c33}
Need32 == /\ cell.guessed32 /\ ~Need33
          /\ {cell.c33, cell.c42, cell.c31, cell.c21, cell.c41, cell.c23} # {cell.c32}
Need23 == /\ cell.guessed23 /\ ~Need33 /\ ~Need32
          /\ {cell.c33, cell.c24, cell.c13, cell.c12, cell.c32} # {cell.c23}

At33 == <<cell.x + m_half_block, row + m_half_block>>
At32 == <<cell.x + m_half_block, row>>
At23 == <<cell.x, row + m_half_block>>
At21 == <<cell.x, row - m_half_block>>
At31 == <<cell.x + m_half_block, row - m_half_block>>
At12 == <<cell.x - m_half_block, row>>
At13 == <<cell.x - m_half_block, row + m_half_block>>

\* Earlier guesses that this block makes doubtful: above, where the line before was
\* solid, and to the left.
OnLineAbove(x) == get_color(<<x, row - block_size>>)
Fix21 == /\ row > 0 /\ {cell.c12, cell.c32} # {cell.c22}
         /\ {cell.c21, cell.c31, cell.prev11} = {cell.c22}
         /\ cell.x = StartX \/ OnLineAbove(cell.x - m_half_block) = cell.c21
         /\ cell.x + m_half_block > StopX \/ OnLineAbove(cell.x + m_half_block) = cell.c21
         /\ OnLineAbove(cell.x) = cell.c21
Fix31 == /\ row > 0 /\ cell.c32 # cell.c22
         /\ {cell.c31, cell.c42, cell.c21, cell.c41} = {cell.c22}
         /\ cell.x + m_half_block <= StopX /\ OnLineAbove(cell.x + m_half_block) = cell.c31
         /\ cell.x + block_size > StopX \/ OnLineAbove(cell.x + block_size) = cell.c31
         /\ OnLineAbove(cell.x) = cell.c31
Fix12 == cell.c23 # cell.c22 /\ cell.guessed12
Fix13 == cell.c23 # cell.c22 /\ cell.guessed13

Fixes == (IF Fix21 THEN <<At21>> ELSE <<>>) \o (IF Fix31 THEN <<At31>> ELSE <<>>)
      \o (IF Fix12 THEN <<At12>> ELSE <<>>) \o (IF Fix13 THEN <<At13>> ELSE <<>>)

NextCell(c) == [c EXCEPT !.x = @ + block_size, !.c22 = c.c42, !.c24 = c.c44, !.c13 = c.c33,
                         !.c21 = c.c41, !.c31 = c.c41, !.c12 = c.c32,
                         !.guessed12 = c.guessed32, !.guessed13 = c.guessed33]

\* fill_d_stack, with the columns of half a block cut off at the end of the window:
\* the places that get the color, for a block beyond it too.
Places(x, at) == LET lim == IF x + m_half_block > StopX THEN StopX + 1 ELSE x + m_half_block
                 IN  IF lim < x THEN at + lim .. at + x - 1 ELSE at + x .. at + lim - 1
Stacked(stack, x, at, color) ==
    [k \in DOMAIN stack |-> IF k \in Places(x, at) THEN color ELSE stack[k]]
NoStack == [k \in 0 .. 2 * dots.x - 1 |-> BK_COLOR]

-----------------------------------------------------------------------------
\* Actions.

\* scan: where a pass begins in a window.
StartGuess ==
    /\ list # <<>> /\ follow_up # "begun"
    /\ TakeItem("guess") \/ TakeItem("three")
    /\ work_pass' = win'.pass
    /\ row' = Aligned(win'.begin.y)
    /\ \E first \in {win'.pass = 0} : \E new \in {first /\ row' <= win'.start.y} :
          /\ noskip' = IF new THEN {} ELSE AllBlocks
          /\ step' = CASE new -> "top"
                       [] first /\ ~new -> "below"
                       [] ~first /\ three_pass -> "over"
                       [] OTHER -> "row"
    /\ m_stack' = NoStack
    /\ UNCHANGED <<cell, follow_up>>

Guessing(at) == pc = "pass" /\ std_calc_mode \in {"guess", "three"} /\ step = at
Stays == UNCHANGED <<image_vars, list, win, pc>>

CalculateTop ==
    /\ Guessing("top")
    /\ Calculate(Corners(row))
    /\ step' = "below"
    /\ NoKey /\ Stays
    /\ UNCHANGED <<work_pass, row, cell, noskip, m_stack, follow_up>>

CalculateBelow ==
    /\ Guessing("below")
    /\ Calculate(IF row + block_size <= StopY THEN Corners(row + block_size) ELSE {})
    /\ step' = "row"
    /\ NoKey /\ Stays
    /\ UNCHANGED <<work_pass, row, cell, noskip, m_stack, follow_up>>

StartRow ==
    /\ Guessing("row")
    /\ cell' = RowCell
    /\ step' = "block"
    /\ NoKey /\ Stays
    /\ UNCHANGED <<paint_vars, work_pass, row, noskip, m_stack, follow_up>>

Skips == /\ ~first_pass /\ cell.x % m_max_block = 0
         /\ BlockAt(cell.x, row) \notin noskip

SkipBlock ==
    /\ Guessing("block") /\ cell.x <= StopX /\ Skips
    /\ cell' = SkippedCell(cell)
    /\ NoKey /\ Stays
    /\ UNCHANGED <<paint_vars, step, work_pass, row, noskip, m_stack, follow_up>>

\* In the first pass the corner is painted: saved for the line, or at once where
\* the window was made larger to the left.
LoadBlock ==
    /\ Guessing("block") /\ cell.x <= StopX /\ ~Skips
    /\ cell' = LoadedCell(cell)
    /\ IF first_pass
       THEN /\ m_stack' = Stacked(m_stack, cell.x, 0, cell.c22)
            /\ Paint(screen, IF cell.x < win.start.x THEN Quarter(cell.x, row) ELSE {}, cell.c22)
       ELSE UNCHANGED <<m_stack, screen>>
    /\ step' = "calc"
    /\ NoKey /\ Stays
    /\ UNCHANGED <<calculated, stray, work_pass, row, noskip, follow_up>>

CalculateQuarter ==
    /\ Guessing("calc")
    /\ \/ /\ Need33 /\ Calculate({At33})
          /\ cell' = [cell EXCEPT !.c33 = Color(At33), !.guessed33 = FALSE, !.news = TRUE]
       \/ /\ Need32 /\ Calculate({At32})
          /\ cell' = [cell EXCEPT !.c32 = Color(At32), !.guessed32 = FALSE, !.news = TRUE]
       \/ /\ Need23 /\ Calculate({At23})
          /\ cell' = [cell EXCEPT !.c23 = Color(At23), !.guessed23 = FALSE, !.news = TRUE]
    /\ NoKey /\ Stays
    /\ UNCHANGED <<step, work_pass, row, noskip, m_stack, follow_up>>

\* The three quarters as they are to be shown: in the first pass they are saved,
\* or painted at once too, later painted if they differ; of the last, nothing.
Shown(q) == CASE first_pass -> q[1] < win.start.x
              [] ~first_pass /\ m_half_block > 1 -> cell[q[3]] # cell.c22
              [] OTHER -> FALSE
Quarters == {<<At23[1], At23[2], "c23">>, <<At32[1], At32[2], "c32">>, <<At33[1], At33[2], "c33">>}
ShownAt(p) == {q \in Quarters : Shown(q) /\ p \in Quarter(q[1], q[2])}

StackOfBlock ==
    Stacked(Stacked(Stacked(m_stack, At23[1], dots.x, cell.c23),
                    At32[1], 0, cell.c32), At33[1], dots.x, cell.c33)

FinishBlock ==
    /\ Guessing("calc") /\ ~(Need33 \/ Need32 \/ Need23)
    /\ noskip' = IF first_pass /\ cell.news THEN noskip \cup {BlockAt(cell.x, row)} ELSE noskip
    /\ \E shown \in {[p \in Pixels |-> ShownAt(p)]} :
          screen' = [p \in Pixels |-> IF shown[p] = {} THEN screen[p]
                                      ELSE cell[(CHOOSE q \in shown[p] : TRUE)[3]]]
    /\ IF first_pass
       THEN /\ m_stack' = StackOfBlock
            /\ stray' = (stray \/ \E k \in Places(At33[1], dots.x) : k \notin DOMAIN m_stack)
       ELSE UNCHANGED <<m_stack, stray>>
    /\ cell' = [cell EXCEPT !.prev11 = cell.c31, !.fixes = Fixes]
    /\ step' = "fix"
    /\ NoKey /\ Stays
    /\ UNCHANGED <<calculated, work_pass, row, follow_up>>

FixGuess ==
    /\ Guessing("fix") /\ cell.fixes # <<>>
    /\ LET p == Head(cell.fixes)
           again == IF m_half_block > 1 /\ Color(p) # cell.c22 THEN Quarter(p[1], p[2]) ELSE {}
       IN  Paint(Calculated({p}), again, Color(p)) /\ Noted({p})
    /\ cell' = [cell EXCEPT !.fixes = Tail(@)]
    /\ NoKey /\ Stays
    /\ UNCHANGED <<step, work_pass, row, noskip, m_stack, follow_up>>

NextBlock ==
    /\ Guessing("fix") /\ cell.fixes = <<>>
    /\ cell' = NextCell(cell)
    /\ step' = "block"
    /\ NoKey /\ Stays
    /\ UNCHANGED <<paint_vars, work_pass, row, noskip, m_stack, follow_up>>

\* The next row of blocks, or the next pass if this was the last row.  A window
\* that is not alone goes back on the list for it.
LastRow == row + block_size > StopY
NextRow == /\ row' = row + block_size /\ step' = IF first_pass THEN "below" ELSE "row"
           /\ Stays
           /\ UNCHANGED <<work_pass, noskip, m_stack, follow_up>>

\* The item is left; nothing of the pass is.
GuessOver == /\ step' = "top" /\ work_pass' = 0 /\ row' = 0 /\ cell' = NoCell
             /\ noskip' = {} /\ m_stack' = <<>>
EndGuess(rest) ==
    /\ GuessOver
    /\ IF three_pass /\ rest = <<>> THEN pc' = "poll" /\ follow_up' = "due" /\ UNCHANGED <<list, win>>
       ELSE ItemEnds(rest) /\ UNCHANGED follow_up
    /\ UNCHANGED image_vars

Alone == list = <<>>
LastPass == block_size = 2
NextPass ==
    \/ /\ ~LastPass /\ ~Alone
       /\ EndGuess(Back(win.start, work_pass + 1))
    \/ /\ LastPass \/ (three_pass /\ Alone)
       /\ EndGuess(list)
    \/ /\ ~LastPass /\ ~three_pass /\ Alone
       /\ work_pass' = work_pass + 1
       /\ row' = Aligned(win.start.y) /\ step' = "row"
       /\ noskip' = IF first_pass THEN Dilated ELSE noskip
       /\ Stays
       /\ UNCHANGED <<m_stack, follow_up>>
NextRowOrPass == IF LastRow THEN NextPass /\ cell' = NoCell ELSE NextRow /\ cell' = NoCell

EndRow ==
    /\ Guessing("block") /\ cell.x > StopX /\ ~first_pass
    /\ NextRowOrPass
    /\ NoKey
    /\ UNCHANGED paint_vars

\* In the first pass the lines are written now, from the saved ones.
Line(y) == IF y < row + m_half_block THEN 0 ELSE dots.x
Written(n) == [p \in Pixels |->
    IF /\ p[1] \in win.start.x .. StopX /\ p[2] <= StopY
       /\ p[2] \in (row .. row + n - 1) \cup (row + m_half_block .. row + m_half_block + n - 1)
    THEN m_stack[p[1] + Line(p[2])] ELSE screen[p]]

WriteRow ==
    /\ Guessing("block") /\ cell.x > StopX /\ first_pass
    /\ screen' = Written(m_half_block)
    /\ NextRowOrPass
    /\ NoKey
    /\ UNCHANGED <<calculated, stray>>

\* Three passes, and this window has seen its first.
EndThreePass ==
    /\ Guessing("over")
    /\ EndGuess(list)
    /\ NoKey /\ UNCHANGED paint_vars

-----------------------------------------------------------------------------
\* Keys.

RestOfGuess == EndGuess(Back(Pt(win.start.x, Below(row)), work_pass))

SomeCorners(y) == \E x \in StartX .. StopX : Calculate({p \in Corners(y) : p[1] < x})

InterruptTop ==
    /\ Guessing("top")
    /\ SomeCorners(row)
    /\ Interrupt
    /\ EndGuess(Back(win.begin, 0))

InterruptBelow ==
    /\ Guessing("below") /\ row + block_size <= StopY
    /\ SomeCorners(row + block_size)
    /\ Interrupt
    /\ RestOfGuess

InterruptBlock ==
    /\ \/ Guessing("calc") /\ (Need33 \/ Need32 \/ Need23)
       \/ Guessing("fix") /\ cell.fixes # <<>>
    /\ Interrupt
    /\ RestOfGuess
    /\ UNCHANGED paint_vars

\* While it writes, the pass looks at the queue of the driver itself: the key that
\* stops it may be one that the handlers of the loop will take.
KeyWhileWriting ==
    /\ Guessing("block") /\ cell.x > StopX /\ first_pass
    /\ interrupts < MaxInterrupts
    /\ interrupted' \in BOOLEAN /\ interrupts' = interrupts + 1
    /\ \E n \in 1 .. m_half_block : screen' = Written(n)
    /\ RestOfGuess
    /\ UNCHANGED <<calculated, stray>>

-----------------------------------------------------------------------------
\* The follow-up of three passes: the whole image once more, in one pass.

StartFollowUp ==
    /\ pc = "loop" /\ follow_up = "due"
    /\ list' = <<Entry(Pt(0, 0), Pt(dots.x - 1, dots.y - 1), Pt(0, 0), 0, DecidedNo)>>
    /\ follow_up' = "begun"
    /\ UNCHANGED <<image_vars, paint_vars, key_vars, win, pc,
                   step, work_pass, row, cell, noskip, m_stack>>

StartOnePass ==
    /\ follow_up = "begun"
    /\ TakeItem("three")
    /\ step' = "one" /\ row' = win'.begin.y /\ cell' = [x |-> win'.begin.x]
    /\ UNCHANGED <<work_pass, noskip, m_stack, follow_up>>

OneRow ==
    /\ Guessing("one")
    /\ Calculate(Rectangle(cell.x, StopX, row, row))
    /\ IF row = StopY THEN EndGuess(list)
       ELSE /\ row' = row + 1 /\ cell' = [x |-> win.start.x]
            /\ Stays
            /\ UNCHANGED <<step, work_pass, noskip, m_stack, follow_up>>
    /\ NoKey

InterruptOneRow ==
    /\ Guessing("one")
    /\ Interrupt
    /\ \E x \in cell.x .. StopX :
          /\ Calculate(Rectangle(cell.x, x - 1, row, row))
          /\ EndGuess(Back(Pt(x, row), 0))

GuessInit == /\ step = "top" /\ work_pass = 0 /\ row = 0 /\ cell = NoCell
             /\ noskip = {} /\ m_stack = <<>> /\ follow_up = "no"

GuessNext == \/ StartGuess \/ CalculateTop \/ CalculateBelow \/ StartRow
             \/ SkipBlock \/ LoadBlock \/ CalculateQuarter \/ FinishBlock \/ FixGuess \/ NextBlock
             \/ EndRow \/ WriteRow \/ EndThreePass
             \/ InterruptTop \/ InterruptBelow \/ InterruptBlock \/ KeyWhileWriting
             \/ StartFollowUp \/ StartOnePass \/ OneRow \/ InterruptOneRow
=============================================================================
