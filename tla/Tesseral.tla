-------------------------------- MODULE Tesseral --------------------------------
(***************************************************************************)
(* The tesseral pass (engine/tesseral.cpp): a box whose four edges have    *)
(* one colour, and a line through its middle too, is filled with it; any   *)
(* other is split there.  The boxes that wait are on a stack, which is not *)
(* saved: an interrupted pass is resumed from the corner and the size of   *)
(* the box on top.                                                         *)
(***************************************************************************)
EXTENDS PassEngine, SequencesExt

CONSTANT PackBits   \* 12: the bits of a coordinate in a packed one

ASSUME PackAssumption ==
    /\ PackBits \in Nat
    /\ \A image \in Images : "tesseral" \in image.modes =>
                                image.dots.x <= 2^PackBits /\ image.dots.y <= 2^PackBits

VARIABLES stack,    \* m_stack, the box m_tp points to is the last
          stage,    \* rebuild | top | bot | lft | rgt | boxes: how far the pass has begun
          edges_left    \* a pass was interrupted while it calculated the edges

tess_vars == <<stack, stage, edges_left>>

MIXED == -1         \* the edge has more than one colour
UNKNOWN == -2       \* the edge has to be looked at

EdgeNames == <<"top", "bot", "lft", "rgt">>

Box(x1, x2, y1, y2, color) == [x1 |-> x1, x2 |-> x2, y1 |-> y1, y2 |-> y2,
    top |-> color, bot |-> color, lft |-> color, rgt |-> color]

box == Last(stack)
Top(b) == [stack EXCEPT ![Len(stack)] = b]

-----------------------------------------------------------------------------
\* Lines.  The first pixel is calculated before the end is looked at.

OneColor(colors) == IF Cardinality(colors) = 1 THEN CHOOSE c \in colors : TRUE ELSE MIXED

RowLine(x1, x2, y) == Rectangle(x1, IF x2 < x1 THEN x1 ELSE x2, y, y)
ColLine(x, y1, y2) == Rectangle(x, x, y1, IF y2 < y1 THEN y1 ELSE y2)

\* tess_row, tess_col
LineColor(line) == OneColor({Color(p) : p \in line})

\* tess_check_row, tess_check_col: the ends count in a row but not in a column.
tess_check_row(x1, x2, y) == OneColor({get_color(p) : p \in RowLine(x1, x2, y)})
tess_check_col(x, y1, y2) == OneColor({get_color(p) : p \in ColLine(x, y1 + 1, y2 - 1)})

Edge(b, e) == CASE e = "top" -> RowLine(b.x1, b.x2, b.y1)
                [] e = "bot" -> RowLine(b.x1, b.x2, b.y2)
                [] e = "lft" -> ColLine(b.x1, b.y1 + 1, b.y2 - 1)
                [] e = "rgt" -> ColLine(b.x2, b.y1 + 1, b.y2 - 1)

Check(b, e) == CASE e = "top" -> tess_check_row(b.x1, b.x2, b.y1)
                 [] e = "bot" -> tess_check_row(b.x1, b.x2, b.y2)
                 [] e = "lft" -> tess_check_col(b.x1, b.y1, b.y2)
                 [] e = "rgt" -> tess_check_col(b.x2, b.y1, b.y2)

\* A line was calculated up to a pixel where a key was noticed.
Begun(line) == {{p \in line : p[1] + p[2] < end} : end \in {p[1] + p[2] : p \in line}}

CalculateSome(line) == \E some \in Begun(line) : Calculate(some)

-----------------------------------------------------------------------------
\* A box is divided down the middle if it is wider than high, else across.

Down(b) == b.x2 - b.x1 > b.y2 - b.y1
Middle(b) == IF Down(b) THEN (b.x1 + b.x2) \div 2 ELSE (b.y1 + b.y2) \div 2
MiddleLine(b) == IF Down(b) THEN ColLine(Middle(b), b.y1 + 1, b.y2 - 1)
                            ELSE RowLine(b.x1 + 1, b.x2 - 1, Middle(b))

\* split_needed looks at the edges in turn, up to the first that differs.
Differs(b, e) == b[e] # b.top \/ b[e] = MIXED
Looked(b) ==
    LET seen == [n \in 1 .. 4 |-> IF b[EdgeNames[n]] = UNKNOWN THEN Check(b, EdgeNames[n])
                                                              ELSE b[EdgeNames[n]]]
        Turn(n) == seen[1] # MIXED /\ \A k \in 1 .. n - 1 : seen[k] = seen[1]
    IN  IF \E n \in 1 .. 4 : b[EdgeNames[n]] = MIXED THEN b
        ELSE [b EXCEPT !.top = seen[1],
                       !.bot = IF Turn(2) THEN seen[2] ELSE @,
                       !.lft = IF Turn(3) THEN seen[3] ELSE @,
                       !.rgt = IF Turn(4) THEN seen[4] ELSE @]
SameThreeEdges(b) == \A n \in 1 .. 3 : ~Differs(b, EdgeNames[n])    \* mutant
SameEdges(b) == \A n \in 1 .. 4 : ~Differs(b, EdgeNames[n])

\* split_box: the parts of b, the one to do next last.
Forget(b, e1, e2) == [b EXCEPT ![e1] = IF @ = MIXED THEN UNKNOWN ELSE @,
                               ![e2] = IF @ = MIXED THEN UNKNOWN ELSE @]
Parts(b, color) ==
    LET mid == Middle(b)
        c   == IF Down(b) THEN Forget(b, "top", "bot") ELSE Forget(b, "lft", "rgt")
        far == IF Down(b) THEN [c EXCEPT !.x1 = mid, !.lft = color]
                          ELSE [c EXCEPT !.y1 = mid, !.top = color]
        near == IF Down(b) THEN [c EXCEPT !.x2 = mid, !.rgt = color]
                           ELSE [c EXCEPT !.y2 = mid, !.bot = color]
        room(a, z) == z - a > 1
    IN  IF ~room(mid, IF Down(b) THEN b.x2 ELSE b.y2) THEN <<>>
        ELSE IF room(IF Down(b) THEN b.x1 ELSE b.y1, mid) THEN <<far, near>>
        ELSE <<far>>

-----------------------------------------------------------------------------
\* suspend: corner and size of the box on top, the size as a power of two.

SizeBits(n) == CHOOSE k \in 1 .. 16 : 2^k > n - 2 /\ (k = 1 \/ 2^(k - 1) <= n - 2)
Pack(size, at) == SizeBits(size) * 2^PackBits + at
UnpackedAt(n) == n % 2^PackBits
UnpackedSize(n) == 2^(n \div 2^PackBits)

TesseralSuspended ==
    Back(Pt(win.start.x, Pack(box.y2 - box.y1, box.y1)), Pack(box.x2 - box.x1, box.x1))

\* The constructor when resuming: one turn of the loop that divides the whole
\* window again, until the box on top is the one that was interrupted.
Reached(b) ==
    IF Down(b) THEN /\ b.x1 = UnpackedAt(win.pass)
                    /\ b.x2 - b.x1 - 2 < UnpackedSize(win.pass)
               ELSE /\ b.y1 = UnpackedAt(win.begin.y)
                    /\ b.y2 - b.y1 - 2 < UnpackedSize(win.begin.y)
Divided(b) ==
    LET mid  == Middle(b)
        far  == IF Down(b) THEN [b EXCEPT !.x1 = mid] ELSE [b EXCEPT !.y1 = mid]
        near == IF Down(b) THEN [b EXCEPT !.x2 = mid] ELSE [b EXCEPT !.y2 = mid]
        cur  == IF Down(b) THEN UnpackedAt(win.pass) ELSE UnpackedAt(win.begin.y)
    IN  IF mid > cur THEN <<far, near>> ELSE <<far>>

-----------------------------------------------------------------------------
\* Actions.

StartTesseral ==
    /\ TakeItem("tesseral")
    /\ stack' = <<Box(win'.start.x, win'.stop.x, win'.start.y, win'.stop.y, UNKNOWN)>>
    /\ stage' = IF win'.pass = 0 THEN "top" ELSE "rebuild"
    /\ UNCHANGED edges_left

Rebuild ==
    /\ Running("tesseral") /\ stage = "rebuild"
    /\ \/ /\ Reached(box)
          /\ stage' = "boxes" /\ UNCHANGED stack
       \/ /\ ~Reached(box)
          /\ stack' = Front(stack) \o Divided(box) /\ UNCHANGED stage
    /\ UNCHANGED <<engine_vars, edges_left>>

AfterEdge(e) == CASE e = "top" -> "bot" [] e = "bot" -> "lft"
                  [] e = "lft" -> "rgt" [] e = "rgt" -> "boxes"

\* The constructor calculates the edges of the window.
CalculateEdge ==
    /\ Running("tesseral") /\ stage \in {"top", "bot", "lft", "rgt"}
    /\ LET line == Edge(box, stage)
       IN  /\ Calculate(line)
           /\ stack' = Top([box EXCEPT ![stage] = LineColor(line)])
           /\ stage' = AfterEdge(stage)
    /\ NoKey
    /\ UNCHANGED <<image_vars, list, win, pc, edges_left>>

InterruptEdge ==
    /\ Running("tesseral") /\ stage \in {"top", "bot", "lft", "rgt"}
    /\ CalculateSome(Edge(box, stage))
    /\ Interrupt
    /\ pc' = "yield"
    /\ edges_left' = TRUE
    /\ UNCHANGED <<image_vars, list, win, stack, stage>>

\* iterate: the pass yields after every box, and ends with the last.
AfterBox(rest) == /\ stack' = rest
                  /\ IF rest = <<>> THEN ItemEnds(list)
                     ELSE pc' = "yield" /\ UNCHANGED <<list, win>>
                  /\ UNCHANGED <<image_vars, stage, edges_left>>

AtBox == Running("tesseral") /\ stage = "boxes"

\* The box on top with its edges looked at, and the line through its middle.
TopBox == {Looked(box)}
Middles(b) == {MiddleLine(b)}
Uniform(b, line) == SameEdges(b) /\ LineColor(line) = b.top

FillBox ==
    /\ AtBox
    /\ \E b \in TopBox : \E line \in Middles(b) :
        LET inside == Rectangle(b.x1 + 1, b.x2 - 1, b.y1 + 1, b.y2 - 1)
        IN  /\ Uniform(b, line)
            /\ IF fill_color = "none" THEN Calculate(line)
               ELSE Paint(Calculated(line), inside, b.top) /\ Noted(line)
    /\ NoKey
    /\ AfterBox(Front(stack))

\* A key that split_needed notices splits the box too: split_box calculates
\* the line once more, and the key is noticed again after the box.
SplitBox ==
    /\ AtBox
    /\ \E b \in TopBox : \E line \in Middles(b) :
        /\ \/ ~Uniform(b, line) /\ NoKey
           \/ SameEdges(b) /\ Interrupt
        /\ Calculate(line)
        /\ AfterBox(Front(stack) \o Parts(b, LineColor(line)))

InterruptBox ==
    /\ AtBox
    /\ CalculateSome(MiddleLine(box))
    /\ Interrupt
    /\ stack' = Top(Looked(box))
    /\ pc' = "yield"
    /\ UNCHANGED <<image_vars, list, win, stage, edges_left>>

\* StandardPass::suspend; the only pass that is suspended with an item.
SuspendTesseral == /\ pc = "yield"
                   /\ PollKey(TesseralSuspended)
                   /\ stack' = <<>> /\ stage' = "boxes"
                   /\ UNCHANGED edges_left

TesseralInit == stack = <<>> /\ stage = "boxes" /\ edges_left = FALSE

TesseralNext == \/ StartTesseral \/ Rebuild \/ CalculateEdge \/ InterruptEdge
                \/ FillBox \/ SplitBox \/ InterruptBox \/ SuspendTesseral
=============================================================================
