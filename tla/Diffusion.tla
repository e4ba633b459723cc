-------------------------------- MODULE Diffusion --------------------------------
(***************************************************************************)
(* The diffusion scan (engine/Diffusion.cpp): the window is cut into       *)
(* square tiles, and a counter visits the points of all of them at once,   *)
(* scattered by taking its bits apart, with every point painted as a block *)
(* that later points refine.  Only the counter is saved when a key comes.  *)
(***************************************************************************)
EXTENDS PassEngine

CONSTANT WordBits   \* 16: the bits of the counter that are saved as the pass

ASSUME WordAssumption == WordBits \in Nat

VARIABLES counter,  \* m_counter
          tile      \* how many points of this counter have been calculated

diffusion_vars == <<counter, tile>>

\* The first sixteen of the 256 entries; larger ones are for tiles beyond 4 x 4.
DIF_LA == <<0, 8, 0, 8, 4, 12, 4, 12, 0, 8, 0, 8, 4, 12, 4, 12>>
DIF_LB == <<0, 8, 8, 0, 4, 12, 12, 4, 4, 12, 12, 4, 8, 0, 0, 8>>

-----------------------------------------------------------------------------
\* scan: the side of a tile is the largest power of two that fits.

Width == win.stop.x - win.start.x + 1
Height == win.stop.y - win.start.y + 1
Shorter == IF Width < Height THEN Width ELSE Height
HalfBits == CHOOSE k \in 0 .. 2 : 2^k <= Shorter /\ (k = 2 \/ 2^(k + 1) > Shorter)
Size == 2^HalfBits
Limit == 2^(2 * HalfBits)

\* count_to_int: the point of a tile; the tables hold coordinates of four bits.
OrigCol == DIF_LA[counter + 1] \div 2^(4 - HalfBits)
OrigRow == DIF_LB[counter + 1] \div 2^(4 - HalfBits)

\* The whole tiles, and one more in each direction if the point is in what is left.
ColumnsOver == (Width \div Size) + 1      \* mutant
Columns == (Width \div Size) + (IF OrigCol < Width % Size THEN 1 ELSE 0)
Rows == (Height \div Size) + (IF OrigRow < Height % Size THEN 1 ELSE 0)

\* The tiles are visited column by column.
Point == <<win.start.x + OrigCol + (tile \div Rows) * Size,
           win.start.y + OrigRow + (tile % Rows) * Size>>

\* The block is as large as the points so far lie apart; none in the second half.
CounterBits == CHOOSE k \in 0 .. 2 * HalfBits : 2^k <= counter /\ counter < 2^(k + 1)
BlockSize == IF counter = 0 THEN Size ELSE 2^((2 * HalfBits - CounterBits - 1) \div 2)
Block == IF fill_color = "none" \/ counter >= Limit \div 2 THEN {Point}
         ELSE {p \in Rectangle(Point[1], Point[1] + BlockSize - 1,
                               Point[2], Point[2] + BlockSize - 1) :
                  p[1] <= win.stop.x /\ p[2] <= win.stop.y}

-----------------------------------------------------------------------------
\* Actions.

\* engine: a window that has not begun, or one whose counter is in the item.
NextCounter(item) ==                                            \* mutant
    IF item.begin.y = item.start.y /\ item.pass = 0 THEN 0
    ELSE item.begin.y * 2^WordBits + item.pass + 1
ResumedCounter(item) ==
    IF item.begin.y = item.start.y /\ item.pass = 0 THEN 0
    ELSE item.begin.y * 2^WordBits + item.pass

StartDiffusion == /\ TakeItem("diffusion")
                  /\ counter' = ResumedCounter(win') /\ tile' = 0

DiffusePoint ==
    /\ Running("diffusion") /\ counter < Limit
    /\ Paint(Calculated({Point}), Block \cap Pixels, Color(Point))
    /\ calculated' = calculated \cup {Point}
    /\ stray' = (stray \/ ~(Block \subseteq Pixels))
    /\ IF tile + 1 = Columns * Rows THEN counter' = counter + 1 /\ tile' = 0
       ELSE tile' = tile + 1 /\ UNCHANGED counter
    /\ NoKey /\ UNCHANGED <<image_vars, list, win, pc>>

InterruptDiffusion ==
    /\ Running("diffusion") /\ counter < Limit
    /\ Interrupt
    /\ ItemEnds(Back(Pt(win.start.x, counter \div 2^WordBits), counter % 2^WordBits))
    /\ counter' = 0 /\ tile' = 0
    /\ UNCHANGED <<image_vars, paint_vars>>

EndDiffusion ==
    /\ Running("diffusion") /\ counter >= Limit
    /\ ItemEnds(list)
    /\ counter' = 0 /\ tile' = 0
    /\ NoKey /\ UNCHANGED <<image_vars, paint_vars>>

DiffusionInit == counter = 0 /\ tile = 0

DiffusionNext == StartDiffusion \/ DiffusePoint \/ InterruptDiffusion \/ EndDiffusion
=============================================================================
