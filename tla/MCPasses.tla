------------------------------- MODULE MCPasses -------------------------------
(* GuessingPasses on small screens: every picture of two colours where the    *)
(* passes go by regions, and some of larger ones where they go by blocks.     *)
EXTENDS GuessingPasses

Area(x1, x2, y1, y2) == Entry(Pt(x1, y1), Pt(x2, y2), Pt(x1, y1), 0, DecidedNo)
Whole(x, y) == <<Area(0, x - 1, 0, y - 1)>>
SideBySide(x, y, cut) == <<Area(0, cut - 1, 0, y - 1), Area(cut, x - 1, 0, y - 1)>>
OneAbove(x, y, cut) == <<Area(0, x - 1, 0, cut - 1), Area(0, x - 1, cut, y - 1)>>

\* Pictures by the pixels that have the second colour.
Square(x, y) == (0 .. x) \X (0 .. y)
Image(x, y, second, items, passes, fill) ==
    [dots |-> Pt(x, y), list |-> items, modes |-> passes, fills |-> {fill},
     colors |-> [p \in Square(x, y) |-> IF p \in second THEN 2 ELSE 1]]

\* The colours are alike, so the first pixel may have the first.
AllImages(x, y, items, passes) ==
    {Image(x, y, second, items, passes, "auto") :
        second \in SUBSET (Square(x - 1, y - 1) \ {<<0, 0>>})}

Diagonal == {p \in Square(32, 32) : p[1] > p[2]}
Disc == {p \in Square(32, 32) : (p[1] - 4) * (p[1] - 4) + (p[2] - 3) * (p[2] - 3) <= 5}
Column == {p \in Square(32, 32) : p[1] = 3}
Dust(n) == {p \in Square(32, 32) :
    (p[1] * p[1] * 3 + p[2] * p[2] * 5 + p[1] * p[2] * 7 + p[1] * 11) % n < 2}
SomeImages(x, y, items, passes) ==
    {Image(x, y, second, items, passes, "auto") : second \in {Diagonal, Disc, Column, Dust(13), Dust(29)}}

NotFilled(x, y, passes) == {Image(x, y, Disc, Whole(x, y), passes, "none")}

MCImages ==
         AllImages(3, 4, Whole(3, 4), {"tesseral", "boundary"})
    \cup SomeImages(6, 5, SideBySide(6, 5, 2), {"boundary"})
    \cup SomeImages(6, 5, OneAbove(6, 5, 3), {"tesseral", "boundary"})
    \cup SomeImages(7, 6, Whole(7, 6), {"tesseral", "boundary", "diffusion"})
    \cup NotFilled(7, 6, {"tesseral", "diffusion"})
    \cup SomeImages(8, 7, Whole(8, 7), {"guess", "three"})
    \cup SomeImages(8, 7, SideBySide(8, 7, 3), {"guess", "three"})
    \cup SomeImages(8, 7, OneAbove(8, 7, 5), {"guess"})
    \cup SomeImages(20, 13, Whole(20, 13), {"guess"})

OddWidth == SomeImages(9, 7, Whole(9, 7), {"guess"})
=============================================================================
