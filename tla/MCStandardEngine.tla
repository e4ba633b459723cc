--------------------------- MODULE MCStandardEngine ---------------------------
(* StandardEngine on small screens, with an axis that cuts them unevenly.     *)
EXTENDS StandardEngine

OffScreen == Pt(-1, -1)
OnPixels  == [x |-> FALSE, y |-> FALSE]
BetweenPixels == [x |-> FALSE, y |-> TRUE]

AxisNearTop    == Pt(-1, 1)
AxisNearCorner == Pt(1, 1)
AxisNearFarCorner == Pt(XDots - 3, YDots - 3)

NothingKept == {}
KeptColumns == {p \in Screen : p.x % 2 = 1}

=============================================================================
