---------------------------- MODULE MCPanWorkList ----------------------------
(* PanWorkList on small screens.                                             *)
EXTENDS PanWorkList

OnPixels == [x |-> FALSE, y |-> FALSE]
BetweenColumns == [x |-> TRUE, y |-> FALSE]

AxisInside == Pt(2, 1)

Sideways == {Pt(x, 0) : x \in {-2, -1, 1, 2}}
AnyWay   == {Pt(-2, 1), Pt(1, -1), Pt(2, 0)}

=============================================================================
