------------------------------ MODULE BoundaryTrace ------------------------------
(***************************************************************************)
(* The boundary trace (engine/boundary_trace.cpp): from two pixels of one  *)
(* colour side by side the outline of their region is followed clockwise,  *)
(* and followed once more to fill what it encloses from the right to the   *)
(* left.  Whatever has a colour already is not calculated again.           *)
(***************************************************************************)
EXTENDS PassEngine

VARIABLES cur,          \* <<cur_col, cur_row>>: where the trace began, or the scan is
          color,        \* g_color: the last one that was looked at
          at,           \* scan | trace | fill | forced: what the pass is doing
          trail,        \* <<m_trail_col, m_trail_row>>
          going_to, coming_from,
          matches_found

trace_vars == <<trail, going_to, coming_from, matches_found>>
boundary_vars == <<cur, color, at, trace_vars>>

NORTH == 0
EAST == 1
SOUTH == 2
WEST == 3
advance(dir, n) == (dir + n) % 4

\* step_col_row
Spot == CASE going_to = NORTH -> <<trail[1], trail[2] - 1>>
          [] going_to = EAST  -> <<trail[1] + 1, trail[2]>>
          [] going_to = SOUTH -> <<trail[1], trail[2] + 1>>
          [] going_to = WEST  -> <<trail[1] - 1, trail[2]>>

\* The part of the window that a trace begun at cur may enter.
ReachableScreen(p) == p \in Pixels /\ p[2] >= cur[2]        \* mutant
Reachable(p) == InWindow(p) /\ p[2] >= cur[2]

trail_color == Color(cur)

-----------------------------------------------------------------------------
\* The scan, in reading order, for the next pixel that has no colour yet.

Later(p, q) == p[2] > q[2] \/ (p[2] = q[2] /\ p[1] > q[1])
Blank == {p \in Pixels : /\ InWindow(p)
                         /\ p = cur \/ Later(p, cur)
                         /\ screen[p] = BK_COLOR}
NextBlank == CHOOSE p \in Blank : \A q \in Blank : ~Later(p, q)

\* The pixel the scan looks at after p, perhaps one too far.
Beside(p) == <<p[1] + 1, p[2]>>

StartBoundary ==
    /\ TakeItem("boundary")
    /\ cur' = <<win'.start.x, win'.start.y>>
    /\ color' = BK_COLOR
    /\ at' = "scan"
    /\ UNCHANGED trace_vars

\* The item ends here; nothing of the trace is left.
BoundaryOver == /\ cur' = <<0, 0>> /\ trail' = <<0, 0>>
                /\ color' = BK_COLOR /\ at' = "scan"
                /\ going_to' = EAST /\ coming_from' = WEST /\ matches_found' = 0

\* What remains: the rows from the one of p, where the scan or the trace began.
RestBelow(p) ==                                                 \* mutant
    AddWorkList(list, Entry(Pt(win.start.x, p[2] + 1), win.stop, Pt(p[1], p[2] + 1), 0,
                            win.symmetry))
RestFrom(p) ==
    AddWorkList(list, Entry(Pt(win.start.x, p[2]), win.stop, Pt(p[1], p[2]), 0, win.symmetry))

\* A pixel is calculated; if it has the colour of the one before, a trace begins.
Scan ==
    /\ Running("boundary") /\ at = "scan" /\ Blank # {}
    /\ \E p \in {NextBlank} :
        LET before == IF p[2] = cur[2] THEN color ELSE BK_COLOR
        IN  /\ Calculate({p})
            /\ color' = Color(p)
            /\ IF Color(p) # before
               THEN cur' = Beside(p) /\ UNCHANGED <<at, trace_vars>>
               ELSE /\ at' = "trace" /\ cur' = p /\ trail' = p
                    /\ coming_from' = WEST /\ going_to' = EAST
                    /\ matches_found' = 0
    /\ NoKey
    /\ UNCHANGED <<image_vars, list, win, pc>>

InterruptScan ==
    /\ Running("boundary") /\ at = "scan" /\ Blank # {}
    /\ Interrupt
    /\ \E p \in {NextBlank} : ItemEnds(RestFrom(p))
    /\ BoundaryOver
    /\ UNCHANGED <<image_vars, paint_vars>>

EndBoundary ==
    /\ Running("boundary") /\ at = "scan" /\ Blank = {}
    /\ ItemEnds(list)
    /\ BoundaryOver
    /\ NoKey /\ UNCHANGED <<image_vars, paint_vars>>

-----------------------------------------------------------------------------
\* The trace: to the left of the way it came from if the colour is found there,
\* else to the right, until it is where it began or has turned round in place.

Moved == /\ trail' = Spot
         /\ going_to' = advance(going_to, -1)
         /\ coming_from' = advance(going_to, -2)

Turned == going_to' = advance(going_to, 1) /\ UNCHANGED <<trail, coming_from>>

\* The scan goes on beside the pixel where the trace began.
ScanOn == /\ cur' = Beside(cur) /\ color' = BK_COLOR /\ at' = "scan"
          /\ trail' = <<0, 0>> /\ going_to' = EAST /\ coming_from' = WEST

\* With few matches there is no hole to fill.
FillOrScan == IF matches_found' <= 3 THEN ScanOn
              ELSE /\ at' = "fill" /\ color' = trail_color
                   /\ trail' = cur /\ going_to' = EAST /\ coming_from' = WEST
                   /\ UNCHANGED cur

\* The colour of a pixel that may be entered, calculated if it has none yet.
SpotColor == IF screen[Spot] = BK_COLOR THEN Color(Spot) ELSE screen[Spot]
SpotMatches == Reachable(Spot) /\ SpotColor = trail_color

LookAtSpot == IF Reachable(Spot) /\ screen[Spot] = BK_COLOR THEN Calculate({Spot})
              ELSE UNCHANGED paint_vars

TraceOn ==
    /\ Running("boundary") /\ at = "trace" /\ SpotMatches
    /\ LookAtSpot
    /\ matches_found' = IF matches_found < 4 THEN matches_found + 1 ELSE matches_found
    /\ IF Spot = cur THEN FillOrScan
       ELSE Moved /\ color' = trail_color /\ UNCHANGED <<cur, at>>
    /\ NoKey /\ UNCHANGED <<image_vars, list, win, pc>>

TraceAlwaysTurns ==                                             \* mutant
    /\ Running("boundary") /\ at = "trace" /\ ~SpotMatches
    /\ LookAtSpot
    /\ Turned
    /\ color' = IF Reachable(Spot) THEN SpotColor ELSE color
    /\ UNCHANGED <<cur, at>>
    /\ NoKey /\ UNCHANGED <<image_vars, list, win, pc, matches_found>>

TraceTurns ==
    /\ Running("boundary") /\ at = "trace" /\ ~SpotMatches
    /\ LookAtSpot
    /\ IF advance(going_to, 1) = coming_from /\ matches_found = 0 THEN ScanOn
       ELSE /\ Turned
            /\ color' = IF Reachable(Spot) THEN SpotColor ELSE color
            /\ UNCHANGED <<cur, at>>
    /\ NoKey /\ UNCHANGED <<image_vars, list, win, pc, matches_found>>

InterruptTrace ==
    /\ Running("boundary") /\ at = "trace"
    /\ Reachable(Spot) /\ screen[Spot] = BK_COLOR
    /\ Interrupt
    /\ ItemEnds(RestFrom(cur))
    /\ BoundaryOver
    /\ UNCHANGED <<image_vars, paint_vars>>

-----------------------------------------------------------------------------
\* The fill: the same way again.

\* Left of p: the pixels of the region, the first beyond them, its colour (the
\* window may end before any is looked at), and the pixels without a colour.
Beyond(p) ==
    LET solid(x) == \A k \in x .. p[1] - 1 : get_color(<<k, p[2]>>) = trail_color
    IN  p[1] - 1 - Cardinality({x \in win.start.x .. p[1] - 1 : solid(x)})
OneTooFar(p, right) == get_color(<<right - 1, p[2]>>)           \* mutant
BeyondColor(p, right) == IF right >= win.start.x THEN get_color(<<right, p[2]>>)
                         ELSE IF right < p[1] - 1 THEN trail_color
                         ELSE color
Hole(p, right) ==
    {<<x, p[2]>> : x \in {k \in -1 .. right :
        \A l \in k .. right - 1 : get_color(<<l, p[2]>>) = BK_COLOR}}

\* Where the region lies to the right of the way there may be a hole to fill.
Fills == going_to = SOUTH \/ (going_to = WEST /\ coming_from # EAST)

FillMatches == Reachable(Spot) /\ get_color(Spot) = trail_color

\* Left of the screen get_color finds BK_COLOR for ever.
FillLine(hole) == /\ pc' = IF \E p \in hole : p[1] < 0 THEN "hung" ELSE pc
                  /\ Paint(screen, hole, trail_color)

FillOn ==
    /\ Running("boundary") /\ at = "fill" /\ FillMatches
    /\ \E right \in {Beyond(Spot)} : \E found \in {BeyondColor(Spot, right)} :
        /\ FillLine(IF Fills /\ found = BK_COLOR THEN Hole(Spot, right) ELSE {})
        /\ IF Spot = cur THEN ScanOn
           ELSE Moved /\ color' = (IF Fills THEN found ELSE color) /\ UNCHANGED <<cur, at>>
    /\ NoKey
    /\ UNCHANGED <<image_vars, calculated, stray, list, win, matches_found>>

\* Nothing but the way back is left: the next one has to be a match.
FillTurns ==
    /\ Running("boundary") /\ at = "fill" /\ ~FillMatches
    /\ at' = IF advance(going_to, 1) = coming_from THEN "forced" ELSE at
    /\ Turned
    /\ UNCHANGED <<engine_vars, cur, color, matches_found>>

FillForced ==
    /\ Running("boundary") /\ at = "forced"
    /\ IF Spot = cur THEN ScanOn ELSE Moved /\ at' = "fill" /\ UNCHANGED <<cur, color>>
    /\ UNCHANGED <<engine_vars, matches_found>>

BoundaryInit == /\ cur = <<0, 0>> /\ trail = <<0, 0>>
                /\ color = BK_COLOR /\ at = "scan"
                /\ going_to = EAST /\ coming_from = WEST /\ matches_found = 0

BoundaryNext == \/ StartBoundary \/ Scan \/ InterruptScan \/ EndBoundary
                \/ TraceOn \/ TraceTurns \/ InterruptTrace
                \/ FillOn \/ FillTurns \/ FillForced
=============================================================================
