------------------------------ MODULE MCWorkList ------------------------------
(* WorkListSpec on a 3 x 3 image: every rectangle, begun at its corner or    *)
(* one pixel in, in pass 0 or 1.                                             *)
EXTENDS WorkListSpec

MCRectangles == {r \in [x1 : 0 .. 2, x2 : 0 .. 2, y1 : 0 .. 2, y2 : 0 .. 2] :
                    r.x1 <= r.x2 /\ r.y1 <= r.y2}

MCBegins(r) == {Pt(x, r.y1) : x \in {r.x1, r.x2}} \cup {Pt(r.x1, r.y2)}

MCPool == UNION {{Entry(Pt(r.x1, r.y1), Pt(r.x2, r.y2), b, pass, Undecided) :
                      b \in MCBegins(r), pass \in 0 .. 1} : r \in MCRectangles}

=============================================================================
