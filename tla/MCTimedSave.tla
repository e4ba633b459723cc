------------------------------ MODULE MCTimedSave ------------------------------
(* TimedSave with a screen of a few rows.                                      *)
EXTENDS TimedSave

EitherWay == {TRUE, FALSE}

=============================================================================
