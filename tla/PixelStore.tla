------------------------------- MODULE PixelStore -------------------------------
(***************************************************************************)
(* What the disk video promises the code that draws: while it is open, a   *)
(* pixel reads as it was last written, and as it was given at first if     *)
(* nobody has written it.                                                  *)
(***************************************************************************)
EXTENDS Integers

CONSTANTS Values,      \* what a pixel may hold
          Contents(_)  \* the pixels a session may start with

VARIABLES session,     \* which pixels there are, Closed when there are none
          pixels,      \* their values
          answer       \* the pixel of the last call with the value read or written

vars == <<session, pixels, answer>>

Closed   == [kind |-> "closed"]
NoAnswer == [at |-> <<>>, value |-> -1]

Init == session = Closed /\ pixels = <<>> /\ answer = NoAnswer

\* Opening a session ends the one before.
Open == session' # Closed /\ pixels' \in Contents(session') /\ answer' = NoAnswer

Close == session' = Closed /\ pixels' = <<>> /\ answer' = NoAnswer

Write == /\ session # Closed
         /\ \E p \in DOMAIN pixels, v \in Values :
               pixels' = [pixels EXCEPT ![p] = v] /\ answer' = [at |-> p, value |-> v]
         /\ UNCHANGED session

Read == /\ session # Closed
        /\ \E p \in DOMAIN pixels : answer' = [at |-> p, value |-> pixels[p]]
        /\ UNCHANGED <<session, pixels>>

\* Off the picture a read returns 0, and a write does nothing.
Outside == /\ session # Closed
           /\ answer' = [at |-> <<>>, value |-> 0]
           /\ UNCHANGED <<session, pixels>>

Next == Open \/ Close \/ Write \/ Read \/ Outside

Spec == Init /\ [][Next]_vars

=============================================================================
