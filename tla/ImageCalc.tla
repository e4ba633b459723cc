------------------------------- MODULE ImageCalc -------------------------------
(***************************************************************************)
(* What the menu loop may rely on when it calls calc_fract, whatever the   *)
(* engine below it: an image is calculated, may be interrupted and resumed *)
(* any number of times without losing a pixel, and is called completed     *)
(* only when every pixel shows its colour.                                 *)
(***************************************************************************)
CONSTANT Pixels

VARIABLES status,   \* g_calc_status
          shown     \* the pixels that show their colour

vars == <<status, shown>>

Init == status = "PARAMS_CHANGED" /\ shown = {}

\* The user asks for another image, or for more iterations of this one.
Command == /\ status \in {"RESUMABLE", "COMPLETED"}
           /\ \/ status' = "PARAMS_CHANGED" /\ shown' = shown
              \/ status = "COMPLETED" /\ status' = "RESUMABLE" /\ shown' \in SUBSET shown

\* The screen is cleared for a new image.
Clear == status = "PARAMS_CHANGED" /\ shown' = {} /\ UNCHANGED status

Begin == /\ status = "RESUMABLE" \/ (status = "PARAMS_CHANGED" /\ shown = {})
         /\ status' = "IN_PROGRESS" /\ UNCHANGED shown

\* Pixels are plotted, one or several at a time; none loses its colour.
Plot == /\ status = "IN_PROGRESS" /\ shown # Pixels
        /\ shown' \in {s \in SUBSET Pixels : shown \subseteq s}
        /\ UNCHANGED status

Interrupt == status = "IN_PROGRESS" /\ status' = "RESUMABLE" /\ UNCHANGED shown

Finish == /\ status = "IN_PROGRESS" /\ shown = Pixels
          /\ status' = "COMPLETED" /\ UNCHANGED shown

Advance == Clear \/ Begin \/ Plot \/ Finish

Next == Command \/ Advance \/ Interrupt

Spec == Init /\ [][Next]_vars /\ WF_vars(Advance)

=============================================================================
