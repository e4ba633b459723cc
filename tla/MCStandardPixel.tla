---------------------------- MODULE MCStandardPixel ----------------------------
(* StandardPixel with a pixel whose orbit escapes and one whose orbit does not. *)
EXTENDS StandardPixel

EarlyAndNever == <<2, 9>>

=============================================================================
