----------------------------- MODULE MCGifFile -----------------------------
(* Small pictures for GifFile: one colour or many, with a few free pixels. *)
EXTENDS GifFile

CONSTANT FreePixels   \* how many pixels next to each other are free

(* The colours along the rows: every pair of colours once, or one colour. *)
Varied == <<0, 0, 1, 0, 2, 0, 3, 1, 1, 2, 1, 3, 2, 2, 3, 3>>
Plain == [i \in 1..16 |-> 0]

Place(p) == (p[2] * XDots + p[1]) % 16

MCPictures ==
    {[p \in Cols \X Rows |->
        IF Place(p) \in from..from + FreePixels - 1 THEN free[Place(p) - from] ELSE base[Place(p) + 1]] :
        base \in {Varied, Plain}, from \in {0, 6, 16 - FreePixels},
        free \in [0..FreePixels - 1 -> {0, 3}]}

MCLowBits == [p \in Cols \X Rows |-> Varied[16 - Place(p)]]
=============================================================================
