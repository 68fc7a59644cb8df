---------------------------- MODULE MCFontParser ----------------------------
(***************************************************************************)
(* Model of font_parser.py for TLC.  The rasterizer reports widths and     *)
(* heights around the multiples of 8 (0, 1, 8, 9) and four mask shapes:    *)
(* no ink, a single dot at the origin (which fixes the bit order), the     *)
(* diagonal (which fixes the row stride) and full ink (which fixes where   *)
(* the raw glyph ends).                                                    *)
(***************************************************************************)
EXTENDS FontParser

MCMasks == {"blank", "dot", "diag", "full"}

MCInkAt(m, px, py) ==
  CASE m = "blank" -> FALSE
    [] m = "dot"   -> px = 0 /\ py = 0
    [] m = "diag"  -> px = py
    [] m = "full"  -> TRUE

\* "DV"
MCShortName == <<68, 86>>

\* 32 times "A": a name that fills the name field exactly (spec 8, C).
MCName32 == [k \in 1..32 |-> 65]

\* 33 times "A": one byte more than the name field holds.
MCLongName == [k \in 1..33 |-> 65]
=============================================================================
