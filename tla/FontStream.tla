----------------------------- MODULE FontStream -----------------------------
(***************************************************************************)
(* What an FV1 encode promises (spec.md sections 3, 4.1 and 4.2), as an   *)
(* abstract specification: a header, then one glyph record per codepoint   *)
(* of [32, CHARSET_SIZE), appended in ascending order, each derived from   *)
(* the rasterizer's answer for its codepoint alone.  The encode may stop   *)
(* with a failure at any point.                                            *)
(*                                                                         *)
(* A record holds the fields font_parser.py writes: the cell width and     *)
(* height (the raw ones rounded up to a multiple of 8, at least 8), the    *)
(* baseline -height, the advance (the raw width) and the bitmap: the       *)
(* cell's pixels row-major, ink only inside the raw glyph, packed eight to *)
(* a byte most significant bit first.  The offset of the spec's layout is  *)
(* not among them: the script never writes it (see SpecLayoutWalk).  A    *)
(* glyph whose cell does not fit a 16-bit signed field has no record.     *)
(***************************************************************************)
EXTENDS Integers, Sequences, FiniteSetsExt

CONSTANTS
  FirstCodepoint, CHARSET_SIZE, FontSize, FontName,
  RawWidths, RawHeights, Masks, InkAt(_, _, _)

VARIABLES
  header,   \* <<>> before the header, then <<name field, size, style>>
  records,  \* the glyph records, the k-th for codepoint FirstCodepoint + k - 1
  status    \* "encoding", "done" or "failed"

vars == <<header, records, status>>

GlyphCount == CHARSET_SIZE - FirstCodepoint

\* Smallest multiple of 8 that is at least max(raw, 1).
CellDim(raw) == IF raw = 0 THEN 8 ELSE ((raw + 7) \div 8) * 8

Ink(w, h, m, px, py) == px < w /\ py < h /\ InkAt(m, px, py)

\* Byte k of the packed grid holds pixels 8(k-1) .. 8(k-1)+7 of the
\* row-major cell, the first in the most significant bit.
PackedGrid(w, h, m) ==
  LET cw == CellDim(w)
      ch == CellDim(h)
      Bit(k, j) == LET p == 8 * (k - 1) + j
                   IN Ink(w, h, m, p % cw, p \div cw)
  IN [k \in 1..((cw * ch) \div 8) |->
        SumSet({2 ^ (7 - j) : j \in {j \in 0..7 : Bit(k, j)}})]

GlyphRecord(w, h, m) ==
  [width    |-> CellDim(w),
   height   |-> CellDim(h),
   baseline |-> -CellDim(h),
   advance  |-> w,
   bitmap   |-> PackedGrid(w, h, m)]

NameField == FontName \o [k \in 1..(32 - Len(FontName)) |-> 0]

Init ==
  /\ header = <<>>
  /\ records = <<>>
  /\ status = "encoding"

\* A name of more than 32 bytes is rejected before anything is written.
WriteHeader ==
  /\ status = "encoding"
  /\ header = <<>>
  /\ Len(FontName) <= 32
  /\ header' = <<NameField, FontSize, 1>>
  /\ UNCHANGED <<records, status>>

\* The cell of a raw size fits the record's 16-bit signed field.
FitsField(raw) == CellDim(raw) <= 32767

\* A glyph whose cell does not fit a field gets no record (the encode can
\* only fail there); any other is appended whole.
AppendGlyph ==
  /\ status = "encoding"
  /\ header # <<>>
  /\ Len(records) < GlyphCount
  /\ Len(records') = Len(records) + 1
  /\ \E w \in RawWidths, h \in RawHeights, m \in Masks :
       /\ FitsField(w) /\ FitsField(h)
       /\ records' = Append(records, GlyphRecord(w, h, m))
  /\ UNCHANGED <<header, status>>

Finish ==
  /\ status = "encoding"
  /\ header # <<>>
  /\ Len(records) = GlyphCount
  /\ status' = "done"
  /\ UNCHANGED <<header, records>>

Fail ==
  /\ status = "encoding"
  /\ status' = "failed"
  /\ UNCHANGED <<header, records>>

Next == WriteHeader \/ AppendGlyph \/ Finish \/ Fail

Spec == Init /\ [][Next]_vars
=============================================================================
