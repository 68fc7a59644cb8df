----------------------------- MODULE FontParser -----------------------------
(***************************************************************************)
(* src/utils/fontdump/font_parser.py: the script that writes a font's      *)
(* glyphs to an FV1 file.  It writes the header, then for each codepoint   *)
(* in range(32, CHARSET_SIZE) queries the rasterizer (PIL), writes the     *)
(* glyph's metrics and packs its pixels one bit at a time through          *)
(* doBitmap, which flushes a byte to the file every 8 bits.                *)
(*                                                                         *)
(* The file is the sequence of bytes out.  The rasterizer is an oracle:    *)
(* getsize picks a raw width and height from small sets, getmask a mask    *)
(* shape, and any of getsize, getmask or getabc may raise, which ends the  *)
(* script with whatever it has written so far.  The pixel loop of lines    *)
(* 156-177 is modelled one pixel per step, so the bit cursor cptPix, the   *)
(* accumulator byteBitmap and the counter totBytes are those of the code.  *)
(* The '#', '.', 'o', '+' sketch printed to stdout is left out.            *)
(***************************************************************************)
EXTENDS Integers, Sequences, Bitwise, SequencesExt

CONSTANTS
  FONT_SIZE,     \* font size in pixels (line 77)
  CHARSET_SIZE,  \* exclusive upper bound of the codepoints (line 78)
  FontName,      \* deja10.getname()[0], as a sequence of ASCII codes
  RawWidths,     \* widths getsize may report
  RawHeights,    \* heights getsize may report
  Masks,         \* mask shapes getmask may return
  InkAt(_, _, _),\* InkAt(m, ix, iy): pixel (ix, iy) of mask m is 255
  Endian         \* host byte order used by struct.pack('h', ...)

ASSUME FONT_SIZE \in Nat /\ CHARSET_SIZE \in Nat
ASSUME FontName \in Seq(1..127)
ASSUME RawWidths \subseteq Nat /\ RawHeights \subseteq Nat
ASSUME Endian \in {"little", "big"}

VARIABLES
  pc,          \* where the script is: header, glyph, abc, pixel, pad, done, failed
  i,           \* the codepoint of the loop at line 110
  cptChar,     \* glyphs started (line 111)
  x, y,        \* getsize result; baseW and baseH are copies of them
  msk,         \* getmask result
  fullW, fullH,\* cell dimensions (lines 120-129)
  ix, iy,      \* pixel loop indices (lines 156, 160, 174)
  cptPix,      \* bit rank in the current byte (pt of doBitmap)
  byteBitmap,  \* byte being assembled (byteBmp of doBitmap)
  totBytes,    \* bitmap bytes flushed for this glyph (totB of doBitmap)
  out          \* the bytes written to the .fv1 file

vars == <<pc, i, cptChar, x, y, msk, fullW, fullH, ix, iy,
          cptPix, byteBitmap, totBytes, out>>

Layout == INSTANCE FV1Layout

FirstCodepoint == 32

Zeros(n) == [k \in 1..n |-> 0]

\* struct.pack('h', v) for a v it accepts: the two bytes of v in two's
\* complement, in host order.
PackH(v) ==
  LET u == v % 65536
  IN IF Endian = "little" THEN <<u % 256, u \div 256>> ELSE <<u \div 256, u % 256>>

\* Mutant: the dimension is not rounded up to a multiple of 8.
FullDimNoRound(v) == IF v = 0 THEN 8 ELSE v

\* Lines 120-122 (and 127-129): Python 2 floor division, then 0 becomes 8.
FullDim(v) ==
  LET r == (((v - 1) \div 8) + 1) * 8
  IN IF r = 0 THEN 8 ELSE r

\* Mutant: the byte is flushed one bit late.
DoBitmapLateFlush(pt, pix, byteBmp, totB) ==
  LET b == IF pix = 1 THEN byteBmp | shiftR(128, pt) ELSE byteBmp
  IN IF pt + 1 = 9
     THEN [pt |-> 0, byteBmp |-> 0, totB |-> totB + 1, written |-> <<b>>]
     ELSE [pt |-> pt + 1, byteBmp |-> b, totB |-> totB, written |-> <<>>]

\* Mutant: bits are placed least significant first.
DoBitmapLsbFirst(pt, pix, byteBmp, totB) ==
  LET b == IF pix = 1 THEN byteBmp | (2 ^ pt) ELSE byteBmp
  IN IF pt + 1 = 8
     THEN [pt |-> 0, byteBmp |-> 0, totB |-> totB + 1, written |-> <<b>>]
     ELSE [pt |-> pt + 1, byteBmp |-> b, totB |-> totB, written |-> <<>>]

\* doBitmap (lines 47-69): set bit 7 - pt for an ink pixel, advance pt,
\* and at 8 bits write the byte and reset; written is what goes to f.
DoBitmap(pt, pix, byteBmp, totB) ==
  LET b == IF pix = 1 THEN byteBmp | shiftR(128, pt) ELSE byteBmp
  IN IF pt + 1 = 8
     THEN [pt |-> 0, byteBmp |-> 0, totB |-> totB + 1, written |-> <<b>>]
     ELSE [pt |-> pt + 1, byteBmp |-> b, totB |-> totB, written |-> <<>>]

\* The colour the loop of lines 156-176 passes to doBitmap for (ix, iy):
\* the mask inside baseW x baseH, 0 for 'o' columns and '+' rows.
Pix == IF iy < y /\ ix < x /\ InkAt(msk, ix, iy) THEN 1 ELSE 0

\* Lines 80-107: open the file (truncating it) and write the header.  The
\* name is padded with range(len(name), 32), which pads nothing once the
\* name has 32 characters or more.
WriteHeader ==
  /\ pc = "header"
  /\ out' = <<70, 78, 84, 49>> \o FontName \o Zeros(32 - Len(FontName))
            \o PackH(FONT_SIZE) \o PackH(1) \o Zeros(8)
  /\ pc' = IF FirstCodepoint < CHARSET_SIZE THEN "glyph" ELSE "done"
  /\ UNCHANGED <<i, cptChar, x, y, msk, fullW, fullH, ix, iy,
                 cptPix, byteBitmap, totBytes>>

\* struct.pack('h', v) raises struct.error unless v fits a C short.
InShort(v) == v \in -32768..32767

\* Mutant: the three fields are packed modulo 2^16, as if struct.pack
\* never raised.
StartGlyphWrapping ==
  /\ pc = "glyph"
  /\ \E w \in RawWidths, h \in RawHeights, m \in Masks :
       /\ x' = w /\ y' = h /\ msk' = m
       /\ fullW' = FullDim(w)
       /\ fullH' = FullDim(h)
       /\ out' = out \o PackH(FullDim(w)) \o PackH(FullDim(h)) \o PackH(-FullDim(h))
  /\ cptChar' = cptChar + 1
  /\ pc' = "abc"
  /\ UNCHANGED <<i, ix, iy, cptPix, byteBitmap, totBytes>>

\* Lines 110-135: query getsize and getmask, then pack and write width,
\* height and baseline in turn.  The first of them that is not a short
\* makes struct.pack raise: the fields before it are in the file, and the
\* script dies there.
StartGlyph ==
  /\ pc = "glyph"
  /\ \E w \in RawWidths, h \in RawHeights, m \in Masks :
       LET fields == <<FullDim(w), FullDim(h), -FullDim(h)>>
           bad    == {k \in 1..3 : ~InShort(fields[k])}
           n      == IF bad = {} THEN 3 ELSE Min(bad) - 1
       IN /\ x' = w /\ y' = h /\ msk' = m
          /\ fullW' = FullDim(w)
          /\ fullH' = FullDim(h)
          /\ out' = out \o FlattenSeq([k \in 1..n |-> PackH(fields[k])])
          /\ pc' = IF bad = {} THEN "abc" ELSE "failed"
  /\ cptChar' = cptChar + 1
  /\ UNCHANGED <<i, ix, iy, cptPix, byteBitmap, totBytes>>

\* Lines 112-113 raise: the script dies before writing this glyph.
RasterFail ==
  /\ pc = "glyph"
  /\ cptChar' = cptChar + 1
  /\ pc' = "failed"
  /\ UNCHANGED <<i, x, y, msk, fullW, fullH, ix, iy,
                 cptPix, byteBitmap, totBytes, out>>

\* Lines 137-155: getabc gives the offset, clamped to 1 and packed into a
\* value that is never written; the advance x and 6 zero bytes are
\* written, and the bitmap variables are reset.
WriteAdvance ==
  /\ pc = "abc"
  /\ out' = out \o PackH(x) \o Zeros(6)
  /\ byteBitmap' = 0 /\ cptPix' = 0 /\ totBytes' = 0
  /\ ix' = 0 /\ iy' = 0
  /\ pc' = "pixel"
  /\ UNCHANGED <<i, cptChar, x, y, msk, fullW, fullH>>

\* Line 139 raises: the record is left with three of its fields.
AbcFail ==
  /\ pc = "abc"
  /\ pc' = "failed"
  /\ UNCHANGED <<i, cptChar, x, y, msk, fullW, fullH, ix, iy,
                 cptPix, byteBitmap, totBytes, out>>

\* One iteration of the inner loop (lines 158-176) with its doBitmap call;
\* the loops run row by row, left to right, over fullH x fullW pixels.
PixelStep ==
  /\ pc = "pixel"
  /\ LET r == DoBitmap(cptPix, Pix, byteBitmap, totBytes)
     IN /\ cptPix' = r.pt
        /\ byteBitmap' = r.byteBmp
        /\ totBytes' = r.totB
        /\ out' = out \o r.written
  /\ IF ix + 1 < fullW
     THEN ix' = ix + 1 /\ iy' = iy
     ELSE ix' = 0 /\ iy' = iy + 1
  /\ pc' = IF ix + 1 = fullW /\ iy + 1 = fullH THEN "pad" ELSE "pixel"
  /\ UNCHANGED <<i, cptChar, x, y, msk, fullW, fullH>>

\* Lines 179-181, then the next turn of the loop at line 110: pad the
\* bitmap with zero bytes to a multiple of 4 and move to the next codepoint.
EndGlyph ==
  LET pad == (4 - (totBytes % 4)) % 4
  IN /\ pc = "pad"
     /\ out' = out \o Zeros(pad)
     /\ totBytes' = totBytes + pad
     /\ i' = i + 1
     /\ pc' = IF i + 1 < CHARSET_SIZE THEN "glyph" ELSE "done"
     /\ UNCHANGED <<cptChar, x, y, msk, fullW, fullH, ix, iy, cptPix, byteBitmap>>

\* The script has ended (line 183 or an exception).
Terminated ==
  /\ pc \in {"done", "failed"}
  /\ UNCHANGED vars

Init ==
  /\ pc = "header"
  /\ i = FirstCodepoint
  /\ cptChar = 0
  /\ x = 0 /\ y = 0
  /\ msk \in Masks
  /\ fullW = 0 /\ fullH = 0
  /\ ix = 0 /\ iy = 0
  /\ cptPix = 0 /\ byteBitmap = 0 /\ totBytes = 0
  /\ out = <<>>

Next ==
  \/ WriteHeader
  \/ StartGlyph
  \/ RasterFail
  \/ WriteAdvance
  \/ AbcFail
  \/ PixelStep
  \/ EndGlyph
  \/ Terminated

Spec == Init /\ [][Next]_vars

-----------------------------------------------------------------------------
(* Properties *)

\* Every variable holds a value of its type: a bit rank below 8 and a
\* byte-sized accumulator, which doBitmap's flush at 8 bits guarantees.
TypeOK ==
  /\ pc \in {"header", "glyph", "abc", "pixel", "pad", "done", "failed"}
  /\ i \in FirstCodepoint..CHARSET_SIZE
  /\ cptPix \in 0..7
  /\ byteBitmap \in 0..255
  /\ totBytes \in Nat
  /\ out \in Seq(0..255)

\* When the pixel loop of a glyph ends, doBitmap has flushed every pixel to
\* the file: no partial byte is left in byteBitmap for line 153 to drop
\* when the next glyph resets it, and the bytes written are exactly
\* fullW * fullH / 8, a multiple of 4, so the padding loop writes nothing.
BitmapFlushedWhole ==
  pc = "pad" =>
    /\ cptPix = 0
    /\ totBytes * 8 = fullW * fullH
    /\ totBytes % 4 = 0

\* Every field of the glyph being encoded reads back, at the offset a
\* reader finds its record, as the width, height and baseline the code
\* computed: a cell size past 32767 makes struct.pack raise at lines
\* 123-135 and never turns into a wrapped, negative size that would send
\* a reader's walk astray.
DimensionsReadBack ==
  pc \in {"abc", "pixel"} =>
    LET p == Layout!WalkEnd(out, Layout!HeaderLen + 1, Layout!WrittenFields)
    IN /\ Layout!I16At(out, p) = fullW
       /\ Layout!I16At(out, p + 2) = fullH
       /\ Layout!I16At(out, p + 4) = -fullH

\* Spec 4.3 and 8: the header's size and style are found at the fixed
\* offsets a 32-byte name field puts them at.  Line 94 pads by the name's
\* length and never truncates or rejects a longer name.
HeaderFieldsAtFixedOffsets ==
  Len(out) >= Layout!HeaderLen =>
    /\ Layout!I16At(out, 37) = FONT_SIZE
    /\ Layout!I16At(out, 39) = 1

\* Spec 4.3 and 8: a finished file, walked by the spec's record layout
\* (width, height, baseline, offset, advance, 6 reserved bytes, bitmap),
\* holds one record per codepoint, each with baseline = -height, an
\* offset of at least 1 and zero reserved bytes, and nothing else.
SpecLayoutWalk ==
  pc = "done" =>
    LET recs == Layout!Records(out, Layout!SpecFields)
    IN /\ Layout!WalksExactly(out, Layout!SpecFields)
       /\ Len(recs) = CHARSET_SIZE - FirstCodepoint
       /\ \A k \in DOMAIN recs :
            /\ recs[k].fields[3] = -recs[k].fields[2]
            /\ recs[k].fields[4] >= 1
            /\ recs[k].reserved = Zeros(6)

-----------------------------------------------------------------------------
(* Refinement: the file, read back by a reader that walks records by       *)
(* their width and height, is at every step a prefix of what FontStream    *)
(* allows.                                                                 *)

WrittenRecords ==
  LET recs == Layout!Records(out, Layout!WrittenFields)
  IN [k \in DOMAIN recs |->
        [width    |-> recs[k].fields[1],
         height   |-> recs[k].fields[2],
         baseline |-> recs[k].fields[3],
         advance  |-> recs[k].fields[4],
         bitmap   |-> recs[k].bitmap]]

Stream == INSTANCE FontStream WITH
  FontSize <- FONT_SIZE,
  header   <- IF Len(out) >= Layout!HeaderLen THEN Layout!HeaderOf(out) ELSE <<>>,
  records  <- WrittenRecords,
  status   <- CASE pc = "done"   -> "done"
                [] pc = "failed" -> "failed"
                [] OTHER         -> "encoding"

\* The bytes the script writes, read back record by record, are always a
\* header and a prefix of the records FontStream promises: cell sizes
\* rounded up to 8, baseline -height, the raw width as advance, and the
\* bitmap packed row-major, MSB first, with the bit cursor running across
\* rows; it ends done only once every codepoint has its record.
StreamRefined == Stream!Spec
=============================================================================
