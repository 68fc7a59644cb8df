----------------------------- MODULE FV1Layout -----------------------------
(***************************************************************************)
(* How a consumer walks an FV1 file (spec.md section 4.3).  Nothing in the *)
(* repository reads FV1, so these operators are the format's contract,     *)
(* used by the properties and by the refinement mapping of FontParser: a   *)
(* reader finds the fixed 48-byte header, then glyph records whose bitmap  *)
(* length it recomputes from the record's width and height, since no       *)
(* record carries a length prefix.                                         *)
(*                                                                         *)
(* A record is nf 16-bit signed fields, 6 reserved bytes, then the packed  *)
(* bitmap, padded to a multiple of 4 bytes.  font_parser.py writes         *)
(* nf = 4 fields (width, height, baseline, advance); the spec's layout has *)
(* nf = 5 (width, height, baseline, offset, advance).                      *)
(***************************************************************************)
EXTENDS Integers, Sequences

CONSTANT Endian   \* byte order of struct.pack('h', ...): the host's

HeaderLen == 48   \* "FNT1", 32-byte name, size, style, 8 reserved bytes

WrittenFields == 4
SpecFields == 5

U16At(s, k) ==
  IF Endian = "little" THEN s[k] + 256 * s[k + 1] ELSE 256 * s[k] + s[k + 1]

I16At(s, k) == LET u == U16At(s, k) IN IF u >= 32768 THEN u - 65536 ELSE u

RoundUp4(n) == ((n + 3) \div 4) * 4

FixedLen(nf) == 2 * nf + 6

\* Bytes of the bitmap of a width x height cell, as the reader recomputes them.
BitmapLen(w, h) == RoundUp4((w * h) \div 8)

\* A whole record with positive dimensions starts at position p of s.
Complete(s, p, nf) ==
  /\ p + FixedLen(nf) - 1 <= Len(s)
  /\ I16At(s, p) > 0
  /\ I16At(s, p + 2) > 0
  /\ p + FixedLen(nf) + BitmapLen(I16At(s, p), I16At(s, p + 2)) - 1 <= Len(s)

RecordEnd(s, p, nf) ==
  p + FixedLen(nf) + BitmapLen(I16At(s, p), I16At(s, p + 2))

RecordAt(s, p, nf) ==
  LET w == I16At(s, p)
      h == I16At(s, p + 2)
  IN [fields   |-> [k \in 1..nf |-> I16At(s, p + 2 * (k - 1))],
      reserved |-> SubSeq(s, p + 2 * nf, p + 2 * nf + 5),
      bitmap   |-> SubSeq(s, p + FixedLen(nf), p + FixedLen(nf) + (w * h) \div 8 - 1)]

RECURSIVE RecordsFrom(_, _, _)
RecordsFrom(s, p, nf) ==
  IF Complete(s, p, nf)
  THEN <<RecordAt(s, p, nf)>> \o RecordsFrom(s, RecordEnd(s, p, nf), nf)
  ELSE <<>>

RECURSIVE WalkEnd(_, _, _)
WalkEnd(s, p, nf) ==
  IF Complete(s, p, nf) THEN WalkEnd(s, RecordEnd(s, p, nf), nf) ELSE p

\* The complete glyph records a reader finds in s.
Records(s, nf) ==
  IF Len(s) >= HeaderLen THEN RecordsFrom(s, HeaderLen + 1, nf) ELSE <<>>

\* s is a header followed by whole records and nothing else: a reader
\* cannot tell it from a finished container.
WalksExactly(s, nf) ==
  Len(s) >= HeaderLen /\ WalkEnd(s, HeaderLen + 1, nf) = Len(s) + 1

\* The header as a reader sees it: the name field, the size, the style.
HeaderOf(s) == <<SubSeq(s, 5, 36), I16At(s, 37), I16At(s, 39)>>
=============================================================================
