\* The finished file walked by the record layout of spec 4.3, on a big-endian host.
CONSTANTS
  FONT_SIZE = 10
  CHARSET_SIZE = 34
  FontName <- MCShortName
  RawWidths = {0, 1, 9}
  RawHeights = {0, 9}
  Masks <- MCMasks
  InkAt <- MCInkAt
  Endian = "big"
SPECIFICATION Spec
INVARIANT SpecLayoutWalk
