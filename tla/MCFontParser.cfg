CONSTANTS
  FONT_SIZE = 10
  CHARSET_SIZE = 34
  FontName <- MCName32
  RawWidths = {0, 1, 8, 9, 32761}
  RawHeights = {0, 1, 9, 32761}
  Masks <- MCMasks
  InkAt <- MCInkAt
  Endian = "little"
SPECIFICATION Spec
INVARIANTS TypeOK BitmapFlushedWhole DimensionsReadBack
PROPERTIES StreamRefined
