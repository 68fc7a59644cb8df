\* A 33-character font name: spec 4.3 and 8 say it is rejected.
CONSTANTS
  FONT_SIZE = 10
  CHARSET_SIZE = 33
  FontName <- MCLongName
  RawWidths = {0, 9}
  RawHeights = {0}
  Masks <- MCMasks
  InkAt <- MCInkAt
  Endian = "little"
SPECIFICATION Spec
INVARIANT HeaderFieldsAtFixedOffsets
