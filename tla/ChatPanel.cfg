\* Characters of one and of four bytes; drafts of up to three characters,
\* edited at every place; messages of one and two lines, in panels too small
\* for one of them and large enough for all.
SPECIFICATION Spec
CONSTANTS
  Chars = {1, 4}
  MaxText = 3
  Lengths = {0, 4}
  MaxMessages = 3
  Widths = {0, 1, 2, 7}
  Heights = {1, 4, 9, 14}
  Gap = 1
INVARIANTS
  TextIsUtf8
  RowsShowCursor
  TranscriptFills
PROPERTY
  EditsBuffer
