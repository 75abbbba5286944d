\* Three plain edits and the text content_ is left with.
CONSTANTS
  NULL = NULL
  MaxLength = 15
  Shape <- MCShapeSingle
  MaxComponents = 1
  MaxEdits = 3
SPECIFICATION Spec
INVARIANT
  ContentIsText
\* An editor may stop, and does after MaxEdits edits.
CHECK_DEADLOCK FALSE
