\* Four edits, so that one of them crosses two others on a text.
CONSTANTS
  NULL = NULL
  MaxLength = 15
  Shape <- MCShapeMixed
  MaxComponents = 2
  MaxEdits = 4
SPECIFICATION Spec
INVARIANTS
  TypeOK
  IntentionKept
  ServerInsertsFirst
PROPERTY
  ComposeKeepsText
\* An editor may stop, and does after MaxEdits edits.
CHECK_DEADLOCK FALSE
