CONSTANTS
  MaxLength = 3
  Visible = {a, b}
  Blank = {newline}
  Other = {nonascii}
  Files <- ShortFiles
SPECIFICATION Spec
INVARIANTS
  TypeOK
  VerdictIsReference
  AcceptIsExact
PROPERTIES
  Terminates
CHECK_DEADLOCK FALSE
