CONSTANTS
  Instances = {s1, s2}
  c1 = c1
  c2 = c2
  c3 = c3
  Clients = {c1, c2}
  Task <- Tasks
  Fates <- TaskFates
  Cuts <- TaskCuts
  Astray = {"OLE"}
  Exists <- Dirs
  Home <- Root
  BufSize = 137
  Words <- AllWords
  Numerals = {"0", "10", "1000", "3000", "4096"}
  ExecArgc = 32
SPECIFICATION Spec
INVARIANTS
  TypeOK
  ParsedAsSent
  WholeNeverDerails
  AnswerIsOwn
  SoleInstance
PROPERTIES
  Served
CHECK_DEADLOCK FALSE
