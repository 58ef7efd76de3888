CONSTANTS
  Instances = {s1}
  c1 = c1
  c2 = c2
  c3 = c3
  Clients = {c3}
  Task <- Tasks
  Fates <- TaskFates
  Cuts <- TaskCuts
  Astray = {"SE", "OLE"}
  Exists <- Dirs
  Home <- Root
  BufSize = 137
  Words <- AllWords
  Numerals = {"0", "10", "1000", "3000", "4096"}
  ExecArgc = 32
SPECIFICATION Spec
INVARIANTS
  WholeNeverDerails
CHECK_DEADLOCK FALSE
