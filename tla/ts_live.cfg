SPECIFICATION FairSpec
CONSTANTS
  p1 = p1
  p2 = p2
  i1 = i1
  i2 = i2
  i3 = i3
  None = None
  NoTty = "notty"
  Procs = {p1, p2}
  Inodes = {i1, i2, i3}
  Sessions <- Sessions5
  Auths = {"u1", "u2"}
  Configs <- LiveConfigs
  MaxRuns = 3
  MaxClock = 0
PROPERTIES
  PromptsProgress
CHECK_DEADLOCK FALSE
