SPECIFICATION Spec
CONSTANTS
  p1 = p1
  p2 = p2
  i1 = i1
  i2 = i2
  i3 = i3
  None = None
  NoTty = "notty"
  Procs = {p1, p2}
  Inodes = {i1, i2, i3}
  Sessions <- Sessions5
  Auths = {"u1", "u2"}
  Configs <- SafetyConfigs
  MaxRuns = 3
  MaxClock = 2
SYMMETRY Symmetry2
INVARIANTS
  SessionExclusion
  TicketPositionStable
  WriteBackNotStale
PROPERTIES
  TicketRule
  KillEffectiveWhenQuiet
CHECK_DEADLOCK FALSE
