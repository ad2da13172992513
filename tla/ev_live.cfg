SPECIFICATION FairSpec
CONSTANTS
  IoEvents <- Io
  FdOf <- Fds
  PfdInit = 2
  NofileMax = 3
  SigPipe = "sigpipe"
  Timers = {"timer"}
  SigEvents <- TwoSigs
  NSig = 2
  SigOf <- SigNumbers
  Persist <- Persistent
  Adds <- LiveAdds
  Modes <- Blocking
  Requests = {"exit", "continue"}
  MaxCalls = 5
  MaxSent = 2
  MaxClock = 1
PROPERTIES
  EventsReported
CHECK_DEADLOCK FALSE
