SPECIFICATION Spec
CONSTANTS
  IoEvents <- Io
  FdOf <- Fds
  PfdInit = 1
  NofileMax = 2
  SigPipe = "sigpipe"
  Timers = {"timer"}
  SigEvents <- TwoSigs
  NSig = 2
  SigOf <- SigNumbers
  Persist <- Persistent
  Adds <- AllAdds
  Modes <- AllModes
  Requests = {"exit", "break", "continue"}
  MaxCalls = 5
  MaxSent = 2
  MaxClock = 2
INVARIANTS
  TableOK
  QueuesAgree
  NothingForgotten
  EndsAsAsked
CHECK_DEADLOCK FALSE
