SPECIFICATION FairSpec
CONSTANT Configs <- PtyConfigs
INVARIANTS
  StatusFaithful
  CommandCollected
  TerminalRestoredAfterFork
PROPERTIES
  StopAnswered
  EndsTogether
CHECK_DEADLOCK FALSE
