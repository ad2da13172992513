CONSTANT Delays <- MCDelays
CONSTANT Confs <- SafetyConfs
SPECIFICATION Spec
INVARIANT StorageSound
PROPERTY RestartFound
PROPERTY ImplementsService
CHECK_DEADLOCK FALSE
