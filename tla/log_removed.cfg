CONSTANT Delays <- MCDelays
CONSTANT Confs <- RetransmitConfs
SPECIFICATION Spec
INVARIANT RemovedWhenStored
CHECK_DEADLOCK FALSE
