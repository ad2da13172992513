CONSTANT Delays <- MCDelays
CONSTANT Confs <- LiveConfs
SPECIFICATION FairSpec
INVARIANT RemovedWhenStored
PROPERTY ClientServed
PROPERTY JournalRelayed
CHECK_DEADLOCK FALSE
