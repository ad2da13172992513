SPECIFICATION Spec
CONSTANTS
    Session = {"ann", "bob"}
    File = {"f", "g"}
    Absent = Absent
    Chunk <- MCChunk
    NewText <- MCNewText
    Confs <- MCConfs
CHECK_DEADLOCK FALSE
INVARIANTS
    EditNeverLost
    OldOrNew
    SuccessMeansDone
