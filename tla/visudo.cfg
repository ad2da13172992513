SPECIFICATION Spec
CONSTANTS
    Session = {"ann", "bob"}
    Sudoers = "sudoers"
    Included = "local"
    Absent = Absent
    Confs <- MCConfs
CHECK_DEADLOCK FALSE
INVARIANTS
    SudoersParse
    EditsApart
PROPERTIES
    OutcomeKept
