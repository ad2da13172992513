CONSTANTS
    PermStackMax = 16
    Passwd <- MCPasswd
    Groups <- MCGroups
    Files <- MCFiles
    Canon <- MCCanon
    Unsearchable <- MCUnsearchable
    SetId = {3}
    Digest <- MCDigest
    SudoersOwner <- MCSudoersOwner
    Editor <- MCEditor
    Tree <- MCTree
    Confs <- MCConfs
    MaxProcs = 2
    MaxConns = 2
    NoPreload = {4}
    Scripts = {9}
    Shell <- MCShell

SPECIFICATION Spec
CHECK_DEADLOCK FALSE
INVARIANTS
    VerdictRight
    PasswordRule
    CredentialsKept
    RunsWhatWasChecked
    OnlyAccepted
PROPERTIES
    ExecReturns
