SPECIFICATION Spec
CONSTANTS
    w1 = w1
    w2 = w2
    None = None
    Workers = {w1, w2}
    Users = {"MIKE", "ANN", "OPS", "PROD"}
    Prod = "PROD"
    SYSUID = "SYSUID"
    PLACEHOLDER = "$MVSMF"
    LastCol = 71
    JobHead = 15
    Indent = 11
    UserW = 4
    Names = {"PAY", "RUN", "SYSLOG"}
    SysNames = {"SYSLOG"}
    Cut <- MCCut
    Level <- MCLevel
    Start0 <- MCStart
    MaxJobs = 8
    CacheMax = 1
    PurgeLooks = 2
    Requests <- MCRequests
    MaxRequests = 2
    MaxFaults = 1
    MaxMoves = 2
SYMMETRY Perms
INVARIANTS RequestSound HiddenIsAbsent AnswersTrue 
PROPERTIES OnlyPermitted ListIsPolicy
