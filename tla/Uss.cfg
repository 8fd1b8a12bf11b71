SPECIFICATION Spec
CONSTANTS
    w1 = w1
    w2 = w2
    None = None
    Workers = {w1, w2}
    Paths = {"d", "d/a", "d/e", "d/e/b", "f", "long"}
    Parent <- MCParent
    Long = {"long"}
    Start0 <- MCStart
    Perms = {"default", "private"}
    DefPerm = "default"
    MaxChunks = 2
    Requests <- MCRequests
    MaxRequests = 3
    MaxFaults = 1
SYMMETRY Symm
INVARIANTS SessionClean RefusalIsSilent DeleteTruthful NothingShort
PROPERTIES MatchSound
