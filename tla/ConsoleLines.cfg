SPECIFICATION Spec
CONSTANTS
    Day = 3
    Cap = 3
    Workers = {w1, w2}
    Cmds = {"F UFSD"}
    Replies <- MCReplies
    Noise <- MCNoise
    Kinds <- MCPlain
    HasContext = TRUE
    Disturbed = FALSE
    Window = 3
    StablePolls = 1
    MaxPolls = 2
    LockTries = 1
    MaxReq = 2
    MaxNoise = 1
    MaxCollects = 1
    MaxSec = 1
    Nobody = Nobody
SYMMETRY WorkerSymmetry
INVARIANTS NoLineTwice CaptureInOnePiece
