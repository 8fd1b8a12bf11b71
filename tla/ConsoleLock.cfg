SPECIFICATION FairSpec
CONSTANTS
    Day = 3
    Cap = 3
    Workers = {w1, w2}
    Cmds = {"K S"}
    Replies <- MCReplies
    Noise <- MCNoise
    Kinds <- MCDetecting
    HasContext = TRUE
    Disturbed = TRUE
    Window = 1
    StablePolls = 1
    MaxPolls = 2
    LockTries = 2
    MaxReq = 2
    MaxNoise = 0
    MaxCollects = 0
    MaxSec = 0
    Nobody = Nobody
INVARIANTS LockDiscipline AnswerTruthful
PROPERTIES RequestsAnswered
