SPECIFICATION Spec
CONSTANTS
    Workers = {w1}
    Users = {u1}
    Handles = {h1}
    MaxFiles = 4
    MaxLost = 1
    Server = Server
    None = None
INVARIANTS NoCleanShortBody
