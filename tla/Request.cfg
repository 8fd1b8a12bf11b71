SPECIFICATION FairSpec
CONSTANTS
    Workers = {w1, w2}
    Users = {u1}
    Handles = {h1}
    MaxFiles = 4
    MaxLost = 1
    Server = Server
    None = None
INVARIANTS SessionSound IdentityKept ResponseHonest
PROPERTIES RequestsEnd
