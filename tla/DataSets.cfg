CONSTANTS
    w1 = w1
    w2 = w2
    None = None
    Workers = {w1, w2}
    Names <- MCNames
    Members <- MCMembers
    Fixed = {"S"}
    Spanned = {"V"}
    Users = {"user", "guest"}
    Perm <- MCPerm
    Catalog <- MCCatalog
    Recs = {1, 2, 3, 4}
    Long = {4}
    Requests <- MCRequests
    MaxRequests = 2
    MaxFaults = 1
SPECIFICATION Spec
SYMMETRY Perms
INVARIANTS SessionSound RefusalIsSilent StoredIsBody
PROPERTIES StampsSound OnlyPermitted
