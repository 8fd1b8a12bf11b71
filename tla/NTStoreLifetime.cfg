SPECIFICATION Spec
CONSTANTS
    Workers = {w1, w2}
    Names = {n1, n2, n3}
    Values = {v1, v2}
    NSlots = 2
    TTL = 1
    Fine = 2
    Word = 16
    MaxTod = 3
    Absent = Absent
    Nobody = Nobody
PROPERTIES LifetimeKept
