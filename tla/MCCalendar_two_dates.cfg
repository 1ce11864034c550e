SPECIFICATION AddingSpec
CONSTANTS
    d1 = d1
    d2 = d2
    e1 = e1
    e2 = e2
    a = a
    b = b
    Device = {d1}
    DocId = {e1, e2}
    Value = {a, b}
    MaxPending = 2
    MaxBacklog = 0
    MaxPendingWrites = 2
    Collection = {"Calendar"}
    WriteCallback = {"posted", "removed"}
    NoDocument = none
    NoCallback = "nobody"
    MaxVersion = 4
SYMMETRY Alike
INVARIANTS
    NothingLost
    AddedIsShown
