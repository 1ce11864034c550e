SPECIFICATION ApartSpec
CONSTANTS
    d1 = d1
    d2 = d2
    e1 = e1
    e2 = e2
    a = a
    b = b
    Device = {d1, d2}
    DocId = {e1}
    Value = {a}
    MaxPending = 1
    MaxBacklog = 0
    MaxPendingWrites = 1
    Collection = {"Calendar"}
    WriteCallback = {"posted", "removed"}
    NoDocument = none
    NoCallback = "nobody"
    MaxVersion = 3
SYMMETRY Alike
VIEW WithoutScreenHistory
INVARIANTS
    NothingLost
PROPERTIES
    LedgerSpec
