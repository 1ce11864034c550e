SPECIFICATION OneSpec
CONSTANTS
    d1 = d1
    d2 = d2
    e1 = e1
    e2 = e2
    a = a
    b = b
    Device = {d1}
    DocId = {e1, e2}
    Value = {a}
    MaxPending = 2
    MaxBacklog = 0
    MaxPendingWrites = 2
    Collection = {"Calendar"}
    WriteCallback = {"posted", "removed"}
    NoDocument = none
    NoCallback = "nobody"
    MaxVersion = 3
INVARIANTS
    TypeOK
    AddedIsShown
    GoneIsNotShown
PROPERTIES
    GoneStaysGone
    LedgerSpec
