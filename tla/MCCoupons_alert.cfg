SPECIFICATION NoneSpec
CONSTANTS
    d1 = d1
    d2 = d2
    c1 = c1
    c2 = c2
    Device = {d1}
    DocId = {c1}
    Users <- OnePerson
    MaxPending = 1
    MaxBacklog = 0
    MaxPendingWrites = 1
    Collection = {"Lauren", "Antonio"}
    Value = {"unredeemed", "redeemed"}
    WriteCallback = {"redeemed", "gifted"}
    NoDocument = "none"
    NoCallback = "nobody"
    MaxVersion = 4
PROPERTIES
    FailureIsDisplayed
