SPECIFICATION PhoneSpec
CONSTANTS
    d1 = d1
    d2 = d2
    c1 = c1
    c2 = c2
    Device = {d1}
    DocId = {c1, c2}
    Users <- EitherPerson
    MaxPending = 2
    MaxBacklog = 1
    MaxPendingWrites = 2
    Collection = {"Lauren", "Antonio"}
    Value = {"unredeemed", "redeemed"}
    WriteCallback = {"redeemed", "gifted"}
    NoDocument = "none"
    NoCallback = "nobody"
    MaxVersion = 4
INVARIANTS
    TypeOK
    CarouselCatchesUp
    CarouselExplained
    SpinnersAccounted
PROPERTIES
    CarouselNeverGoesBack
