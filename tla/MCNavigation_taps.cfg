SPECIFICATION FairSpec
CONSTANTS
    Who = {"lauren", "antonio"}
    Sections = {"calendarView", "couponsView", "photosGalleryView"}
    TransitionTicks <- HeroTicks
INVARIANTS
    TypeOK
    NoDeadScreen
PROPERTIES
    GateSpec
    AsksLastTapped
    LeavingIsDone
