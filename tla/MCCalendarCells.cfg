SPECIFICATION Spec
CONSTANTS
    Day = {1, 2, 3, 4, 5, 6, 7, 8, 9}
    Months <- TwoMonths
    Weeks <- ThreeWeeks
INVARIANTS
    TypeOK
    RunsAreDrawn
PROPERTIES
    CircleFollowsTap
