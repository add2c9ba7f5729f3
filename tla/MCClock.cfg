SPECIFICATION Spec
CONSTANTS
    HOURS = 4
    MINUTES = 3
    SECONDS = 3
    CURRENT_YEAR = 2024
    WORD = 1789596
    MARGIN = 7
    MaxTicks = 4
    StartDates <- MCStartDates
INVARIANTS
    NoTornRead
PROPERTIES
    TimestampAdvances
    
