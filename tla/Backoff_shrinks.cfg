SPECIFICATION FairSpec
CONSTANTS
    smallestUnit <- Second
    maxBackoff <- HalfAnHour
    MaxAttempts = 200
PROPERTIES
    NeverShrinks
