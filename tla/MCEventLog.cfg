SPECIFICATION Spec
CONSTANTS
    Macs <- MCMacs
    Texts <- MCTexts
    Interval = 2
    PageLimit = 3
    MaxTime = 3
    MaxPolls = 2
    MaxEvents = 3
    MaxFaults = 1
CHECK_DEADLOCK FALSE
INVARIANTS
    DamageIsBounded
    PollIsOneGroup
    PollsAreApart
    GroupsByGaps
