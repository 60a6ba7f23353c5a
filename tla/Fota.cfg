CONSTANTS
    Sizes = {2, 3}
    MaxAttempts = 2
    Buffer = 3
    Characters = {"2", "f", "g", "h", "p", "u", "v", "w"}
    Urls <- MCUrls
    Limit <- MCLimit
    Chunk = 2
SPECIFICATION FairSpec
INVARIANTS TypeOK FalseAlarmsAreLeftovers AddressIsTheUrls
PROPERTIES ImplementsUpgrade EveryAttemptEnds
CHECK_DEADLOCK FALSE
