CONSTANTS
    NSlots = 2
    Nobody = Nobody
    Commands = {c1}
    Rejects = {r}
    Garbled = {g}
SPECIFICATION FairSpec
INVARIANTS TypeOK ExecutedOnce OnlyFailuresStay
PROPERTIES LostOnlyAfterEmptyRead UnreadIsHandled
