CONSTANTS
    NSlots = 2
    Nobody = Nobody
    Commands = {c1, c2}
    Rejects = {r}
    Garbled = {g}
SPECIFICATION Spec
PROPERTIES NoCommandLost
