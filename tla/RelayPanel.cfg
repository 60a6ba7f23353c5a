CONSTANTS
    Inputs = {0, 3}
    Commanded = {2}
    Overridden = {0}
    Hold = 2
SPECIFICATION FairSpec
INVARIANTS TypeOK RelaysFollowParams InputsTakenIn
PROPERTIES NoSideSwitch BounceActsOnce PressHandled InputsCatchUp
