CONSTANTS
    Devices = {4, 10}
    LastAddr = 12
    SlaveLimit = 3
    ReinitAfter = 3
SPECIFICATION FairSpec
INVARIANTS TypeOK RegisteredReachable EveryAddressTried
PROPERTIES ScanSparesDevices ScanEnds
