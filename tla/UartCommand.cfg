CONSTANTS
    Letters = {a, b}
    Bang = Bang
    FifoSize = 3
    RxSize = 2
    CmdSize = 3
    ReadsFail = TRUE
    MaxBytes = 7
SPECIFICATION FairSpec
INVARIANTS TypeOK Framing NoLostSignal
PROPERTIES OneCommandPerLine BytesAreRead
