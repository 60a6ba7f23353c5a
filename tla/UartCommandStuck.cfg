CONSTANTS
    Letters = {a}
    Bang = Bang
    FifoSize = 3
    RxSize = 2
    CmdSize = 3
    ReadsFail = FALSE
    MaxBytes = 5
SPECIFICATION FairSpec
PROPERTIES AllDataRead
