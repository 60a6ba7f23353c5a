CONSTANTS
    NoCaller = NoCaller
    NoRecord = NoRecord
    Callers = {t1}
    Main = t1
    NKeys = 3
    Persist = {0, 2}
    Values = {0, 1}
    Default <- MCDefault
    Watched = {0, 1}
    Resetters = {t1}
SPECIFICATION FairSpec
INVARIANTS DeliveredIsCurrent
PROPERTIES OnlySaveDestroys MutexReleased ImplementsDurableTable
