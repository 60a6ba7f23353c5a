CONSTANTS
    NoCaller = NoCaller
    NoRecord = NoRecord
    Callers = {t1, t2}
    Main = t1
    NKeys = 2
    Persist = {0, 1}
    Values = {0, 1}
    Default <- MCDefault
    Watched = {}
    Resetters = {t2}
SPECIFICATION Spec
INVARIANTS TypeOK SnapshotExclusive NoValueForgotten QuietFileMatchesRam
PROPERTIES RebootRestores
