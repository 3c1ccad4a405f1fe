SPECIFICATION FairSpec
CONSTANTS
    NoOne = NoOne
    t1 = t1
    t2 = t2
    t3 = t3
    t4 = t4
    Threads = {t1, t2, t3, t4}
INVARIANTS
    TypeOK
    ExclusiveUnlessOvertaken
    NoLostWakeup
PROPERTIES
    WriterEnters
    ReaderEnters
