SPECIFICATION FairSpec
CONSTANTS
    Owner = Owner
    k1 = k1
    k2 = k2
    Kids = {k1, k2}
    CanFail = TRUE
    CanTimeOut = TRUE
INVARIANTS
    TypeOK
    RefsExact
    DestroyedGroupIsUnused
PROPERTIES
    FinalWhenIdle
    StopReturns
