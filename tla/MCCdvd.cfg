SPECIFICATION Spec
CONSTANTS
    CD = CD
    DVD = DVD
    NoDisc = NoDisc
    Size <- MCSize
    DVDs <- MCDVDs
    Buffer = 2
    Contiguous = 2
    RetryCntMax = 1
    Stage = 1
    MaxCnt = 2
    MaxMoves = 2
INVARIANTS
    ReadDelivers
    WorkGoesOn
    OneIrq
    
PROPERTIES
    ReadyAgain
CONSTRAINT Bound
