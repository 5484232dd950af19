SPECIFICATION FairSpec
CONSTANTS
    abits = 2
    Data = {d1, d2}
INVARIANTS
    TypeOK
    PointersInOrder
    FlagsConservative
PROPERTIES
    OneBitPerEdge
    RefinesFifo
    WordBecomesVisible
    RoomBecomesVisible
