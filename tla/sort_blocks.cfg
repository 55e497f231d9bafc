SPECIFICATION FairSpec
CONSTANTS
    Granul = 8
    NThreads = 2
    RecordUnits = 16
    RecordsPerBlock = 1
    Nobody = Nobody
INVARIANTS TypeOK AllClaimed FewDropped PairsDisjoint SizesAddUp CopiesInsideBlocks
PROPERTY SortIndexEnds
