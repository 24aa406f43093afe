CONSTANTS
    w1 = w1  w2 = w2
    l1 = l1  l2 = l2
    b1 = b1  b2 = b2  b3 = b3  b4 = b4
    None = None
    Write = {w1, w2}
    Lba = {l1, l2}
    Block = {b1, b2, b3, b4}
    InitMap <- MCInitMap
    Faults = {"data"}
    MaxCrash = 2
    WriteIdMax = 1000
    WriteIdWindow = 100
SYMMETRY MCSymmetry
SPECIFICATION Spec
CHECK_DEADLOCK FALSE
INVARIANTS
    TypeOK
    AckedWriteKept
    MappedBlockInUse
    UnpendingIsOnDisk
    RecoveredIsOnDisk
PROPERTY ImplementsVirtualDisk
