CONSTANTS
    w1 = w1  w2 = w2
    l1 = l1  l2 = l2
    b1 = b1  b2 = b2  b3 = b3  b4 = b4
    None = None
    Write = {w1, w2}
    Lba = {l1, l2}
    Block = {b1, b2, b3, b4}
    InitMap <- MCInitMap
    Faults = {"data", "mirror"}
    MaxCrash = 0
    WriteIdMax = 1000
    WriteIdWindow = 100
SPECIFICATION LiveSpec
CHECK_DEADLOCK FALSE
PROPERTY EveryWriteEnds
