CONSTANTS
    l1 = l1  l2 = l2
    None = None
    Zero = Zero
    Write = {w1, w2}
    Lba = {l1, l2}
    Block = {b1, b2}
    Content = {c1, c2}
    Nodes = 1
    Slots = 2
    MaxRefs = 2
    ReadLba <- MCReadLba
    VerifyLba <- MCVerifyLba
    Faults = {"write", "verify", "table"}
SYMMETRY MCSymmetry
SPECIFICATION Spec
CONSTRAINT UpToWindow
INVARIANTS
    TypeOK
    RefsExact
    EntryHonest
    ReadsBack
    CachedIsInUse
    HashOnce
PROPERTY InUseIsKept
