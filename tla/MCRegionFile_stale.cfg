\* Two saves between the two page reads of one load.
SPECIFICATION Spec
CONSTANTS
    c1 = c1  c2 = c2  v1 = v1  v2 = v2  l1 = l1
    None = None  Torn = Torn  NoInode = NoInode
    Chunk <- Chunks2
    Value <- Contents2
    Inode <- Inodes
    MaxGen = 5
    MaxRecs = 3
    Loader = {l1}
    FaultSets <- NoFaults
SYMMETRY Swap
INVARIANT LoadsAreFresh
CHECK_DEADLOCK FALSE
