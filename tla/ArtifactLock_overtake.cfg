SPECIFICATION Spec
CONSTANTS
    t1 = t1
    t2 = t2
    t3 = t3
    p1 = p1
    p2 = p2
    i1 = i1
    i2 = i2
    i3 = i3
    i4 = i4
    None = None
    Thread <- MCThread
    Process <- MCProcess
    ProcessOf <- MCProcessOf
    Inode <- MCInode
    Platform = "posix"
    Closer <- MCNobody
    Mortal <- MCNobody
    MaxDepth = 2
SYMMETRY InodeSymmetry
INVARIANT MutualExclusion
\* Every process may have died: nothing is left to run.
CHECK_DEADLOCK FALSE
