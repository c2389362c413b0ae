SPECIFICATION FairSpec
CONSTANTS
    t1 = t1
    t2 = t2
    t3 = t3
    p1 = p1
    p2 = p2
    i1 = i1
    i2 = i2
    i3 = i3
    i4 = i4
    None = None
    Thread <- MCTwoThread
    Process <- MCProcess
    ProcessOf <- MCTwoProcessOf
    Inode <- MCThreeInode
    Platform = "posix"
    Closer <- MCTwoThread
    Mortal <- MCProcess
    MaxDepth = 2
PROPERTY AttemptEnds
\* Every process may have died: nothing is left to run.
CHECK_DEADLOCK FALSE
