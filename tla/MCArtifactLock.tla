--------------------------- MODULE MCArtifactLock ---------------------------
(* Instances of ArtifactLock: two processes, one of them with two threads.  *)
EXTENDS ArtifactLock, TLC

CONSTANTS t1, t2, t3, p1, p2, i1, i2, i3, i4

MCThread == {t1, t2, t3}
MCProcess == {p1, p2}
MCProcessOf == t1 :> p1 @@ t2 :> p1 @@ t3 :> p2
MCInode == {i1, i2, i3, i4}

MCThreeInode == {i1, i2, i3}
MCNobody == {}

MCTwoThread == {t1, t3}
MCTwoProcessOf == t1 :> p1 @@ t3 :> p2

InodeSymmetry == Permutations(MCInode)
=============================================================================
