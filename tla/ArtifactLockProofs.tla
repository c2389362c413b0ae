------------------------- MODULE ArtifactLockProofs -------------------------
(***************************************************************************)
(* Mutual exclusion of `artifact_lock` on Windows, for any number of       *)
(* threads, processes and closing engines.  The whole argument rests on    *)
(* one fact about the platform: a name is not removed while a descriptor   *)
(* is open, so every open descriptor refers to the file at the lock path   *)
(* (FdNamesPath) and all contenders ask for the same operating-system      *)
(* lock.  POSIX has no such rule, and there the run `lock_overtake` shows  *)
(* two holders.                                                            *)
(***************************************************************************)
EXTENDS ArtifactLock, TLAPS

\* Every open descriptor refers to the file the path names now.
FdNamesPath == \A t \in Thread : fd[t] # None => fd[t] = path

\* A thread past a granted lock owns the inode it has open.
HolderOwns ==
    \A t \in Thread : pc[t] \in Holding => fd[t] \in Inode /\ owner[fd[t]] = t

\* Between open and the end of the attempt there is a descriptor.
AskerHasFd == \A t \in Thread : pc[t] \in {"try", "wait", "break"} => fd[t] \in Inode

\* A lock belongs to a thread that holds it on the file it has open.
OwnerHolds ==
    \A i \in Inode : owner[i] # None => pc[owner[i]] \in Holding /\ fd[owner[i]] = i

IInv == TypeOK /\ FdNamesPath /\ HolderOwns /\ AskerHasFd /\ OwnerHolds
-----------------------------------------------------------------------------
\* Every variable keeps its type on both platforms: no path through
\* _file_lock, its error paths and a crash leaves a malformed state.
THEOREM Typing == Spec => []TypeOK
<1>1. Init => TypeOK
  BY NoneAssumption, ProcessAssumption, DepthAssumption
     DEF Init, TypeOK, Holding, Asking, Leaving
<1>2. TypeOK /\ [Next]_vars => TypeOK'
  <2> SUFFICES ASSUME TypeOK, [Next]_vars PROVE TypeOK'
    OBVIOUS
  <2> USE NoneAssumption, ProcessAssumption, DepthAssumption
          DEF TypeOK, Holding, Asking, Leaving, At, files
  <2>1. ASSUME NEW t \in Thread, Ask(t) PROVE TypeOK'
    <3>1. CASE OpenLock(t) BY <3>1 DEF OpenLock
    <3>2. CASE TryLock(t) BY <3>2 DEF TryLock
    <3>3. CASE LockBusy(t) BY <3>3 DEF LockBusy
    <3>4. CASE TimeOut(t) BY <3>4 DEF TimeOut
    <3>5. CASE Poll(t) BY <3>5 DEF Poll
    <3>6. CASE FindStale(t) BY <3>6 DEF FindStale
    <3>7. CASE BreakClose(t) BY <3>7 DEF BreakClose
    <3>8. CASE BreakUnlink(t) BY <3>8 DEF BreakUnlink, Unlink
    <3>9. CASE BreakUnstamp(t) BY <3>9 DEF BreakUnstamp
    <3> QED BY <2>1, <3>1, <3>2, <3>3, <3>4, <3>5, <3>6, <3>7, <3>8, <3>9 DEF Ask
  <2>2. ASSUME NEW t \in Thread, Settle(t) PROVE TypeOK'
    <3>1. CASE StampSidecar(t) BY <3>1 DEF StampSidecar
    <3>2. CASE StampFails(t) BY <3>2 DEF StampFails
    <3>3. CASE FillLockFile(t) BY <3>3 DEF FillLockFile
    <3>4. CASE Unlock(t) BY <3>4 DEF Unlock
    <3>5. CASE CloseLock(t) BY <3>5 DEF CloseLock
    <3>6. CASE UnlinkLock(t) BY <3>6 DEF UnlinkLock, Unlink
    <3>7. CASE RemoveSidecar(t) BY <3>7 DEF RemoveSidecar
    <3>8. CASE OwnerUnlink(t) BY <3>8 DEF OwnerUnlink, Unlink
    <3>9. CASE OwnerUnstamp(t) BY <3>9 DEF OwnerUnstamp
    <3> QED BY <2>2, <3>1, <3>2, <3>3, <3>4, <3>5, <3>6, <3>7, <3>8, <3>9 DEF Settle
  <2>3. ASSUME NEW t \in Thread, Use(t) PROVE TypeOK'
    <3>1. CASE Enter(t) BY <3>1 DEF Enter
    <3>2. CASE EnterNested(t) BY <3>2 DEF EnterNested
    <3>3. CASE LeaveNested(t) BY <3>3 DEF LeaveNested
    <3>4. CASE Leave(t) BY <3>4 DEF Leave
    <3>5. CASE OwnerClose(t) BY <3>5 DEF OwnerClose
    <3> QED BY <2>3, <3>1, <3>2, <3>3, <3>4, <3>5 DEF Use
  <2>4. ASSUME NEW t \in Thread, DeadlinePasses(t) PROVE TypeOK'
    BY <2>4 DEF DeadlinePasses
  <2>5. ASSUME NEW p \in Process, Crash(p) PROVE TypeOK'
    BY <2>5 DEF Crash
  <2>6. CASE UNCHANGED vars
    BY <2>6 DEF vars
  <2> QED BY <2>1, <2>2, <2>3, <2>4, <2>5, <2>6 DEF Next
<1> QED BY <1>1, <1>2, PTL DEF Spec

\* The strengthening needed for mutual exclusion is inductive on Windows.
LEMMA Inductive ==
    ASSUME Platform = "win32", IInv, TypeOK', [Next]_vars
    PROVE  IInv'
<1> DEFINE Rest == FdNamesPath /\ HolderOwns /\ AskerHasFd /\ OwnerHolds
<1> SUFFICES Rest'
  BY DEF IInv
<1> USE NoneAssumption, ProcessAssumption
        DEF IInv, TypeOK, FdNamesPath, HolderOwns, AskerHasFd, OwnerHolds,
            Holding, At, files
<1>1. ASSUME NEW t \in Thread, Ask(t) PROVE Rest'
  <2>1. CASE OpenLock(t) BY <2>1 DEF OpenLock
  <2>2. CASE TryLock(t) BY <2>2 DEF TryLock
  <2>3. CASE LockBusy(t) BY <2>3 DEF LockBusy
  <2>4. CASE TimeOut(t) BY <2>4 DEF TimeOut
  <2>5. CASE Poll(t) BY <2>5 DEF Poll
  <2>6. CASE FindStale(t) BY <2>6 DEF FindStale
  <2>7. CASE BreakClose(t) BY <2>7 DEF BreakClose
  <2>8. CASE BreakUnlink(t) BY <2>8 DEF BreakUnlink, Unlink
  <2>9. CASE BreakUnstamp(t) BY <2>9 DEF BreakUnstamp
  <2> QED BY <1>1, <2>1, <2>2, <2>3, <2>4, <2>5, <2>6, <2>7, <2>8, <2>9 DEF Ask
<1>2. ASSUME NEW t \in Thread, Settle(t) PROVE Rest'
  <2>1. CASE StampSidecar(t) BY <2>1 DEF StampSidecar
  <2>2. CASE StampFails(t) BY <2>2 DEF StampFails
  <2>3. CASE FillLockFile(t) BY <2>3 DEF FillLockFile
  <2>4. CASE Unlock(t) BY <2>4 DEF Unlock
  <2>5. CASE CloseLock(t) BY <2>5 DEF CloseLock
  <2>6. CASE UnlinkLock(t) BY <2>6 DEF UnlinkLock, Unlink
  <2>7. CASE RemoveSidecar(t) BY <2>7 DEF RemoveSidecar
  <2>8. CASE OwnerUnlink(t) BY <2>8 DEF OwnerUnlink, Unlink
  <2>9. CASE OwnerUnstamp(t) BY <2>9 DEF OwnerUnstamp
  <2> QED BY <1>2, <2>1, <2>2, <2>3, <2>4, <2>5, <2>6, <2>7, <2>8, <2>9 DEF Settle
<1>3. ASSUME NEW t \in Thread, Use(t) PROVE Rest'
  <2>1. CASE Enter(t) BY <2>1 DEF Enter
  <2>2. CASE EnterNested(t) BY <2>2 DEF EnterNested
  <2>3. CASE LeaveNested(t) BY <2>3 DEF LeaveNested
  <2>4. CASE Leave(t) BY <2>4 DEF Leave
  <2>5. CASE OwnerClose(t) BY <2>5 DEF OwnerClose
  <2> QED BY <1>3, <2>1, <2>2, <2>3, <2>4, <2>5 DEF Use
<1>4. ASSUME NEW t \in Thread, DeadlinePasses(t) PROVE Rest'
  BY <1>4 DEF DeadlinePasses
<1>5. ASSUME NEW p \in Process, Crash(p) PROVE Rest'
  BY <1>5 DEF Crash
<1>6. CASE UNCHANGED vars
  BY <1>6 DEF vars
<1> QED BY <1>1, <1>2, <1>3, <1>4, <1>5, <1>6 DEF Next

LEMMA WindowsInvariant == ASSUME Platform = "win32" PROVE Spec => []IInv
<1>1. Init => IInv
  BY NoneAssumption, ProcessAssumption, DepthAssumption
     DEF Init, IInv, TypeOK, FdNamesPath, HolderOwns, AskerHasFd, OwnerHolds,
         Holding, Asking, Leaving
<1>2. IInv /\ TypeOK' /\ [Next]_vars => IInv'
  BY Inductive
<1> QED BY <1>1, <1>2, Typing, PTL DEF Spec

\* On Windows no two threads are ever between a granted lock and its release,
\* whatever crashes, times out, breaks stale locks or closes engines meanwhile.
THEOREM WindowsExclusion == ASSUME Platform = "win32" PROVE Spec => []MutualExclusion
<1>1. IInv => MutualExclusion
  BY NoneAssumption DEF IInv, FdNamesPath, HolderOwns, MutualExclusion
<1> QED BY <1>1, WindowsInvariant, PTL

-----------------------------------------------------------------------------
\* A thread that does not hold the lock is not inside for the abstract lock.
LEMMA StageOutside ==
    ASSUME NEW t, pc[t] \notin Holding PROVE Stage(t) # "in"
  BY DEF Stage, Asking

\* A granted lock finds nobody inside: the case the refinement turns on.
LEMMA GrantIsFair ==
    ASSUME IInv, NEW t \in Thread, TryLock(t) PROVE Abstract!Grant(t)
<1>1. \A u \in Thread : pc[u] \notin Holding
  BY NoneAssumption DEF IInv, TypeOK, TryLock, At, FdNamesPath, HolderOwns, AskerHasFd
<1>2. \A u \in Thread : Stage(u) # "in"
  BY <1>1, StageOutside
<1>3. Abstract!Move(t, "trying", "in")
  BY DEF IInv, TypeOK, TryLock, At, Abstract!Move, Stage, Holding, Asking
<1> QED BY <1>2, <1>3 DEF Abstract!Grant

\* Refinement, one step: a step of the file protocol is one of the abstract
\* lock's, or a stutter for its callers.
LEMMA StepRefines ==
    ASSUME Platform = "win32", IInv, TypeOK', [Next]_vars
    PROVE  [Abstract!Next]_(Abstract!vars)
<1> DEFINE Goal == Abstract!Next \/ UNCHANGED [t \in Thread |-> Stage(t)]
<1> SUFFICES Goal
  BY DEF Abstract!vars
<1> USE NoneAssumption, ProcessAssumption
        DEF IInv, TypeOK, Holding, Asking, Leaving, Stage, At, files
<1>1. ASSUME NEW t \in Thread, Ask(t) PROVE Goal
  <2>1. CASE OpenLock(t) BY <2>1 DEF OpenLock
  <2>2. CASE TryLock(t)
    <3>1. Abstract!Grant(t)
      BY <2>2, GrantIsFair
    <3> QED BY <3>1 DEF Abstract!Next
  <2>3. CASE LockBusy(t) BY <2>3 DEF LockBusy
  <2>4. CASE TimeOut(t)
    <3>1. Abstract!GiveUp(t)
      BY <2>4, ZenonT(60) DEF TimeOut, Abstract!GiveUp, Abstract!Move
    <3> QED BY <3>1 DEF Abstract!Next
  <2>5. CASE Poll(t) BY <2>5 DEF Poll
  <2>6. CASE FindStale(t) BY <2>6 DEF FindStale
  <2>7. CASE BreakClose(t) BY <2>7 DEF BreakClose
  <2>8. CASE BreakUnlink(t) BY <2>8 DEF BreakUnlink
  <2>9. CASE BreakUnstamp(t) BY <2>9 DEF BreakUnstamp
  <2> QED BY <1>1, <2>1, <2>2, <2>3, <2>4, <2>5, <2>6, <2>7, <2>8, <2>9 DEF Ask
<1>2. ASSUME NEW t \in Thread, Settle(t) PROVE Goal
  <2>1. CASE StampSidecar(t) BY <2>1 DEF StampSidecar
  <2>2. CASE StampFails(t) BY <2>2 DEF StampFails
  <2>3. CASE FillLockFile(t) BY <2>3 DEF FillLockFile
  <2>4. CASE Unlock(t)
    <3>1. Abstract!Release(t)
      BY <2>4, ZenonT(60) DEF Unlock, Abstract!Release, Abstract!Move
    <3> QED BY <3>1 DEF Abstract!Next
  <2>5. CASE CloseLock(t) BY <2>5 DEF CloseLock
  <2>6. CASE UnlinkLock(t) BY <2>6 DEF UnlinkLock
  <2>7. CASE RemoveSidecar(t) BY <2>7 DEF RemoveSidecar
  <2>8. CASE OwnerUnlink(t) BY <2>8 DEF OwnerUnlink
  <2>9. CASE OwnerUnstamp(t) BY <2>9 DEF OwnerUnstamp
  <2> QED BY <1>2, <2>1, <2>2, <2>3, <2>4, <2>5, <2>6, <2>7, <2>8, <2>9 DEF Settle
<1>3. ASSUME NEW t \in Thread, Use(t) PROVE Goal
  <2>1. CASE Enter(t)
    <3>1. Abstract!Request(t)
      BY <2>1, ZenonT(60) DEF Enter, Abstract!Request, Abstract!Move
    <3> QED BY <3>1 DEF Abstract!Next
  <2>2. CASE EnterNested(t) BY <2>2 DEF EnterNested
  <2>3. CASE LeaveNested(t) BY <2>3 DEF LeaveNested
  <2>4. CASE Leave(t) BY <2>4 DEF Leave
  <2>5. CASE OwnerClose(t) BY <2>5 DEF OwnerClose
  <2> QED BY <1>3, <2>1, <2>2, <2>3, <2>4, <2>5 DEF Use
<1>4. ASSUME NEW t \in Thread, DeadlinePasses(t) PROVE Goal
  BY <1>4 DEF DeadlinePasses
<1>5. ASSUME NEW p \in Process, Crash(p) PROVE Goal
  <2>1. Abstract!Die({t \in Thread : ProcessOf[t] = p})
    BY <1>5 DEF Crash, Abstract!Die
  <2> QED BY <2>1 DEF Abstract!Next
<1>6. CASE UNCHANGED vars
  BY <1>6 DEF vars
<1> QED BY <1>1, <1>2, <1>3, <1>4, <1>5, <1>6 DEF Next

\* On Windows the file protocol implements the mutual-exclusion promise.
THEOREM WindowsRefinement ==
    ASSUME Platform = "win32" PROVE Spec => ImplementsAbstractLock
<1>1. Init => Abstract!Init
  BY DEF Init, Stage, Holding, Asking, Abstract!Init
<1>2. IInv /\ TypeOK' /\ [Next]_vars => [Abstract!Next]_(Abstract!vars)
  BY StepRefines
<1> QED BY <1>1, <1>2, Typing, WindowsInvariant, PTL
        DEF Spec, Abstract!Spec, ImplementsAbstractLock
=============================================================================
