---------------------------- MODULE ArtifactLock ----------------------------
(***************************************************************************)
(* The advisory lock on one artifacts directory (`artifact_lock` and       *)
(* `_file_lock` in _utils_artifacts.py), one step per system call.         *)
(*                                                                         *)
(* A lock file is an inode that `path` may name; threads hold descriptors  *)
(* on inodes (`fd`), the operating system grants each inode to at most one *)
(* descriptor (`owner`), and a sidecar file names the process that holds   *)
(* the lock, which is how a waiter recognises a lock left by a dead one.   *)
(* The model keeps every point at which a thread may be overtaken; it      *)
(* leaves out the wording of diagnostics and the value of the timeout.     *)
(***************************************************************************)
EXTENDS Naturals

CONSTANTS
    Thread,         \* threads that call artifact_lock on this directory
    Process,        \* process incarnations; a restart is another member
    ProcessOf,      \* the process each thread runs in
    Inode,          \* names for files that ever stood at the lock path
    Platform,       \* which branch of sys.platform the code runs
    Closer,         \* threads that may close an engine of this directory
    Mortal,         \* processes that may be killed
    MaxDepth,       \* bound on nested `with artifact_lock` blocks
    None

ASSUME PlatformAssumption == Platform \in {"posix", "win32"}
ASSUME ProcessAssumption == ProcessOf \in [Thread -> Process]
ASSUME NoneAssumption ==
    None \notin Thread /\ None \notin Process /\ None \notin Inode
ASSUME DepthAssumption == MaxDepth \in Nat \ {0}

VARIABLES
    alive,          \* processes that have not died
    path,           \* the inode the lock path names, or None
    owner,          \* the thread whose descriptor locks each inode
    content,        \* the pid written inside each lock file (POSIX only)
    sidecar,        \* the pid in `<lock>.holder`, or None
    pc,             \* where each thread is in _file_lock
    fd,             \* the inode each thread has open, or None
    depth,          \* the thread's entry in the re-entry map
    retried,        \* stale_retried
    expired         \* the thread's deadline has passed

files == <<path, owner, content, sidecar>>
vars == <<alive, path, owner, content, sidecar, pc, fd, depth, retried, expired>>

\* Points at which the thread holds the operating system's lock.
Holding == {"stamp", "fill", "cs", "unlock"}
\* Points at which it is still asking for it.
Asking == {"open", "try", "wait", "break", "breakUnlink", "breakUnstamp"}
\* Points after the lock is given back, or inside release_close_resources.
Leaving == {"close", "unlink", "unstamp", "ownerUnlink", "ownerUnstamp"}

\* Type invariant: every variable keeps the shape the code gives it.
TypeOK ==
    /\ alive \subseteq Process
    /\ path \in Inode \cup {None}
    /\ owner \in [Inode -> Thread \cup {None}]
    /\ content \in [Inode -> Process \cup {None}]
    /\ sidecar \in Process \cup {None}
    /\ pc \in [Thread -> Holding \cup Asking \cup Leaving \cup {"idle", "dead"}]
    /\ fd \in [Thread -> Inode \cup {None}]
    /\ depth \in [Thread -> 0 .. MaxDepth]
    /\ retried \in [Thread -> BOOLEAN]
    /\ expired \in [Thread -> BOOLEAN]

Init ==
    /\ alive = Process
    /\ path = None
    /\ owner = [i \in Inode |-> None]
    /\ content = [i \in Inode |-> None]
    /\ sidecar = None
    /\ pc = [t \in Thread |-> "idle"]
    /\ fd = [t \in Thread |-> None]
    /\ depth = [t \in Thread |-> 0]
    /\ retried = [t \in Thread |-> FALSE]
    /\ expired = [t \in Thread |-> FALSE]
-----------------------------------------------------------------------------
At(t, from, to) == pc[t] = from /\ pc' = [pc EXCEPT ![t] = to]

\* A wrong variant: the name disappears although a descriptor is open.
UnlinkOpenFile == path' = None

\* os.unlink(lock path) with its OSError swallowed. A POSIX system removes the
\* name whoever has the file open; Windows refuses while a descriptor is open,
\* which a waiter reading the metadata may hold for an instant.
Unlink ==
    \/ /\ Platform = "posix" \/ \A t \in Thread : fd[t] # path
       /\ path' = None
    \/ /\ Platform = "win32"
       /\ UNCHANGED path

\* `_read_lock_metadata`: the sidecar first, the lock file when it is missing.
HolderPid ==
    IF sidecar # None THEN sidecar
    ELSE IF path # None THEN content[path] ELSE None

-----------------------------------------------------------------------------
(* Asking for the lock *)

Enter(t) ==
    /\ At(t, "idle", "open")
    /\ depth' = [depth EXCEPT ![t] = 1]
    /\ retried' = [retried EXCEPT ![t] = FALSE]
    /\ expired' = [expired EXCEPT ![t] = FALSE]
    /\ UNCHANGED <<alive, files, fd>>

\* open(path, "a+b") creates the file when the path names none; a new file is
\* empty and is none of those a descriptor still refers to.
OpenLock(t) ==
    /\ At(t, "open", "try")
    /\ \/ /\ path # None
          /\ fd' = [fd EXCEPT ![t] = path]
          /\ UNCHANGED <<path, content>>
       \/ \E i \in Inode :
          /\ path = None
          /\ \A u \in Thread : fd[u] # i
          /\ path' = i
          /\ fd' = [fd EXCEPT ![t] = i]
          /\ content' = [content EXCEPT ![i] = None]
    /\ UNCHANGED <<alive, owner, sidecar, depth, retried, expired>>

\* A wrong variant: the lock call ignores the descriptor that owns the inode.
TryLockBlindly(t) ==
    /\ At(t, "try", "stamp")
    /\ owner' = [owner EXCEPT ![fd[t]] = t]
    /\ UNCHANGED <<alive, path, content, sidecar, fd, depth, retried, expired>>

TryLock(t) ==
    /\ At(t, "try", "stamp")
    /\ owner[fd[t]] = None
    /\ owner' = [owner EXCEPT ![fd[t]] = t]
    /\ UNCHANGED <<alive, path, content, sidecar, fd, depth, retried, expired>>

LockBusy(t) ==
    /\ At(t, "try", "wait")
    /\ owner[fd[t]] # None
    /\ UNCHANGED <<alive, files, fd, depth, retried, expired>>

\* ArtifactLockTimeoutError: `finally` closes the file and forgets the entry.
TimeOut(t) ==
    /\ expired[t]
    /\ At(t, "wait", "idle")
    /\ fd' = [fd EXCEPT ![t] = None]
    /\ depth' = [depth EXCEPT ![t] = 0]
    /\ UNCHANGED <<alive, files, retried, expired>>

HolderLooksDead(t) ==
    ~retried[t] /\ HolderPid # None /\ HolderPid \notin alive

\* The waiter closes its own descriptor before it removes the files.
FindStale(t) ==
    /\ ~expired[t]
    /\ HolderLooksDead(t)
    /\ At(t, "wait", "break")
    /\ UNCHANGED <<alive, files, fd, depth, retried, expired>>

BreakClose(t) ==
    /\ At(t, "break", "breakUnlink")
    /\ fd' = [fd EXCEPT ![t] = None]
    /\ UNCHANGED <<alive, files, depth, retried, expired>>

BreakUnlink(t) ==
    /\ At(t, "breakUnlink", "breakUnstamp")
    /\ Unlink
    /\ UNCHANGED <<alive, owner, content, sidecar, fd, depth, retried, expired>>

BreakUnstamp(t) ==
    /\ At(t, "breakUnstamp", "open")
    /\ sidecar' = None
    /\ retried' = [retried EXCEPT ![t] = TRUE]
    /\ UNCHANGED <<alive, path, owner, content, fd, depth, expired>>

\* A wrong variant: the deadline is not looked at before sleeping.
PollPastDeadline(t) ==
    /\ ~HolderLooksDead(t)
    /\ At(t, "wait", "try")
    /\ UNCHANGED <<alive, files, fd, depth, retried, expired>>

\* Sleep one poll interval, then try the same descriptor again.
Poll(t) ==
    /\ ~expired[t]
    /\ ~HolderLooksDead(t)
    /\ At(t, "wait", "try")
    /\ UNCHANGED <<alive, files, fd, depth, retried, expired>>

-----------------------------------------------------------------------------
(* Holding and releasing it *)

\* `_write_lock_metadata` replaces the sidecar, then, on POSIX, the lock file's
\* text; an OSError from the sidecar leaves through `finally`.
StampSidecar(t) ==
    /\ At(t, "stamp", IF Platform = "posix" THEN "fill" ELSE "cs")
    /\ sidecar' = ProcessOf[t]
    /\ UNCHANGED <<alive, path, owner, content, fd, depth, retried, expired>>

StampFails(t) ==
    /\ At(t, "stamp", "unlock")
    /\ UNCHANGED <<alive, files, fd, depth, retried, expired>>

FillLockFile(t) ==
    /\ At(t, "fill", "cs")
    /\ content' = [content EXCEPT ![fd[t]] = ProcessOf[t]]
    /\ UNCHANGED <<alive, path, owner, sidecar, fd, depth, retried, expired>>

\* A nested `with` on the same thread only counts.
EnterNested(t) ==
    /\ pc[t] = "cs"
    /\ depth[t] < MaxDepth
    /\ depth' = [depth EXCEPT ![t] = @ + 1]
    /\ UNCHANGED <<alive, files, pc, fd, retried, expired>>

\* A wrong variant: the re-entry count is lowered without looking at it.
LeaveUncounted(t) ==
    /\ pc[t] = "cs"
    /\ depth' = [depth EXCEPT ![t] = @ - 1]
    /\ UNCHANGED <<alive, files, pc, fd, retried, expired>>

LeaveNested(t) ==
    /\ pc[t] = "cs"
    /\ depth[t] > 1
    /\ depth' = [depth EXCEPT ![t] = @ - 1]
    /\ UNCHANGED <<alive, files, pc, fd, retried, expired>>

Leave(t) ==
    /\ depth[t] = 1
    /\ At(t, "cs", "unlock")
    /\ UNCHANGED <<alive, files, fd, depth, retried, expired>>

Unlock(t) ==
    /\ At(t, "unlock", "close")
    /\ owner' = [owner EXCEPT ![fd[t]] = None]
    /\ UNCHANGED <<alive, path, content, sidecar, fd, depth, retried, expired>>

CloseLock(t) ==
    /\ At(t, "close", "unlink")
    /\ fd' = [fd EXCEPT ![t] = None]
    /\ UNCHANGED <<alive, files, depth, retried, expired>>

UnlinkLock(t) ==
    /\ At(t, "unlink", "unstamp")
    /\ Unlink
    /\ UNCHANGED <<alive, owner, content, sidecar, fd, depth, retried, expired>>

RemoveSidecar(t) ==
    /\ At(t, "unstamp", "idle")
    /\ sidecar' = None
    /\ depth' = [depth EXCEPT ![t] = 0]
    /\ UNCHANGED <<alive, path, owner, content, fd, retried, expired>>

-----------------------------------------------------------------------------
(* Closing an engine, dying, and the clock *)

\* release_close_resources removes the lock files of the engine's directory,
\* whoever holds the lock.
OwnerClose(t) ==
    /\ t \in Closer
    /\ At(t, "idle", "ownerUnlink")
    /\ UNCHANGED <<alive, files, fd, depth, retried, expired>>

OwnerUnlink(t) ==
    /\ At(t, "ownerUnlink", "ownerUnstamp")
    /\ Unlink
    /\ UNCHANGED <<alive, owner, content, sidecar, fd, depth, retried, expired>>

OwnerUnstamp(t) ==
    /\ At(t, "ownerUnstamp", "idle")
    /\ sidecar' = None
    /\ UNCHANGED <<alive, path, owner, content, fd, depth, retried, expired>>

\* The operating system closes a dead process's descriptors, which drops their
\* locks; the files it wrote stay.
Crash(p) ==
    LET gone == {t \in Thread : ProcessOf[t] = p} IN
    /\ p \in alive \cap Mortal
    /\ alive' = alive \ {p}
    /\ owner' = [i \in Inode |-> IF owner[i] \in gone THEN None ELSE owner[i]]
    /\ fd' = [t \in Thread |-> IF t \in gone THEN None ELSE fd[t]]
    /\ pc' = [t \in Thread |-> IF t \in gone THEN "dead" ELSE pc[t]]
    /\ depth' = [t \in Thread |-> IF t \in gone THEN 0 ELSE depth[t]]
    /\ UNCHANGED <<path, content, sidecar, retried, expired>>

DeadlinePasses(t) ==
    /\ pc[t] \in Asking
    /\ ~expired[t]
    /\ expired' = [expired EXCEPT ![t] = TRUE]
    /\ UNCHANGED <<alive, files, pc, fd, depth, retried>>

Ask(t) ==
    \/ OpenLock(t) \/ TryLock(t) \/ LockBusy(t) \/ TimeOut(t) \/ Poll(t)
    \/ FindStale(t) \/ BreakClose(t) \/ BreakUnlink(t) \/ BreakUnstamp(t)

Settle(t) ==
    \/ StampSidecar(t) \/ StampFails(t) \/ FillLockFile(t)
    \/ Unlock(t) \/ CloseLock(t) \/ UnlinkLock(t) \/ RemoveSidecar(t)
    \/ OwnerUnlink(t) \/ OwnerUnstamp(t)

Use(t) == Enter(t) \/ EnterNested(t) \/ LeaveNested(t) \/ Leave(t) \/ OwnerClose(t)

Next ==
    \/ \E t \in Thread : Ask(t) \/ Settle(t) \/ Use(t) \/ DeadlinePasses(t)
    \/ \E p \in Process : Crash(p)

Spec == Init /\ [][Next]_vars

\* A thread inside _file_lock keeps running and its deadline comes; nothing
\* makes a holder leave, a process start an attempt, or a process die.
Fairness == \A t \in Thread : WF_vars(Ask(t) \/ Settle(t)) /\ WF_vars(DeadlinePasses(t))

FairSpec == Spec /\ Fairness
-----------------------------------------------------------------------------
\* Threads contending for the lock execute their critical sections serially:
\* no two of them are between a granted lock and its release.
MutualExclusion ==
    \A t, u \in Thread : pc[t] \in Holding /\ pc[u] \in Holding => t = u

\* No attempt hangs: it ends inside the critical section or back at the caller
\* (a timeout, a failed stamp), even behind a holder that never leaves and when
\* waiters keep breaking locks left by the dead.
AttemptEnds ==
    \A t \in Thread : pc[t] \in Asking ~> pc[t] \in {"cs", "idle", "dead"}

\* The mutual-exclusion promise that the lock is meant to implement.
Stage(t) ==
    CASE pc[t] \in Holding -> "in"
      [] pc[t] \in Asking -> "trying"
      [] pc[t] = "dead" -> "dead"
      [] OTHER -> "out"

Abstract == INSTANCE AbstractLock WITH stage <- [t \in Thread |-> Stage(t)]

\* Every step of the file protocol is a step of the abstract lock or changes
\* nothing that its callers can see.
ImplementsAbstractLock == Abstract!Spec
=============================================================================
