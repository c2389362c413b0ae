-------------------------- MODULE EngineTreeProofs --------------------------
(***************************************************************************)
(* Theorems of EngineTree, for any number of processes and structures of   *)
(* the catalog, any drift and any number of faults.                        *)
(***************************************************************************)
EXTENDS EngineTree, TLAPS

ProcessStep(p) == Start(p) \/ Advance(p) \/ Learn(p) \/ Close(p)
                  \/ SaveFails(p) \/ MapFails(p) \/ PolicyFails(p) \/ Crash(p)

\* Where an opening has built the graph it saves, checks and loads.
HasBuilt(p) ==
    \/ pc[p] \in {"saving", "pairing", "mapping", "copying", "applying", "rebuilding",
                  "gate", "policy", "remapping", "pruning"}
    \/ pc[p] = "loading" /\ p \in Owner

Serves(p) == pc[p] \in {"serving", "saved", "stamping"}

\* Where a process is between two steps of a section of the artifact lock.
Inside(p) == pc[p] \in {"pairing", "copying", "applying", "remapping"}

Built == \A p \in Process : HasBuilt(p) => work[p].built \in Version
Serving == \A p \in Process : Serves(p) => serves[p] \in Version
Holding == \A p \in Process : Inside(p) => lock = p

Typed == TypeOK /\ Built /\ Serving

\* The parts of Typed: the files, the openings, and what is left.
Tree == /\ graph \in Null(Version) /\ manifest \in Null(Manifest)
        /\ store \in Stores /\ map \in Null(MigrationMap)
        /\ checkpoint \in Null(Checkpoint) /\ before \in Null(Checkpoint)

Step == {"out", "refused", "restoring", "building", "saving", "pairing", "mapping",
         "copying", "applying", "rebuilding", "gate", "policy", "remapping", "pruning", "loading",
         "serving", "saved", "stamping"}

Openings == /\ pc \in [Process -> Step] /\ work \in [Process -> Work]
            /\ serves \in [Process -> Null(Version)]
            /\ Built /\ Serving

Rest == /\ use \in Use /\ catalog \in Version /\ lock \in Null(Process)
        /\ drifts \in 0 .. MaxDrift[use] /\ faults \in 0 .. MaxFaults[use]

\* Typed is the three of them.
LEMMA Parts == /\ Typed <=> Tree /\ Openings /\ Rest
               /\ Typed' <=> (Tree /\ Openings /\ Rest)'
  BY DEF Typed, TypeOK, Tree, Openings, Rest, Step
-----------------------------------------------------------------------------
(* Type correctness *)

\* Init well typed.
LEMMA TypedInit == Init => Typed /\ Holding
  BY RoleAssumption, BoundAssumption
  DEF Init, Typed, TypeOK, Built, Serving, Holding, HasBuilt, Serves, Inside, Null,
      Stores, Work, Idle

\* What is kept of a header is well formed.
LEMMA WellFormed ==
    /\ \A v \in Version : Of(v) \in Manifest
    /\ Gone \in Stores
    /\ Idle \in Work
    /\ \A st \in Null(Store), v \in Version : Reconciled(st, v) \in Null(Store)
    /\ \A m \in Null(Manifest), v \in Version : Restamped(m, v) \in Manifest
<1>1. \A st \in Store, v \in Version : st.names \cap {v} \in SUBSET Version
  BY DEF Store
<1> QED
  BY <1>1 DEF Of, Manifest, Gone, Stores, Null, Idle, Work, Reconciled, Restamped, Store

\* What a restore puts back is well formed.
LEMMA RestoredTypes ==
    ASSUME TypeOK, PutBack
    PROVE  /\ manifest' \in Null(Manifest) /\ store' \in Stores
           /\ graph' \in Null(Version) /\ checkpoint' \in Null(Checkpoint)
<1>1. Held \in Checkpoint
  BY WellFormed DEF TypeOK, Held, Null, Checkpoint
<1> QED
  BY <1>1 DEF TypeOK, PutBack, Null, Checkpoint

\* The new header of a space touches its store and what is left to do.
LEMMA HeaderParts ==
    ASSUME Typed, NEW p \in Process, RemapHeader(p)
    PROVE  /\ store' \in Stores /\ work'[p] \in Work
           /\ work' = [work EXCEPT ![p] = work'[p]]
           /\ work'[p].built = work[p].built
<1>1. PICK s \in work[p].todo :
        \/ work' = [work EXCEPT ![p] = [work[p] EXCEPT !.todo = @ \ {s}]] /\ store' = store
        \/ /\ store[s] # None
           /\ store' = [store EXCEPT ![s] =
                          [id |-> work[p].built, whole |-> FALSE,
                           names |-> @.names \cap {Renamed(p), work[p].built}]]
           /\ work' = [work EXCEPT ![p] = [work[p] EXCEPT !.todo = @ \ {s}, !.rows = s]]
  BY DEF RemapHeader, Put
<1>2. /\ work \in [Process -> Work] /\ work[p] \in Work /\ work[p].built \in Version
      /\ store \in Stores /\ s \in Space
  BY DEF Typed, TypeOK, Built, HasBuilt, RemapHeader, Remapping, Work
<1>3. store' \in Stores
  <2>1. CASE store' = store
    BY <1>2, <2>1
  <2>2. CASE store[s] # None /\ store' = [store EXCEPT ![s] =
                [id |-> work[p].built, whole |-> FALSE,
                 names |-> @.names \cap {Renamed(p), work[p].built}]]
    <3>1. store[s] \in Store
      BY <1>2, <2>2 DEF Stores, Null
    <3> QED
      BY <1>2, <2>2, <3>1 DEF Stores, Store, Null
  <2> QED
    BY <1>1, <2>1, <2>2
<1>4. /\ [work[p] EXCEPT !.todo = @ \ {s}] \in Work
      /\ [work[p] EXCEPT !.todo = @ \ {s}, !.rows = s] \in Work
  BY <1>2 DEF Work, Null
<1> QED
  BY <1>1, <1>2, <1>3, <1>4 DEF Work

\* The rewriting of rows touches the store of their space, the manifest and what
\* is left to do.
LEMMA RowParts ==
    ASSUME Typed, NEW p \in Process, RewriteRows(p)
    PROVE  /\ store' \in Stores /\ manifest' \in Null(Manifest) /\ work'[p] \in Work
           /\ work' = [work EXCEPT ![p] = work'[p]]
           /\ work'[p].built = work[p].built
           /\ manifest' \in {manifest, Restamped(manifest, work[p].built)}
<1>1. /\ work \in [Process -> Work] /\ work[p] \in Work /\ work[p].built \in Version
      /\ store \in Stores /\ manifest \in Null(Manifest)
  BY DEF Typed, TypeOK, Built, HasBuilt, RewriteRows, Remapping, Work
<1> DEFINE s == work[p].rows
<1>2. s \in Space /\ store[s] \in Store
  BY <1>1 DEF RewriteRows, Work, Stores, Null
<1>3. PICK left \in {{}, store[s].names} :
        /\ store' = [store EXCEPT ![s] =
                       [id |-> @.id, names |-> Rewritten(@.names, work[p].built) \cup left,
                        whole |-> left = {} /\ @.id = work[p].built]]
        /\ \/ UNCHANGED <<work, manifest>>
           \/ /\ work' = [work EXCEPT ![p] = [work[p] EXCEPT !.rows = None]]
              /\ manifest' = Restamped(manifest, work[p].built)
  BY DEF RewriteRows, Put
<1>4. Rewritten(store[s].names, work[p].built) \cup left \subseteq Version
  BY <1>1, <1>2 DEF Rewritten, Store
<1>5. store' \in Stores
  BY <1>1, <1>2, <1>3, <1>4 DEF Stores, Store, Null
<1>6. manifest' \in Null(Manifest)
  BY <1>1, <1>3, WellFormed DEF Null
<1>7. [work[p] EXCEPT !.rows = None] \in Work
  BY <1>1 DEF Work, Null
<1> QED
  BY <1>1, <1>3, <1>5, <1>6, <1>7 DEF Work

\* What loading serves, and leaves of the stores.
LEMMA LoadTypes ==
    ASSUME Typed, NEW p \in Process, Load(p)
    PROVE  store' \in Stores /\ Opening(p) \in Version
<1>1. Opening(p) \in Version /\ store \in Stores
  BY DEF Load, Opening, Work, Null, Typed, TypeOK, Built, HasBuilt
<1>2. \A s \in Space : Reconciled(store[s], Opening(p)) \in Null(Store)
  BY <1>1, WellFormed DEF Stores
<1> QED
  BY <1>1, <1>2 DEF Load, Stores

\* A store saved by a session that keeps some of its rows.
LearntWith(p, kept) ==
    /\ store'[Home(p)].id = serves[p]
    /\ store'[Home(p)].names = kept \cup {serves[p]}
    /\ store'[Home(p)].whole /\ kept # {} => store[Home(p)].whole
    /\ kept # {} => store[Home(p)] # None /\ kept = store[Home(p)].names

\* What learning leaves of the store of its space.
LEMMA LearnParts ==
    ASSUME Typed, NEW p \in Process, Learn(p)
    PROVE  /\ store' \in Stores
           /\ \E kept : LearntWith(p, kept)
<1> DEFINE s == Home(p)
           old == store[s]
<1>1. /\ store \in Stores /\ serves[p] \in Version /\ s \in Space /\ old \in Null(Store)
  BY DEF Typed, TypeOK, Serving, Serves, Learn, Home, Space, Stores
<1>2. PICK kept \in {{}, IF old = None THEN {} ELSE old.names} :
        store' = [store EXCEPT ![s] = [id |-> serves[p], names |-> kept \cup {serves[p]},
                                       whole |-> IF kept = {} THEN TRUE ELSE old.whole]]
  BY DEF Learn
<1> DEFINE new == [id |-> serves[p], names |-> kept \cup {serves[p]},
                   whole |-> IF kept = {} THEN TRUE ELSE old.whole]
<1>3. kept # {} => old # None /\ old \in Store /\ kept = old.names
  BY <1>1, <1>2 DEF Null
<1>4. kept \subseteq Version /\ (IF kept = {} THEN TRUE ELSE old.whole) \in BOOLEAN
  BY <1>3 DEF Store
<1>5. new \in Store
  BY <1>1, <1>4 DEF Store
<1>6. store' \in Stores /\ store'[s] = new
  BY <1>1, <1>2, <1>5 DEF Stores, Null
<1>7. /\ new.id = serves[p] /\ new.names = kept \cup {serves[p]}
      /\ new.whole /\ kept # {} => old.whole
  OBVIOUS
<1>8. LearntWith(p, kept)
  BY <1>3, <1>6, <1>7 DEF LearntWith
<1> QED
  BY <1>6, <1>8

\* A step of a process leaves the files well formed.
LEMMA TreeStep ==
    ASSUME Typed, NEW p \in Process, ProcessStep(p)
    PROVE  Tree'
  <1>1. Tree /\ work[p] \in Work /\ (HasBuilt(p) => work[p].built \in Version)
        /\ (Serves(p) => serves[p] \in Version) /\ catalog \in Version
    BY Parts DEF Openings, Built, Serving, Rest
  <1> USE <1>1 DEF Tree, files, world
  <1>2. CASE Start(p) \/ Build(p) \/ NoMap(p) \/ GatePasses(p) \/ GateRefuses(p)
    BY <1>2 DEF Start, Build, NoMap, GatePasses, GateRefuses, Null
  <1>3. CASE StaleMap(p) \/ MapRefused(p) \/ Rebuild(p)
    BY <1>3 DEF StaleMap, MapRefused, Rebuild, Null
  <1>4. CASE NoSnapshot(p) \/ ReadManifest(p) \/ Close(p) \/ Crash(p)
    BY <1>4 DEF NoSnapshot, ReadManifest, Close, Crash, Null
  <1>5. CASE RestoreLeftover(p)
    BY <1>5, Parts, RestoredTypes DEF RestoreLeftover, Typed
  <1>6. CASE MapFails(p)
    BY <1>6, Parts, RestoredTypes DEF MapFails, Typed, Null
  <1>7. CASE SaveGraph(p)
    BY <1>7 DEF SaveGraph, HasBuilt, Null
  <1>8. CASE SaveManifest(p)
    BY <1>8, WellFormed DEF SaveManifest, HasBuilt, Null
  <1>9. CASE SaveFails(p)
    BY <1>9 DEF SaveFails, Work
  <1>10. CASE BeginMap(p)
    BY <1>10, WellFormed DEF BeginMap, Checkpoint, Null
  <1>11. CASE CopyFiles(p)
    BY <1>11 DEF CopyFiles, Checkpoint, Null
  <1>12. CASE RemapHeader(p)
    BY <1>12, Parts, HeaderParts DEF RemapHeader
  <1>20. CASE RewriteRows(p)
    BY <1>20, Parts, RowParts DEF RewriteRows
  <1>21. CASE BeginPolicy(p) \/ PolicyFails(p)
    BY <1>21 DEF BeginPolicy, PolicyFails, Null
  <1>22. CASE EndPolicy(p)
    BY <1>22, WellFormed DEF EndPolicy, HasBuilt, Null
  <1>13. CASE Wipe(p)
    BY <1>13, WellFormed DEF Wipe
  <1>14. CASE EndMap(p)
    BY <1>14, WellFormed DEF EndMap, HasBuilt, Null
  <1>15. CASE Policy(p)
    BY <1>15, WellFormed DEF Policy, HasBuilt, Null
  <1>16. CASE Prune(p)
    BY <1>16 DEF Prune, Stores, Null
  <1>17. CASE Load(p)
    BY <1>17, LoadTypes DEF Load
  <1>18. CASE Learn(p)
    BY <1>18, Parts, LearnParts DEF Learn
  <1>19. CASE WriteManifest(p)
    BY <1>19, WellFormed DEF WriteManifest, Serves, Work, Null
  <1> QED
    BY <1>2, <1>3, <1>4, <1>5, <1>6, <1>7, <1>8, <1>9, <1>10, <1>11, <1>12, <1>13,
       <1>14, <1>15, <1>16, <1>17, <1>18, <1>19, <1>20, <1>21, <1>22
    DEF ProcessStep, Advance, OwnerStep

\* An opening moves on to a place, with what it has noted down and what it
\* serves; where a graph must have been built or be served, there is one.
Moved(p, to, w, g) ==
    /\ pc' = [pc EXCEPT ![p] = to] /\ work' = [work EXCEPT ![p] = w]
    /\ serves' = [serves EXCEPT ![p] = g]
    /\ \/ to \in {"saving", "pairing", "mapping", "copying", "applying", "rebuilding",
                 "gate", "policy", "remapping", "pruning"}
       \/ to = "loading" /\ p \in Owner
       => w.built \in Version
    /\ to \in {"serving", "saved", "stamping"} => g \in Version

\* Such a move leaves every opening well formed.
LEMMA OpeningMoves ==
    ASSUME Openings, NEW p \in Process, NEW to \in Step, NEW w \in Work,
           NEW g \in Null(Version), Moved(p, to, w, g)
    PROVE  Openings'
<1>1. /\ pc' \in [Process -> Step] /\ work' \in [Process -> Work]
      /\ serves' \in [Process -> Null(Version)]
  BY DEF Openings, Moved
<1>2. /\ pc'[p] = to /\ work'[p] = w /\ serves'[p] = g
      /\ \A q \in Process \ {p} : pc'[q] = pc[q] /\ work'[q] = work[q]
                                 /\ serves'[q] = serves[q]
  BY DEF Openings, Moved
<1>3. Built'
  <2> SUFFICES ASSUME NEW q \in Process, HasBuilt(q)'
               PROVE  work'[q].built \in Version
    BY DEF Built
  <2>1. CASE q = p
    BY <1>2, <2>1 DEF Moved, HasBuilt
  <2>2. CASE q # p
    BY <1>2, <2>2 DEF HasBuilt, Openings, Built
  <2> QED
    BY <2>1, <2>2
<1>4. Serving'
  <2> SUFFICES ASSUME NEW q \in Process, Serves(q)'
               PROVE  serves'[q] \in Version
    BY DEF Serving
  <2>1. CASE q = p
    BY <1>2, <2>1 DEF Moved, Serves
  <2>2. CASE q # p
    BY <1>2, <2>2 DEF Serves, Openings, Serving
  <2> QED
    BY <2>1, <2>2
<1> QED
  BY <1>1, <1>3, <1>4 DEF Openings

\* An opening that raises moves to where its engine is, if it has one.
LEMMA RaiseMoves ==
    ASSUME Openings, NEW p \in Process, NEW to \in {"out", "refused"}, Raises(p, to),
           UNCHANGED serves
    PROVE  Openings'
<1>1. serves[p] \in Null(Version) /\ serves' = [serves EXCEPT ![p] = serves[p]]
  BY DEF Openings
<1>2. CASE serves[p] = None
  <2>1. Moved(p, to, Idle, serves[p])
    BY <1>1, <1>2 DEF Moved, Raises, Go, Put
  <2> QED
    BY <2>1, <1>1, WellFormed, OpeningMoves DEF Step
<1>3. CASE serves[p] # None
  <2>1. Moved(p, "serving", Idle, serves[p])
    BY <1>1, <1>3 DEF Moved, Raises, Go, Put, Null
  <2> QED
    BY <2>1, <1>1, WellFormed, OpeningMoves DEF Step
<1> QED
  BY <1>2, <1>3

\* What a step notes down of an opening.
LEMMA NewWork ==
    ASSUME NEW w \in Work, NEW v \in Null(Version), NEW m \in Null(Manifest),
           NEW todo \in SUBSET Space
    PROVE  /\ [Idle EXCEPT !.was = v] \in Work
           /\ [Idle EXCEPT !.seen = m] \in Work
           /\ [w EXCEPT !.built = v] \in Work
           /\ [w EXCEPT !.undo = v] \in Work
           /\ [w EXCEPT !.todo = todo] \in Work
  BY DEF Work, Idle, Null

\* A step of a process leaves every opening well formed, with a graph built where
\* there must be one, and one served where there must be one.
LEMMA OpeningsStep ==
    ASSUME Typed, NEW p \in Process, ProcessStep(p)
    PROVE  Openings'
  <1>1. /\ Openings /\ pc[p] \in Step /\ work[p] \in Work /\ Idle \in Work
        /\ serves[p] \in Null(Version) /\ None \in Null(Version)
        /\ graph \in Null(Version) /\ manifest \in Null(Manifest) /\ catalog \in Version
    BY Parts, WellFormed DEF Openings, Tree, Rest, Null
  <1>2. /\ pc = [pc EXCEPT ![p] = pc[p]] /\ work = [work EXCEPT ![p] = work[p]]
        /\ serves = [serves EXCEPT ![p] = serves[p]]
        /\ HasBuilt(p) => work[p].built \in Version
        /\ Serves(p) => serves[p] \in Version
    BY <1>1 DEF Openings, Built, Serving
  <1> USE DEF Step, HasBuilt, Serves, Go, Put, world, files
  <1>3. CASE Start(p)
    <2> DEFINE w == [Idle EXCEPT !.was = graph]
    <2>1. \/ Moved(p, AfterCheckpoint(p), w, serves[p])
          \/ Moved(p, "restoring", w, serves[p])
      BY <1>3, <1>2 DEF Start, Moved, AfterCheckpoint
    <2> QED
      BY <2>1, <1>1, NewWork, OpeningMoves DEF AfterCheckpoint
  <1>4. CASE RestoreLeftover(p)
    <2>1. Moved(p, AfterCheckpoint(p), work[p], serves[p])
      BY <1>4, <1>1, <1>2 DEF RestoreLeftover, Moved, AfterCheckpoint
    <2> QED
      BY <2>1, <1>1, OpeningMoves DEF AfterCheckpoint
  <1>5. CASE Build(p)
    <2> DEFINE w == [work[p] EXCEPT !.built = catalog]
    <2>1. w \in Work /\ w.built \in Version
      BY <1>1 DEF Work, Null
    <2>2. Moved(p, "mapping", w, serves[p]) \/ Moved(p, "saving", w, serves[p])
      BY <1>5, <2>1, <1>2 DEF Build, Moved
    <2> QED
      BY <2>1, <2>2, <1>1, OpeningMoves
  <1>6. CASE SaveGraph(p)
    <2>1. Moved(p, "pairing", [work[p] EXCEPT !.undo = graph], serves[p])
      BY <1>6, <1>1, <1>2, NewWork DEF SaveGraph, Moved
    <2> QED
      BY <2>1, <1>1, NewWork, OpeningMoves
  <1>7. CASE SaveManifest(p)
    <2>1. Moved(p, "mapping", [work[p] EXCEPT !.undo = None], serves[p])
      BY <1>7, <1>1, <1>2, NewWork DEF SaveManifest, Moved
    <2> QED
      BY <2>1, <1>1, NewWork, OpeningMoves
  <1>8. CASE SaveFails(p)
    BY <1>8, <1>1, RaiseMoves DEF SaveFails
  <1>9. CASE NoMap(p)
    <2>1. Moved(p, "gate", work[p], serves[p])
      BY <1>9, <1>1, <1>2 DEF NoMap, Moved
    <2> QED
      BY <2>1, <1>1, OpeningMoves
  <1>10. CASE StaleMap(p)
    <2>1. Moved(p, "gate", work[p], serves[p])
      BY <1>10, <1>1, <1>2 DEF StaleMap, Moved
    <2> QED
      BY <2>1, <1>1, OpeningMoves
  <1>11. CASE MapRefused(p)
    BY <1>11, <1>1, RaiseMoves DEF MapRefused
  <1>12. CASE BeginMap(p)
    <2>1. Moved(p, "copying", work[p], serves[p])
      BY <1>12, <1>1, <1>2 DEF BeginMap, Moved
    <2> QED
      BY <2>1, <1>1, OpeningMoves
  <1>13. CASE CopyFiles(p)
    <2>1. Moved(p, "applying", [work[p] EXCEPT !.todo = Space], serves[p])
      BY <1>13, <1>1, <1>2, NewWork DEF CopyFiles, Moved
    <2> QED
      BY <2>1, <1>1, NewWork, OpeningMoves
  <1>14. CASE RemapHeader(p)
    <2>1. Moved(p, pc[p], work'[p], serves[p]) /\ work'[p] \in Work
      BY <1>14, <1>1, <1>2, HeaderParts DEF RemapHeader, Remapping, Moved
    <2> QED
      BY <1>14, <2>1, <1>1, OpeningMoves
  <1>30. CASE RewriteRows(p)
    <2>1. Moved(p, pc[p], work'[p], serves[p]) /\ work'[p] \in Work
      BY <1>30, <1>1, <1>2, RowParts DEF RewriteRows, Remapping, Moved
    <2> QED
      BY <1>30, <2>1, <1>1, OpeningMoves
  <1>31. CASE BeginPolicy(p)
    <2>1. Moved(p, "remapping", [work[p] EXCEPT !.todo = Space], serves[p])
      BY <1>31, <1>1, <1>2, NewWork DEF BeginPolicy, Moved
    <2> QED
      BY <2>1, <1>1, NewWork, OpeningMoves
  <1>32. CASE EndPolicy(p)
    <2>1. Moved(p, "pruning", work[p], serves[p])
      BY <1>32, <1>1, <1>2 DEF EndPolicy, Moved
    <2> QED
      BY <2>1, <1>1, OpeningMoves
  <1>33. CASE PolicyFails(p)
    BY <1>33, <1>1, RaiseMoves DEF PolicyFails
  <1>15. CASE Wipe(p)
    <2>1. Moved(p, "applying", [work[p] EXCEPT !.todo = {}], serves[p])
      BY <1>15, <1>1, <1>2, NewWork DEF Wipe, Moved
    <2> QED
      BY <2>1, <1>1, NewWork, OpeningMoves
  <1>16. CASE EndMap(p)
    <2>1. Moved(p, "rebuilding", work[p], serves[p])
      BY <1>16, <1>1, <1>2 DEF EndMap, Moved
    <2> QED
      BY <2>1, <1>1, OpeningMoves
  <1>17. CASE MapFails(p)
    BY <1>17, <1>1, RaiseMoves DEF MapFails
  <1>18. CASE Rebuild(p)
    <2> DEFINE w == [work[p] EXCEPT !.was = graph, !.built = catalog, !.mapped = TRUE]
    <2>1. w \in Work /\ w.built \in Version
      BY <1>1 DEF Work, Null
    <2>2. Moved(p, "gate", w, serves[p])
      BY <1>18, <2>1, <1>2 DEF Rebuild, Moved
    <2> QED
      BY <2>1, <2>2, <1>1, OpeningMoves
  <1>19. CASE GatePasses(p)
    <2>1. Moved(p, "policy", work[p], serves[p])
      BY <1>19, <1>1, <1>2 DEF GatePasses, Moved
    <2> QED
      BY <2>1, <1>1, OpeningMoves
  <1>20. CASE GateRefuses(p)
    BY <1>20, <1>1, RaiseMoves DEF GateRefuses
  <1>21. CASE Policy(p)
    <2>1. Moved(p, "pruning", work[p], serves[p])
      BY <1>21, <1>1, <1>2 DEF Policy, Moved
    <2> QED
      BY <2>1, <1>1, OpeningMoves
  <1>22. CASE Prune(p)
    <2>1. Moved(p, "loading", work[p], serves[p])
      BY <1>22, <1>1, <1>2 DEF Prune, Moved
    <2> QED
      BY <2>1, <1>1, OpeningMoves
  <1>23. CASE NoSnapshot(p)
    BY <1>23, <1>1, RaiseMoves DEF NoSnapshot
  <1>24. CASE Load(p)
    <2>1. Opening(p) \in Version
      BY <1>24, LoadTypes
    <2>2. Moved(p, "serving", Idle, Opening(p)) \/ Moved(p, "saved", Idle, Opening(p))
      BY <1>24, <2>1 DEF Load, Moved
    <2> QED
      BY <2>1, <2>2, <1>1, OpeningMoves DEF Null
  <1>25. CASE Learn(p)
    <2>1. Moved(p, "saved", work[p], serves[p])
      BY <1>25, <1>1, <1>2 DEF Learn, Moved
    <2> QED
      BY <2>1, <1>1, OpeningMoves
  <1>26. CASE ReadManifest(p)
    <2>1. Moved(p, "stamping", [Idle EXCEPT !.seen = manifest], serves[p])
      BY <1>26, <1>1, <1>2, NewWork DEF ReadManifest, Moved
    <2> QED
      BY <2>1, <1>1, NewWork, OpeningMoves
  <1>27. CASE WriteManifest(p)
    <2>1. Moved(p, "serving", Idle, serves[p])
      BY <1>27, <1>1, <1>2, NewWork DEF WriteManifest, Moved
    <2> QED
      BY <2>1, <1>1, NewWork, OpeningMoves
  <1>28. CASE Close(p)
    <2>1. Moved(p, "out", work[p], None)
      BY <1>28, <1>1, <1>2 DEF Close, Moved
    <2> QED
      BY <2>1, <1>1, OpeningMoves
  <1>29. CASE Crash(p)
    <2>1. Moved(p, "out", Idle, None)
      BY <1>29, <1>1, <1>2, NewWork DEF Crash, Moved
    <2> QED
      BY <2>1, <1>1, NewWork, OpeningMoves
  <1> QED
    BY <1>3, <1>4, <1>5, <1>6, <1>7, <1>8, <1>9, <1>10, <1>11, <1>12, <1>13, <1>14,
       <1>15, <1>16, <1>17, <1>18, <1>19, <1>20, <1>21, <1>22, <1>23, <1>24, <1>25,
       <1>26, <1>27, <1>28, <1>29, <1>30, <1>31, <1>32, <1>33
    DEF ProcessStep, Advance, OwnerStep

\* No process changes how the directory is used, or the catalog.
LEMMA UseKept ==
    ASSUME NEW p \in Process, ProcessStep(p)
    PROVE  UNCHANGED world
  BY DEF world, ProcessStep, Advance, OwnerStep, Start, RestoreLeftover, Build, SaveGraph,
     SaveManifest, SaveFails, NoMap, StaleMap, MapRefused, BeginMap, CopyFiles, RemapHeader,
     RewriteRows, Wipe, EndMap, MapFails, Rebuild, GatePasses, GateRefuses, Policy, BeginPolicy,
       EndPolicy, PolicyFails, Prune, NoSnapshot,
     Load, Learn, ReadManifest, WriteManifest, Close, Crash

\* A step of a process keeps everything well formed.
LEMMA TypedStep ==
    ASSUME Typed, NEW p \in Process, ProcessStep(p)
    PROVE  Typed'
  <1>1. lock' \in {None, p, lock} /\ (UNCHANGED faults \/ Fault)
    BY DEF ProcessStep, Advance, OwnerStep, Start, RestoreLeftover, Build, SaveGraph,
       SaveManifest, SaveFails, NoMap, StaleMap, MapRefused, BeginMap, CopyFiles, RemapHeader,
       RewriteRows,
       Wipe, EndMap, MapFails, Rebuild, GatePasses, GateRefuses, Policy, BeginPolicy,
       EndPolicy, PolicyFails, Prune, NoSnapshot,
       Load, Learn, ReadManifest, WriteManifest, Close, Crash
  <1>2. Rest'
    BY <1>1, UseKept, Parts, BoundAssumption DEF Rest, world, Null, Fault
  <1> QED
    BY <1>2, TreeStep, OpeningsStep, Parts
-----------------------------------------------------------------------------
(* The lock *)

\* A step of one process keeps every section under the lock: to enter one it
\* finds the lock free, and only who is inside gives it back.
LEMMA HoldingStep ==
    ASSUME TypeOK, Holding, NEW p \in Process, ProcessStep(p)
    PROVE  Holding'
  <1> SUFFICES ASSUME NEW q \in Process, Inside(q)'
               PROVE  lock' = q
    BY DEF Holding
  <1> USE RoleAssumption DEF TypeOK, Holding, Inside, Go, Raises, AfterCheckpoint,
          world, files, Process
  <1>1. CASE Start(p)
    BY <1>1 DEF Start
  <1>2. CASE RestoreLeftover(p)
    BY <1>2 DEF RestoreLeftover
  <1>3. CASE Build(p)
    BY <1>3 DEF Build
  <1>4. CASE SaveGraph(p) \/ SaveManifest(p) \/ SaveFails(p)
    BY <1>4 DEF SaveGraph, SaveManifest, SaveFails
  <1>5. CASE NoMap(p) \/ StaleMap(p) \/ MapRefused(p)
    BY <1>5 DEF NoMap, StaleMap, MapRefused
  <1>6. CASE BeginMap(p) \/ CopyFiles(p)
    BY <1>6 DEF BeginMap, CopyFiles
  <1>7. CASE RemapHeader(p) \/ RewriteRows(p) \/ Wipe(p)
    BY <1>7 DEF RemapHeader, RewriteRows, Wipe
  <1>8. CASE EndMap(p) \/ MapFails(p) \/ Rebuild(p)
    BY <1>8 DEF EndMap, MapFails, Rebuild
  <1>9. CASE GatePasses(p) \/ GateRefuses(p) \/ Prune(p)
    BY <1>9 DEF GatePasses, GateRefuses, Prune
  <1>13. CASE Policy(p) \/ BeginPolicy(p) \/ EndPolicy(p) \/ PolicyFails(p)
    BY <1>13 DEF Policy, BeginPolicy, EndPolicy, PolicyFails
  <1>10. CASE NoSnapshot(p) \/ Load(p) \/ Learn(p)
    BY <1>10 DEF NoSnapshot, Load, Learn
  <1>11. CASE ReadManifest(p) \/ WriteManifest(p) \/ Close(p)
    BY <1>11 DEF ReadManifest, WriteManifest, Close
  <1>12. CASE Crash(p)
    BY <1>12 DEF Crash
  <1> QED
    BY <1>1, <1>2, <1>3, <1>4, <1>5, <1>6, <1>7, <1>8, <1>9, <1>10, <1>11, <1>12, <1>13
    DEF ProcessStep, Advance, OwnerStep

\* A step that changes the saved graph is taken with the lock free, or by its
\* holder.
LEMMA GraphStep ==
    ASSUME TypeOK, Holding, NEW p \in Process, ProcessStep(p), graph' # graph
    PROVE  \/ lock = None
           \/ \E q \in Process : \/ lock = q /\ pc'[q] # pc[q]
                                 \/ Build(q)
  <1>1. CASE SaveGraph(p) \/ RestoreLeftover(p)
    BY <1>1 DEF SaveGraph, RestoreLeftover
  <1>2. CASE SaveFails(p) \/ MapFails(p)
    <2>1. lock = p
      BY <1>2 DEF SaveFails, MapFails, Holding, Inside
    <2>2. pc'[p] # pc[p]
      BY <1>2 DEF SaveFails, MapFails, Raises, Go, TypeOK
    <2> QED
      BY <2>1, <2>2
  <1>3. CASE UNCHANGED graph \/ Build(p)
    BY <1>3
  <1> QED
    BY <1>1, <1>2, <1>3 DEF ProcessStep, Advance, OwnerStep, Start, SaveManifest,
       NoMap, StaleMap, MapRefused, BeginMap, CopyFiles, RemapHeader,
       RewriteRows, Wipe, EndMap, Rebuild,
       GatePasses, GateRefuses, Policy, BeginPolicy,
       EndPolicy, PolicyFails, Prune, NoSnapshot, Load, Learn, ReadManifest,
       WriteManifest, Close, Crash, files
-----------------------------------------------------------------------------
(* The checkpoint of a map *)

\* The only owner, alone with the directory, is about to copy the tree into the
\* checkpoint, or has done so and not yet stamped the manifest; for a map it has
\* saved the pair first, so that what a remap writes into the manifest is there.
Undoable(o) == use = "alone" =>
    /\ \A p \in Consumer : pc[p] = "out"
    /\ pc[o] = "mapping" /\ map # None => manifest = Of(work[o].built)
    /\ pc[o] \in {"copying", "applying"} => manifest = Of(work[o].built)
    /\ pc[o] = "copying" => before = [manifest |-> manifest, store |-> store, graph |-> graph]
    /\ pc[o] = "applying" => /\ checkpoint \in Checkpoint /\ before = checkpoint
                             /\ manifest = before.manifest

\* A consumer stays out as long as the owner is to be alone.
LEMMA ConsumersOut ==
    ASSUME use = "alone", NEW p \in Consumer, pc[p] = "out", ProcessStep(p)
    PROVE  FALSE
  BY RoleAssumption DEF ProcessStep, Remapping, Advance, OwnerStep, Start, RestoreLeftover, Build,
     SaveGraph, SaveManifest, SaveFails, NoMap, StaleMap, MapRefused, BeginMap, CopyFiles,
     RemapHeader, RewriteRows, Wipe, EndMap, MapFails, Rebuild, GatePasses, GateRefuses,
     Policy, BeginPolicy, EndPolicy, PolicyFails, Prune,
     NoSnapshot, Load, Learn, ReadManifest, WriteManifest, Close, Crash

\* Nothing the owner does between the copy and the end of a map reaches the
\* checkpoint or the manifest.
LEMMA UndoableStep ==
    ASSUME NEW o, Owner = {o}, Typed, Undoable(o), NEW p \in Process, ProcessStep(p),
           use = "alone"
    PROVE  Undoable(o)'
  <1>1. p = o /\ o \in Process
    BY ConsumersOut DEF Undoable, Process
  <1>2. \A q \in Consumer : q # o /\ pc[q] = "out"
    BY RoleAssumption DEF Undoable
  <1>3. /\ pc \in [Process -> Step] /\ work \in [Process -> Work]
        /\ Consumer \subseteq Process
    BY DEF Typed, TypeOK, Step, Process
  <1> USE DEF Undoable, Go, Put, world, files
  <1>4. CASE BeginMap(p)
    BY <1>1, <1>2, <1>3, <1>4 DEF BeginMap
  <1>5. CASE CopyFiles(p)
    BY <1>1, <1>2, <1>3, <1>5 DEF CopyFiles, Typed, TypeOK, Checkpoint, Work
  <1>6. CASE Wipe(p)
    BY <1>1, <1>2, <1>3, <1>6 DEF Wipe, Work
  <1>11. CASE RemapHeader(p)
    <2>1. work'[o].built = work[o].built
      BY <1>1, <1>11, HeaderParts
    <2>2. UNCHANGED <<use, manifest, map, checkpoint, pc, before>> /\ Remapping(o)
      BY <1>1, <1>11 DEF RemapHeader
    <2> QED
      BY <1>2, <2>1, <2>2 DEF Remapping
  <1>7. CASE RewriteRows(p)
    <2>1. /\ work'[o].built = work[o].built
          /\ manifest' = manifest \/ manifest' = Restamped(manifest, work[o].built)
      BY <1>1, <1>7, RowParts
    <2>2. pc[o] = "applying" => manifest' = manifest
      <3>1. work[o].built \in Version => Of(work[o].built) \in Manifest
        BY WellFormed
      <3> QED
        BY <1>1, <2>1, <3>1, NoneAssumption DEF Typed, Built, HasBuilt, Restamped, Of
    <2> QED
      BY <1>1, <1>2, <1>7, <2>1, <2>2 DEF RewriteRows, Remapping
  <1>8. CASE SaveManifest(p)
    BY <1>1, <1>2, <1>3, <1>8 DEF SaveManifest, Work
  <1>9. CASE Build(p)
    BY <1>1, <1>2, <1>3, <1>9 DEF Build
  <1>10. CASE /\ pc'[o] \notin {"mapping", "copying", "applying"}
              /\ \A q \in Consumer : pc'[q] = pc[q]
    BY <1>2, <1>10
  <1> QED
    BY <1>1, <1>2, <1>3, <1>4, <1>5, <1>6, <1>7, <1>8, <1>9, <1>10, <1>11 DEF Raises,
       AfterCheckpoint, ProcessStep, Advance, OwnerStep, Start, RestoreLeftover,
       SaveGraph, SaveFails, NoMap, StaleMap, MapRefused, EndMap, MapFails, Rebuild,
       GatePasses, GateRefuses, Policy, BeginPolicy, EndPolicy, PolicyFails, Prune,
       NoSnapshot, Load, Learn, ReadManifest, WriteManifest, Close, Crash

\* What a failed map puts back is what there was.
LEMMA PutBackAll ==
    ASSUME NEW o, Owner = {o}, Undoable(o), use = "alone", MapFails(o)
    PROVE  [manifest |-> manifest', store |-> store', graph |-> graph'] = before
<1>1. /\ checkpoint \in Checkpoint /\ before = checkpoint /\ manifest = before.manifest
  BY DEF Undoable, MapFails
<1>2. Held = before
  BY <1>1, NoneAssumption DEF Held
<1>3. manifest' = before.manifest /\ store' = before.store /\ graph' = before.graph
  BY <1>1, <1>2 DEF MapFails, PutBack
<1> QED
  BY <1>1, <1>3 DEF Checkpoint
-----------------------------------------------------------------------------
(* Templates and the graph they are served with *)

\* The templates of a store use the names of its header's graph, if any, unless a
\* remap stopped before its last shard.
One(st) == st = None \/ (st.whole => st.names \subseteq {st.id})

Stamped(st, g) == st = None \/ st.id = g

\* Where an opening that fails goes back to an engine that serves: the default
\* store, or the copy that failure puts back, is of that engine's graph.
Backed(o) ==
    /\ pc[o] \in {"serving", "saved", "stamping", "building", "saving", "pairing", "mapping",
                  "copying"}
       => Stamped(store["master"], serves[o])
    /\ pc[o] = "applying" => Stamped(checkpoint.store["master"], serves[o])
    /\ pc[o] = "gate" => \/ Stamped(store["master"], serves[o])
                         \/ ~ NeedsMigration(manifest, work[o].built)

\* For the only owner, alone with the directory.
Fitting(o) == use = "alone" =>
    /\ One(store["master"])
    /\ checkpoint # None => One(checkpoint.store["master"])
    /\ serves[o] # None => Backed(o)
    /\ pc[o] \in {"out", "refused", "restoring"} => serves[o] = None
    /\ HasBuilt(o) => work[o].built = catalog
    /\ pc[o] = "rebuilding" => manifest = Of(catalog)
    /\ pc[o] = "policy" => ~ NeedsMigration(manifest, work[o].built)
    /\ pc[o] # "remapping"

\* A step of the owner keeps this: a save that has ended has written names and
\* header of one structure, and after the stores are changed the opening no longer
\* fails.
LEMMA FittingStep ==
    ASSUME NEW o, Owner = {o}, Typed, Undoable(o), Fitting(o), use = "alone",
           NEW p \in Process, ProcessStep(p)
    PROVE  Fitting(o)'
  <1>1. /\ p = o /\ o \in Process /\ o \in Owner
        /\ One(store["master"]) /\ (checkpoint # None => One(checkpoint.store["master"]))
        /\ (serves[o] # None => Backed(o))
        /\ (pc[o] \in {"out", "refused", "restoring"} => serves[o] = None)
        /\ (HasBuilt(o) => work[o].built = catalog /\ work[o].built \in Version)
        /\ (pc[o] = "rebuilding" => manifest = Of(catalog))
        /\ (pc[o] = "policy" => ~ NeedsMigration(manifest, work[o].built))
        /\ (pc[o] = "applying" => checkpoint \in Checkpoint)
        /\ pc[o] # "remapping"
    BY ConsumersOut DEF Undoable, Process, Fitting, Typed, Built
  <1>2. /\ pc \in [Process -> Step] /\ work \in [Process -> Work]
        /\ serves \in [Process -> Null(Version)] /\ store \in Stores
        /\ Space = {"master", "credential"}
    BY Parts DEF Openings, Tree, Space
  <1> USE DEF Fitting, Backed, HasBuilt, One, Stamped, Go, Put, world, files, Stores, Work
  <1>3. CASE Start(p)
    BY <1>3, <1>1, <1>2 DEF Start, AfterCheckpoint
  <1>4. CASE RestoreLeftover(p)
    BY <1>4, <1>1, <1>2 DEF RestoreLeftover, PutBack, Held, Gone, AfterCheckpoint
  <1>5. CASE Build(p)
    BY <1>5, <1>1, <1>2 DEF Build
  <1>6. CASE SaveGraph(p)
    BY <1>6, <1>1, <1>2 DEF SaveGraph
  <1>7. CASE SaveManifest(p)
    BY <1>7, <1>1, <1>2 DEF SaveManifest
  <1>8. CASE SaveFails(p)
    BY <1>8, <1>1, <1>2 DEF SaveFails, Raises
  <1>9. CASE NoMap(p)
    BY <1>9, <1>1, <1>2 DEF NoMap
  <1>10. CASE StaleMap(p)
    BY <1>10, <1>1, <1>2 DEF StaleMap
  <1>11. CASE MapRefused(p)
    BY <1>11, <1>1, <1>2 DEF MapRefused, Raises
  <1>12. CASE BeginMap(p)
    BY <1>12, <1>1, <1>2 DEF BeginMap, Gone
  <1>13. CASE CopyFiles(p)
    BY <1>13, <1>1, <1>2 DEF CopyFiles
  <1>14. CASE RemapHeader(p)
    <2>1. /\ pc[o] = "applying"
          /\ UNCHANGED <<use, catalog, manifest, checkpoint, pc, serves>>
          /\ work'[o].built = work[o].built
      BY <1>14, <1>1, <1>2, HeaderParts DEF RemapHeader, Remapping
    <2>2. One(store'["master"])
      BY <1>14, <1>1, <1>2 DEF RemapHeader
    <2> QED
      BY <2>1, <2>2, <1>1, <1>2
  <1>30. CASE RewriteRows(p)
    <2>1. /\ pc[o] = "applying"
          /\ UNCHANGED <<use, catalog, checkpoint, pc, serves>>
          /\ work'[o].built = work[o].built
      BY <1>30, <1>1, <1>2, RowParts DEF RewriteRows, Remapping
    <2>2. One(store'["master"])
      <3>1. PICK left \in {{}, store[work[o].rows].names} :
              store' = [store EXCEPT ![work[o].rows] =
                         [id |-> @.id,
                          names |-> Rewritten(@.names, work[o].built) \cup left,
                          whole |-> left = {} /\ @.id = work[o].built]]
        BY <1>30, <1>1 DEF RewriteRows
      <3> QED
        BY <3>1, <1>1, <1>2 DEF Rewritten
    <2> QED
      BY <2>1, <2>2, <1>1, <1>2
  <1>31. CASE BeginPolicy(p) \/ EndPolicy(p) \/ PolicyFails(p)
    BY <1>31, <1>1 DEF BeginPolicy, EndPolicy, PolicyFails
  <1>15. CASE Wipe(p)
    BY <1>15, <1>1, <1>2 DEF Wipe, Gone
  <1>16. CASE EndMap(p)
    BY <1>16, <1>1, <1>2 DEF EndMap, Of, NeedsMigration
  <1>17. CASE MapFails(p)
    BY <1>17, <1>1, <1>2, NoneAssumption DEF MapFails, PutBack, Held, Raises
  <1>18. CASE Rebuild(p)
    BY <1>18, <1>1, <1>2 DEF Rebuild, Of, NeedsMigration
  <1>19. CASE GatePasses(p)
    BY <1>19, <1>1, <1>2 DEF GatePasses
  <1>20. CASE GateRefuses(p)
    BY <1>20, <1>1, <1>2 DEF GateRefuses, Raises, NeedsMigration
  <1>21. CASE Policy(p)
    BY <1>21, <1>1, <1>2 DEF Policy
  <1>22. CASE Prune(p)
    BY <1>22, <1>1, <1>2 DEF Prune
  <1>23. CASE NoSnapshot(p)
    BY <1>23, <1>1, <1>2, RoleAssumption DEF NoSnapshot, Raises, Opening, Null
  <1>24. CASE Load(p)
    <2>1. /\ store'["master"] = Reconciled(store["master"], work[o].built)
          /\ serves'[o] = work[o].built /\ serves'[o] \in Version
          /\ pc'[o] \in {"serving", "saved"} /\ UNCHANGED <<checkpoint, use>>
      BY <1>24, <1>1, <1>2 DEF Load, Loads, Opening
    <2>2. One(store'["master"]) /\ Stamped(store'["master"], serves'[o])
      BY <2>1, <1>1 DEF Reconciled
    <2> QED
      BY <2>1, <2>2, <1>1
  <1>25. CASE Learn(p)
    <2>1. /\ pc[o] = "serving" /\ pc' = [pc EXCEPT ![o] = "saved"]
          /\ UNCHANGED <<checkpoint, use, serves>>
      BY <1>25, <1>1 DEF Learn
    <2>2. PICK kept : LearntWith(o, kept)
      BY <1>25, <1>1, LearnParts
    <2>5. /\ store'["master"].id = serves[o]
          /\ store'["master"].names = kept \cup {serves[o]}
          /\ store'["master"].whole /\ kept # {} => store["master"].whole
          /\ kept # {} => store["master"] # None /\ kept = store["master"].names
      BY <2>2, <1>1 DEF LearntWith, Home
    <2>3. \/ kept \subseteq {serves[o]} \/ serves[o] = None
          \/ ~ store'["master"].whole
      BY <2>1, <2>5, <1>1
    <2>4. serves[o] \in Version
      BY <2>1, <1>1 DEF Typed, Serving, Serves
    <2> QED
      BY <2>1, <2>5, <2>3, <2>4, <1>1, <1>2, RoleAssumption
  <1>26. CASE ReadManifest(p)
    BY <1>26, <1>1, <1>2 DEF ReadManifest
  <1>27. CASE WriteManifest(p)
    BY <1>27, <1>1, <1>2 DEF WriteManifest
  <1>28. CASE Close(p)
    BY <1>28, <1>1, <1>2 DEF Close
  <1>29. CASE Crash(p)
    BY <1>29, <1>1, <1>2 DEF Crash
  <1> QED
    BY <1>3, <1>4, <1>5, <1>6, <1>7, <1>8, <1>9, <1>10, <1>11, <1>12, <1>13, <1>14,
       <1>15, <1>16, <1>17, <1>18, <1>19, <1>20, <1>21, <1>22, <1>23, <1>24, <1>25,
       <1>26, <1>27, <1>28, <1>29, <1>30, <1>31
    DEF ProcessStep, Advance, OwnerStep
-----------------------------------------------------------------------------
(* Theorems *)

\* Neither the catalog nor an operator's map disturbs an opening.
LEMMA WorldStep ==
    ASSUME Typed, Holding, Drift \/ SupplyMap
    PROVE  Typed' /\ Holding' /\ UNCHANGED graph
  <1> USE DEF Typed, TypeOK, Built, Serving, Holding, HasBuilt, Serves, Inside
  <1>1. CASE Drift
    BY <1>1, BoundAssumption DEF Drift, files
  <1>2. CASE SupplyMap
    BY <1>2 DEF SupplyMap, world, Null
  <1> QED
    BY <1>1, <1>2

\* The inductive invariant of the theorems below.
LEMMA Invariant == Spec => [](Typed /\ Holding)
  <1>1. Typed /\ Holding /\ [Next]_vars => (Typed /\ Holding)'
    <2> SUFFICES ASSUME Typed, Holding, [Next]_vars
                 PROVE  (Typed /\ Holding)'
      OBVIOUS
    <2>1. CASE Drift \/ SupplyMap
      BY <2>1, WorldStep
    <2>2. CASE \E p \in Process : ProcessStep(p)
      BY <2>2, TypedStep, HoldingStep DEF Typed
    <2>3. CASE UNCHANGED vars
      BY <2>3 DEF vars, Typed, TypeOK, Built, Serving, Holding, HasBuilt, Serves, Inside
    <2> QED
      BY <2>1, <2>2, <2>3 DEF Next, ProcessStep
  <1> QED
    BY <1>1, TypedInit, PTL DEF Spec

\* Every file of the directory, every opening and every open engine is well
\* formed: no manifest is written without the id of a graph, no template store is
\* stamped with none, no engine serves none, whatever was interrupted before.
THEOREM Typing == Spec => []TypeOK
  BY Invariant, PTL DEF Typed

\* The saved schema graph changes only with the artifact lock free, by a step of
\* its holder, or by a build that removes one it cannot use: no other process, not
\* even one that restores a checkpoint it found, touches it while another one
\* replaces the pair or applies a map.
THEOREM GraphGuarded == Spec => GraphUnderLock
  <1>1. Typed /\ Holding /\ [Next]_vars
        => [graph' # graph =>
             \/ lock = None
             \/ \E p \in Process : \/ lock = p /\ pc'[p] # pc[p]
                                   \/ Build(p)]_vars
    <2> SUFFICES ASSUME Typed, Holding, [Next]_vars, graph' # graph
                 PROVE  \/ lock = None
                        \/ \E p \in Process : \/ lock = p /\ pc'[p] # pc[p]
                                              \/ Build(p)
      OBVIOUS
    <2>1. CASE Drift \/ SupplyMap
      BY <2>1, WorldStep
    <2>2. CASE \E p \in Process : ProcessStep(p)
      BY <2>2, GraphStep DEF Typed
    <2>3. CASE UNCHANGED vars
      BY <2>3 DEF vars
    <2> QED
      BY <2>1, <2>2, <2>3 DEF Next, ProcessStep
  <1> QED
    BY <1>1, Invariant, PTL DEF Spec, GraphUnderLock

\* A migration map that fails leaves no trace in the manifest, the stores of every
\* space and the saved graph, for the only owner of a directory nobody else has
\* open: all that is put back was copied before the first change.
THEOREM FailedMapLeavesNothing ==
    ASSUME NEW o, Owner = {o} PROVE Spec => FailedMapUndone
  <1>1. Init => Undoable(o)
    BY DEF Init, Undoable, Process
  <1>2. Typed /\ Undoable(o) /\ [Next]_vars => Undoable(o)'
    <2> SUFFICES ASSUME Typed, Undoable(o), [Next]_vars
                 PROVE  Undoable(o)'
      OBVIOUS
    <2>1. CASE Drift \/ SupplyMap \/ UNCHANGED vars
      BY <2>1 DEF Drift, SupplyMap, world, files, vars, Undoable
    <2>2. ASSUME NEW p \in Process, ProcessStep(p) PROVE Undoable(o)'
      <3>1. use' = use
        BY <2>2, UseKept DEF world
      <3> QED
        BY <2>2, <3>1, UndoableStep DEF Undoable
    <2> QED
      BY <2>1, <2>2 DEF Next, ProcessStep
  <1>3. Undoable(o) /\ [Next]_vars
        => [use = "alone" => \A p \in Owner : MapFails(p) =>
              [manifest |-> manifest', store |-> store', graph |-> graph'] = before]_vars
    BY PutBackAll
  <1> QED
    BY <1>1, <1>2, <1>3, Invariant, PTL DEF Spec, FailedMapUndone

\* The invariant of the theorems about the only owner.
LEMMA Fits ==
    ASSUME NEW o, Owner = {o} PROVE Spec => [](Undoable(o) /\ Fitting(o))
  <1>1. Init => Undoable(o) /\ Fitting(o)
    BY DEF Init, Undoable, Process, Fitting, Backed, HasBuilt, One, Space
  <1>2. Typed /\ Undoable(o) /\ Fitting(o) /\ [Next]_vars => (Undoable(o) /\ Fitting(o))'
    <2> SUFFICES ASSUME Typed, Undoable(o), Fitting(o), [Next]_vars
                 PROVE  (Undoable(o) /\ Fitting(o))'
      OBVIOUS
    <2>1. CASE SupplyMap \/ UNCHANGED vars
      BY <2>1 DEF SupplyMap, world, vars, Undoable, Fitting, Backed, HasBuilt, NeedsMigration
    <2>2. CASE Drift
      <3>1. use = "alone" => pc[o] \in {"out", "refused", "serving"}
        BY <2>2 DEF Drift
      <3> QED
        BY <2>2, <3>1 DEF Drift, files, Undoable, Fitting, Backed, HasBuilt
    <2>3. ASSUME NEW p \in Process, ProcessStep(p) PROVE (Undoable(o) /\ Fitting(o))'
      <3>1. use' = use
        BY <2>3, UseKept DEF world
      <3>2. CASE use = "alone"
        BY <2>3, <3>2, UndoableStep, FittingStep
      <3> QED
        BY <3>1, <3>2 DEF Undoable, Fitting
    <2> QED
      BY <2>1, <2>2, <2>3 DEF Next, ProcessStep
  <1> QED
    BY <1>1, <1>2, Invariant, PTL DEF Spec

\* The only owner of a directory nobody else has open never serves a graph with
\* templates that use the names of another structure, however structures came and
\* went and wherever its openings failed or died, with one exception: a store in
\* which a remap died after it replaced the header and before its last shard.
THEOREM TemplatesAlwaysFit ==
    ASSUME NEW o, Owner = {o} PROVE Spec => TemplatesFit
  <1>1. Typed /\ Fitting(o) /\ [Next]_vars
        => [use = "alone" => \A p \in Owner : Load(p) =>
              \/ store'["master"] = None
              \/ store'["master"].whole => store'["master"].names \subseteq {serves'[p]}]_vars
    <2> SUFFICES ASSUME Typed, Fitting(o), use = "alone", Load(o)
                 PROVE  \/ store'["master"] = None
                        \/ store'["master"].whole
                           => store'["master"].names \subseteq {serves'[o]}
      OBVIOUS
    <2>1. store'["master"] = Reconciled(store["master"], Opening(o))
      BY DEF Load, Loads, Space
    <2>2. serves'[o] = Opening(o)
      BY DEF Load, Typed, TypeOK, Process
    <2> QED
      BY <2>1, <2>2 DEF Fitting, One, Reconciled
  <1> QED
    BY <1>1, Fits, Invariant, PTL DEF Spec, TemplatesFit

\* No opening of the only owner that has passed the gate takes away templates that
\* use the names of the graph it is about to serve, unless a remap died among the
\* rows of their store.
THEOREM FittingKept ==
    ASSUME NEW o, Owner = {o} PROVE Spec => FittingTemplatesKept
  <1>1. Typed /\ Fitting(o) /\ [Next]_vars
        => [use = "alone" => \A p \in Owner :
              /\ Policy(p) \/ BeginPolicy(p) \/ Prune(p) \/ Load(p)
              /\ store["master"] # None
              /\ store["master"].whole /\ store["master"].names = {work[p].built}
              => store'["master"] = store["master"] /\ pc'[p] # "remapping"]_vars
    <2> SUFFICES ASSUME Typed, Fitting(o), use = "alone", store["master"] # None,
                        store["master"].whole, store["master"].names = {work[o].built},
                        Policy(o) \/ BeginPolicy(o) \/ Prune(o) \/ Load(o)
                 PROVE  store'["master"] = store["master"] /\ pc'[o] # "remapping"
      OBVIOUS
    <2>1. store["master"].id = work[o].built
      BY DEF Fitting, One
    <2>2. pc \in [Process -> Step] /\ o \in Process /\ store \in Stores
          /\ "master" \in Space
      BY Parts DEF Openings, Tree, Process, Space
    <2>3. CASE Policy(o) \/ BeginPolicy(o)
      BY <2>2, <2>3 DEF Policy, BeginPolicy, Fitting, Go
    <2>4. CASE Prune(o)
      BY <2>1, <2>2, <2>4 DEF Prune, Go
    <2>5. CASE Load(o)
      <3>1. pc'[o] # "remapping"
        BY <2>2, <2>5 DEF Load, Go
      <3>2. store'["master"] = store["master"]
        BY <2>1, <2>2, <2>5 DEF Load, Opening, Reconciled
      <3> QED
        BY <3>1, <3>2
    <2> QED
      BY <2>2, <2>3, <2>4, <2>5
  <1> QED
    BY <1>1, Fits, Invariant, PTL DEF Spec, FittingTemplatesKept
=============================================================================
